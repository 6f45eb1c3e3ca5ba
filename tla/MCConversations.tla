--------------------------- MODULE MCConversations ---------------------------
(***************************************************************************)
(* Finite instances, for TLC, of the modules behind a conversation: the    *)
(* actions it proposes, its messages, the facts it leaves behind and the   *)
(* tools it calls.  One of them runs, and the others stay in their first   *)
(* state.                                                                  *)
(***************************************************************************)
EXTENDS PendingActions, ChatTurns, MemoryFacts, ToolCalls, TLC

VARIABLE part   \* which module runs

PartInit ==
  /\ part \in {"actions", "chat", "memory", "tools"}
  /\ Init
  /\ ChatInit
  /\ FactInit
  /\ ToolInit

PartNext ==
  \/ part = "actions" /\ Next /\ UNCHANGED <<part, chatVars, factVars, toolVars>>
  \/ part = "chat" /\ ChatNext /\ UNCHANGED <<part, vars, factVars, toolVars>>
  \/ part = "memory" /\ FactNext /\ UNCHANGED <<part, vars, chatVars, toolVars>>
  \/ part = "tools" /\ ToolNext /\ UNCHANGED <<part, vars, chatVars, factVars>>

PartSpec == PartInit /\ [][PartNext]_<<part, vars, chatVars, factVars, toolVars>>

\* No definition orders ids, requests, users or sessions; a set of constants
\* serves every module, and a permutation of it every set of them.
Symmetric ==
  Permutations(Ids) \cup Permutations(Turns) \cup Permutations(Confirms)
    \cup Permutations(Users) \cup Permutations(Sessions)

=============================================================================
