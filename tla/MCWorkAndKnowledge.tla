------------------------ MODULE MCWorkAndKnowledge ------------------------
(***************************************************************************)
(* Finite instances, for TLC, of the work on a task and of what is left of *)
(* it: speech recognition, of a stream and of a file, the runner of steps, *)
(* the stores of tasks, and the knowledge base and web search of           *)
(* MCKnowledge.  One of them runs, and the others stay in their first      *)
(* state.  Snapshots, runs and requests are the same two values, so that   *)
(* the symmetry of MCKnowledge serves every module: no definition orders   *)
(* them.                                                                   *)
(***************************************************************************)
EXTENDS FileStore, TaskRepo, StepRunner, AsrStream, AsrBackends, MCKnowledge

CONSTANTS sa, sb, heardText, tidyText   \* steps of a task, and texts

VARIABLE work   \* which module runs

workVars == <<fileVars, repoVars, runnerVars, streamVars, asrVars>>
knowledgeVars == <<part, vars, turnVars, chunkVars, webVars, cacheVars>>

\* A task without texts, one that was transcribed, as older versions saved it,
\* with `text` alone, and a formatted one.
NoTexts == [raw_text |-> NoText, text |-> NoText, formatted_text |-> NoText,
            text_formatted |-> "unset"]
MCViews ==
  {[status |-> "pending", steps |-> [n \in {} |-> "done"], output |-> NoTexts],
   [status |-> "running", steps |-> [n \in {sa} |-> "done"],
    output |-> [NoTexts EXCEPT !.text = heardText]],
   [status |-> "done", steps |-> [n \in {sa, sb} |-> "done"],
    output |-> [raw_text |-> heardText, text |-> tidyText, formatted_text |-> tidyText,
                text_formatted |-> "yes"]]}

\* Files whose pieces are known, partly known and unknown, the last of which is
\* not known to be long; answers without segments, with one, and with one that
\* starts so early that its time is misread and another that ends behind its
\* piece.
MCFiles ==
  {[total |-> 3000, chunks |-> <<2000, 1000>>], [total |-> 3000, chunks |-> <<0, 1000>>],
   [total |-> 0, chunks |-> <<0, 0>>]}
MCLattices ==
  {<<>>, <<[bg |-> 0, ed |-> 900]>>, <<[bg |-> 40, ed |-> 900], [bg |-> 900, ed |-> 2500]>>}

WorkInit ==
  /\ work \in {"file", "mysql", "runner", "stream", "recording", "knowledge"}
  /\ FileInit
  /\ RepoInit
  /\ RunnerInit
  /\ StreamInit
  /\ AsrInit
  /\ PartInit
  /\ work # "recording" => recording.total = 0 /\ recording.backend = "baidu"
  /\ work # "knowledge" => part = "cache"

WorkNext ==
  /\ UNCHANGED work
  /\ \/ /\ work = "file" /\ FileNext
        /\ UNCHANGED <<repoVars, runnerVars, streamVars, asrVars, knowledgeVars>>
     \/ /\ work = "mysql" /\ RepoNext
        /\ UNCHANGED <<fileVars, runnerVars, streamVars, asrVars, knowledgeVars>>
     \/ /\ work = "runner" /\ RunnerNext
        /\ UNCHANGED <<fileVars, repoVars, streamVars, asrVars, knowledgeVars>>
     \/ /\ work = "stream" /\ StreamNext
        /\ UNCHANGED <<fileVars, repoVars, runnerVars, asrVars, knowledgeVars>>
     \/ /\ work = "recording" /\ AsrNext
        /\ UNCHANGED <<fileVars, repoVars, runnerVars, streamVars, knowledgeVars>>
     \/ work = "knowledge" /\ PartNext /\ UNCHANGED workVars

WorkSpec == WorkInit /\ [][WorkNext]_<<work, workVars, knowledgeVars>>

=============================================================================
