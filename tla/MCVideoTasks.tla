--------------------------- MODULE MCVideoTasks ---------------------------
(***************************************************************************)
(* Finite instances of VideoTasks for TLC.                                 *)
(***************************************************************************)
EXTENDS VideoTasks, TLC

MCActors == {Main} \cup Requests \cup Ids
MCSteps == {"download_audio", "transcribe_audio", "format_transcript"}
MCOutputs == {o \in UNION {[K -> Texts \cup {"true", "false"}] : K \in SUBSET OutputKeys} :
                \A k \in DOMAIN o : o[k] \in Texts <=> k \in TextKeys}

\* Ids and requests are interchangeable: no definition orders them.
Symmetric == Permutations(Ids) \cup Permutations(Requests)

=============================================================================
