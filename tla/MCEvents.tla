------------------------------ MODULE MCEvents ------------------------------
(***************************************************************************)
(* A small instance of EventPipeline for TLC.                              *)
(***************************************************************************)
EXTENDS EventPipeline

CONSTANTS pager, mail, nobody

\* One binding sends the first event to a sink that is not configured and to
\* one that is; the other, throttled, sends every event to the other sink.
\* Both deduplicate by the same key.
TwoBindings == <<
    [match |-> {1}, key |-> [e \in Events |-> "profile"], throttle |-> FALSE,
     sinks |-> <<nobody, mail>>],
    [match |-> Events, key |-> [e \in Events |-> "profile"], throttle |-> TRUE,
     sinks |-> <<pager>>] >>
TwoSinks == {pager, mail}
Refs == {pager, mail, nobody}
OneSink == {pager}
Other == {mail}
NoSink == {}
OneKey == {"profile"}
=============================================================================
