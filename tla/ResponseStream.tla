--------------------------- MODULE ResponseStream ---------------------------
(***************************************************************************)
(* What one enveloped response promises to whoever reads it, said without  *)
(* any of the machinery that produces it: the response is opened once,     *)
(* carries the messages the service produced one at a time, and is closed  *)
(* by exactly one verdict.  The verdict "ok" is a statement about the      *)
(* service: everything it had to say has been said.                        *)
(*                                                                         *)
(* The one licence to say "ok" wrongly is an abort, a cancellation of the  *)
(* handler by the server it runs in.  The licence is there because the     *)
(* code takes it (see AsgiStream and its finding), not because it should.  *)
(***************************************************************************)

VARIABLES
    trailers,   \* BOOLEAN: the verdict travels in trailers, after the body
    phase,      \* "idle", "open", "ended" (body over, trailers due), "closed"
    verdict,    \* "none", "ok" or "error": what the reader is told
    service,    \* "running", "completed" or "failed"
    owed,       \* BOOLEAN: a produced message is waiting to be carried
    lost,       \* BOOLEAN: a produced message will never be carried
    aborted     \* BOOLEAN: the handler was cancelled at least once

vars == <<trailers, phase, verdict, service, owed, lost, aborted>>

TypeOK ==
    /\ trailers \in BOOLEAN
    /\ phase \in {"idle", "open", "ended", "closed"}
    /\ verdict \in {"none", "ok", "error"}
    /\ service \in {"running", "completed", "failed"}
    /\ owed \in BOOLEAN
    /\ lost \in BOOLEAN
    /\ aborted \in BOOLEAN

\* The reader has been given everything the service produced.
Complete == service = "completed" /\ ~owed /\ ~lost

Init ==
    /\ trailers \in BOOLEAN
    /\ phase = "idle"
    /\ verdict = "none"
    /\ service = "running"
    /\ owed = FALSE
    /\ lost = FALSE
    /\ aborted = FALSE
-----------------------------------------------------------------------------
\* The service hands over one message; a second only when the first is gone.
Produce ==
    /\ service = "running" /\ ~owed
    /\ phase \in {"idle", "open"}
    /\ owed' = TRUE
    /\ UNCHANGED <<trailers, phase, verdict, service, lost, aborted>>

\* A service that answers with a single value has finished when it answers.
Answer ==
    /\ service = "running" /\ ~owed
    /\ phase = "idle"
    /\ service' = "completed"
    /\ owed' = TRUE
    /\ UNCHANGED <<trailers, phase, verdict, lost, aborted>>

Conclude ==
    /\ service = "running" /\ ~owed
    /\ service' \in {"completed", "failed"}
    /\ UNCHANGED <<trailers, phase, verdict, owed, lost, aborted>>

\* A message is dropped, waiting or just produced; the stream cannot end well.
Drop ==
    /\ owed \/ service = "running"
    /\ owed' = FALSE
    /\ lost' = TRUE
    /\ UNCHANGED <<trailers, phase, verdict, service, aborted>>

\* The server cancels the handler, which may kill the service and drop what
\* was waiting.
Abort ==
    /\ aborted' = TRUE
    /\ service' \in {service} \cup (IF service = "running" THEN {"failed"} ELSE {})
    /\ \/ UNCHANGED <<owed, lost>>
       \/ owed /\ owed' = FALSE /\ lost' = TRUE
    /\ UNCHANGED <<trailers, phase, verdict>>

Open ==
    /\ phase = "idle"
    /\ phase' = "open"
    /\ UNCHANGED <<trailers, verdict, service, owed, lost, aborted>>

Carry ==
    /\ phase = "open" /\ owed
    /\ owed' = FALSE
    /\ UNCHANGED <<trailers, phase, verdict, service, lost, aborted>>

\* The end of the response, which may come only where the verdict is due and
\* may be "ok" only when it is true.
Judge ==
    /\ verdict' \in {"ok", "error"}
    /\ verdict' = "ok" => Complete \/ aborted
    /\ phase' = "closed"
    /\ UNCHANGED <<trailers, service, owed, lost, aborted>>

EndBody ==
    /\ phase = "open" /\ trailers
    /\ phase' = "ended"
    /\ UNCHANGED <<trailers, verdict, service, owed, lost, aborted>>

End ==
    \/ phase = "open" /\ ~trailers /\ Judge
    \/ phase = "ended" /\ Judge

Next == Produce \/ Answer \/ Conclude \/ Drop \/ Abort \/ Open \/ Carry \/ EndBody \/ End

Spec == Init /\ [][Next]_vars
=============================================================================
