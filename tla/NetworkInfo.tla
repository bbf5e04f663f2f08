----------------------------- MODULE NetworkInfo -----------------------------
(***************************************************************************)
(* The addresses the network page shows: NetworkInfoService of             *)
(* src/Api/Services/InfoServices.cs asks the replica's TtlCache, whose     *)
(* factory asks the EgressService of the worker over HTTP.  Several API    *)
(* replicas share one worker.  An API call that ends without the worker's  *)
(* answer closes its connection, and the worker learns of it later.        *)
(***************************************************************************)
EXTENDS TtlCache

CONSTANTS
  Families,    \* as in EgressService
  Known,
  None,
  CacheFor,
  FailureFor

VARIABLES
  reading,  \* the calls whose response has begun: SendAsync reads its body
  wpc, aborted, wstart, wgot, woutcome, task, cached, wexpires, wgate, wline

workerVars ==
  <<wpc, aborted, wstart, wgot, woutcome, task, cached, wexpires, wgate, wline>>
infoVars == <<cacheVars, workerVars, reading>>

W == INSTANCE EgressService WITH
  pc <- wpc, cancelled <- aborted, start <- wstart, got <- wgot, outcome <- woutcome,
  cell <- cached, expires <- wexpires, gate <- wgate, line <- wline

ASSUME EgressAssumption ==
  /\ Known \subseteq Families
  /\ CacheFor \in Nat \ {0}
  /\ FailureFor \in Nat \ {0}
  /\ SUBSET Families \subseteq Values
  /\ None \notin [val : W!Results, at : Nat]

InfoInit == Init /\ W!Init /\ reading = {}

\* The HTTP request arrives at the worker.
Ask(r) == Fill(r) /\ W!Arrive(r) /\ UNCHANGED reading

\* There is no answer: the worker cannot be reached, or HttpClient.Timeout passes.
Break(r) ==
  /\ r \notin reading
  /\ FillThrows(r)
  /\ UNCHANGED <<workerVars, reading>>

\* The headers of the answer arrive: with ResponseHeadersRead the timeout ends here.
Headers(r) ==
  /\ pc[r] = "filling" /\ r \notin reading
  /\ wpc[r] = "done"
  /\ reading' = reading \cup {r}
  /\ UNCHANGED <<cacheVars, workerVars>>

\* Its body has been read.
Reply(r) ==
  /\ r \in reading
  /\ woutcome[r] = "value"
  /\ FillReturns(r, W!Told(r))
  /\ reading' = reading \ {r}
  /\ UNCHANGED workerVars

\* The body breaks off, cannot be read, or is that of a problem.
ReadFails(r) ==
  /\ r \in reading
  /\ FillThrows(r)
  /\ reading' = reading \ {r}
  /\ UNCHANGED workerVars

\* A connection closed by the API reaches the worker as an aborted request.
Hangup(r) ==
  /\ pc[r] = "done"
  /\ W!Abort(r)
  /\ UNCHANGED <<cacheVars, reading>>

Clock ==
  /\ Tick /\ \A r \in Calls : wpc[r] # "storing"
  /\ UNCHANGED <<workerVars, reading>>

\* A caller that has gone ends its exchange wherever it is.
ApiStep(r) ==
  /\ Step(r) \/ FillCancelled(r)
  /\ reading' = reading \ {r}
  /\ UNCHANGED workerVars

WorkerStep(r) == (W!Step(r) \/ W!Network(r)) /\ UNCHANGED <<cacheVars, reading>>

\* What ends the wait for an answer, and what ends the reading of its body.
Answer(r) == Headers(r) \/ Break(r)
Body(r) == Reply(r) \/ ReadFails(r)

InfoNext ==
  \/ Clock
  \/ \E r \in Calls :
       \/ Cancel(r) /\ UNCHANGED <<workerVars, reading>>
       \/ ApiStep(r)
       \/ Ask(r) \/ Answer(r) \/ Body(r)
       \/ Hangup(r)
       \/ WorkerStep(r)

InfoSpec == InfoInit /\ [][InfoNext]_infoVars

\* The API's runtime goes on with every call that has come, and the HTTP client gives
\* up on an answer that does not begin.  Nothing makes a body end.
InfoFairSpec == InfoSpec /\ \A r \in Calls :
  /\ WF_infoVars(pc[r] # "idle" /\ ApiStep(r))
  /\ WF_infoVars(Ask(r))
  /\ WF_infoVars(Answer(r))

------------------------------------------------------------------------------
(* Properties                                                               *)

\* Waits for a body, with a caller that still waits for the call.
Stalled(r) == r \in reading /\ ~cancelled[r]

\* Nothing but a body holds callers up: every call ends, behind others whose worker
\* does not answer, whose exchange fails or whose caller goes away, unless some call
\* of its replica waits for the end of a body for ever.
OnlyABodyHoldsUp == \A r \in Calls :
  (\A q \in Calls : CacheOf[q] = CacheOf[r] => []<>~Stalled(q))
    => (pc[r] = "queueing" ~> pc[r] = "done")

\* What EgressService promises holds under calls that hang up at any time.
AbsenceIsReal == W!AbsenceIsReal

EgressFresh == W!EgressFresh

\* Neither of the two caches, one filled from the other, serves what had expired when
\* its call came.
NothingStale == ServedFresh /\ EgressFresh
==============================================================================
