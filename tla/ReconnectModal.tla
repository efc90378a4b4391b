-------------------------- MODULE ReconnectModal --------------------------
(***************************************************************************)
(* The reconnect dialog of the journal page (JournalWeb/Components/Layout/ *)
(* ReconnectModal.razor.js), with the theorems about it.                   *)
(*                                                                         *)
(* The script hears of the circuit from the Blazor runtime, which is       *)
(* modelled by what the script expects of it: Blazor.reconnect() and       *)
(* Blazor.resumeCircuit() answer true, false or with an exception, at any  *)
(* time and for any number of calls at once. An answer and the code after  *)
(* the await are two steps where both change something: a resumed circuit  *)
(* can be lost again before retry() closes the dialog.                     *)
(***************************************************************************)
EXTENDS Naturals, TLAPS

VARIABLES
  page,         \* "shown", or "reloading" after location.reload()
  circuit,      \* the runtime: "connected", "reconnecting", "failed" or "paused"
  dialog,       \* "open" or "closed"
  armed,        \* visibilitychange calls retryWhenDocumentBecomesVisible
  reconnects,   \* calls of retry() that wait for Blazor.reconnect()
  resumes,      \* calls of retry() that wait for Blazor.resumeCircuit()
  closes,       \* calls of retry() that were answered true and have yet to close()
  resumeClicks  \* calls of resume() that wait for Blazor.resumeCircuit()

vars == <<page, circuit, dialog, armed, reconnects, resumes, closes, resumeClicks>>

calls == <<reconnects, resumes, closes, resumeClicks>>

TypeOK ==
  /\ page \in {"shown", "reloading"}
  /\ circuit \in {"connected", "reconnecting", "failed", "paused"}
  /\ dialog \in {"open", "closed"}
  /\ armed \in BOOLEAN
  /\ reconnects \in Nat /\ resumes \in Nat /\ closes \in Nat /\ resumeClicks \in Nat

Init ==
  /\ page = "shown"
  /\ circuit = "connected"
  /\ dialog = "closed"
  /\ armed = FALSE
  /\ reconnects = 0 /\ resumes = 0 /\ closes = 0 /\ resumeClicks = 0

Reload == page' = "reloading" /\ UNCHANGED <<circuit, dialog, armed>>

Disarm == armed' = FALSE
Arm == armed' = TRUE

-----------------------------------------------------------------------------
(* handleReconnectStateChanged: what the runtime reports. *)

\* "show": the circuit is lost.
Show ==
  /\ circuit = "connected"
  /\ circuit' = "reconnecting"
  /\ dialog' = "open"
  /\ UNCHANGED <<page, armed, calls>>

\* The server pauses the circuit. The handler has no branch for a state of that
\* name; whether the runtime also reports "show" is not in the repository.
Pause ==
  /\ circuit = "connected"
  /\ circuit' = "paused"
  /\ dialog' \in {dialog, "open"}
  /\ UNCHANGED <<page, armed, calls>>

\* "hide": the runtime has the circuit back by itself.
Hide ==
  /\ circuit = "reconnecting"
  /\ circuit' = "connected"
  /\ dialog' = "closed"
  /\ UNCHANGED <<page, armed, calls>>

\* "failed": the runtime gives up.
Failed ==
  /\ circuit = "reconnecting"
  /\ circuit' = "failed"
  /\ Arm
  /\ UNCHANGED <<page, dialog, calls>>

\* "rejected": the server knows the circuit no more.
Rejected ==
  /\ circuit = "reconnecting"
  /\ Reload
  /\ UNCHANGED calls

-----------------------------------------------------------------------------
(* retry(), by the button or by the document becoming visible. *)

Retry ==
  /\ Disarm
  /\ reconnects' = reconnects + 1
  /\ UNCHANGED <<page, circuit, dialog, resumes, closes, resumeClicks>>

\* The dialog shows the button while it reports a failure, also during a retry.
ClickRetry == circuit = "failed" /\ dialog = "open" /\ Retry

RetryWhenDocumentBecomesVisible == armed = TRUE /\ Retry

\* Blazor.reconnect() is true: the runtime also reports "hide".
ReconnectSucceeds ==
  /\ reconnects > 0
  /\ reconnects' = reconnects - 1
  /\ circuit' = "connected"
  /\ dialog' = "closed"
  /\ UNCHANGED <<page, armed, resumes, closes, resumeClicks>>

\* It is false, and retry() goes on to Blazor.resumeCircuit().
ReconnectRejected ==
  /\ reconnects > 0
  /\ reconnects' = reconnects - 1
  /\ resumes' = resumes + 1
  /\ UNCHANGED <<page, circuit, dialog, armed, closes, resumeClicks>>

\* Blazor.resumeCircuit() is true: the page has a circuit, and retry() goes on.
ResumeSucceeds ==
  /\ resumes > 0
  /\ resumes' = resumes - 1
  /\ circuit' = "connected"
  /\ closes' = closes + 1
  /\ UNCHANGED <<page, dialog, armed, reconnects, resumeClicks>>

\* retry() closes the dialog, whatever became of the circuit since.
CloseDialog ==
  /\ closes > 0
  /\ closes' = closes - 1
  /\ dialog' = "closed"
  /\ UNCHANGED <<page, circuit, armed, reconnects, resumes, resumeClicks>>

ResumeRejected ==
  /\ resumes > 0
  /\ resumes' = resumes - 1
  /\ Reload
  /\ UNCHANGED <<reconnects, closes, resumeClicks>>

\* Either call throws: the server was not reached.
RetryThrows ==
  /\ \/ reconnects > 0 /\ reconnects' = reconnects - 1 /\ UNCHANGED resumes
     \/ resumes > 0 /\ resumes' = resumes - 1 /\ UNCHANGED reconnects
  /\ Arm
  /\ UNCHANGED <<page, circuit, dialog, closes, resumeClicks>>

-----------------------------------------------------------------------------
(* resume(), by the button of a paused session. *)

ClickResume ==
  /\ circuit = "paused" /\ dialog = "open"
  /\ resumeClicks' = resumeClicks + 1
  /\ UNCHANGED <<page, circuit, dialog, armed, reconnects, resumes, closes>>

\* The script leaves the dialog alone; the runtime may close it.
ResumeClickSucceeds ==
  /\ resumeClicks > 0
  /\ resumeClicks' = resumeClicks - 1
  /\ circuit' = "connected"
  /\ dialog' \in {dialog, "closed"}
  /\ UNCHANGED <<page, armed, reconnects, resumes, closes>>

\* False, or an exception.
ResumeClickFails ==
  /\ resumeClicks > 0
  /\ resumeClicks' = resumeClicks - 1
  /\ Reload
  /\ UNCHANGED <<reconnects, resumes, closes>>

-----------------------------------------------------------------------------
Next ==
  /\ page = "shown"
  /\ \/ Show \/ Pause \/ Hide \/ Failed \/ Rejected
     \/ ClickRetry \/ RetryWhenDocumentBecomesVisible
     \/ ReconnectSucceeds \/ ReconnectRejected
     \/ ResumeSucceeds \/ CloseDialog \/ ResumeRejected \/ RetryThrows
     \/ ClickResume \/ ResumeClickSucceeds \/ ResumeClickFails

Spec == Init /\ [][Next]_vars

(***************************************************************************)
(* A page whose runtime gave up is never left to itself: it retries when   *)
(* the document becomes visible, or a call of retry() is still waiting for *)
(* an answer, however many calls overlap and in whatever order they are    *)
(* answered (retry removes the listener first and puts it back only in its *)
(* catch).                                                                 *)
(***************************************************************************)
NeverStranded ==
  page = "shown" /\ circuit = "failed" => armed = TRUE \/ reconnects + resumes > 0

ModalInv == TypeOK /\ NeverStranded

LEMMA InitModal == Init => ModalInv
  <1> SUFFICES ASSUME Init PROVE ModalInv
    OBVIOUS
  <1>1. TypeOK
    <2>1. armed \in BOOLEAN
      BY Zenon DEF Init
    <2> QED
      BY <2>1 DEF Init, TypeOK
  <1>2. NeverStranded
    BY DEF Init, NeverStranded
  <1> QED
    BY <1>1, <1>2 DEF ModalInv

LEMMA NextModal == ModalInv /\ [Next]_vars => ModalInv'
  <1> SUFFICES ASSUME ModalInv, [Next]_vars PROVE ModalInv'
    OBVIOUS
  <1> USE DEF ModalInv, TypeOK, NeverStranded
  <1>1. CASE Show \/ Pause \/ Hide
    BY <1>1 DEF Show, Pause, Hide, calls
  <1>2. CASE Failed \/ Rejected
    BY <1>2 DEF Failed, Rejected, Reload, Arm, calls
  <1>3. CASE ClickRetry \/ RetryWhenDocumentBecomesVisible
    <2>1. /\ reconnects' = reconnects + 1
          /\ UNCHANGED <<page, circuit, dialog, resumes, closes, resumeClicks>>
      BY <1>3 DEF ClickRetry, RetryWhenDocumentBecomesVisible, Retry
    <2>2. armed' \in BOOLEAN
      BY <1>3, Zenon DEF ClickRetry, RetryWhenDocumentBecomesVisible, Retry, Disarm
    <2>3. NeverStranded'
      BY <2>1
    <2> QED
      BY <2>1, <2>2, <2>3
  <1>4. CASE ReconnectSucceeds \/ ReconnectRejected
    BY <1>4 DEF ReconnectSucceeds, ReconnectRejected
  <1>5. CASE ResumeSucceeds \/ CloseDialog \/ ResumeRejected
    BY <1>5 DEF ResumeSucceeds, CloseDialog, ResumeRejected, Reload
  <1>6. CASE RetryThrows
    BY <1>6 DEF RetryThrows, Arm
  <1>7. CASE ClickResume \/ ResumeClickSucceeds
    BY <1>7 DEF ClickResume, ResumeClickSucceeds
  <1>8. CASE ResumeClickFails
    BY <1>8 DEF ResumeClickFails, Reload
  <1>9. CASE UNCHANGED vars
    BY <1>9 DEF vars
  <1> QED
    BY <1>1, <1>2, <1>3, <1>4, <1>5, <1>6, <1>7, <1>8, <1>9 DEF Next

\* A given-up page always has a retry armed or in flight, for any number of
\* overlapping calls of retry().
THEOREM ModalNeverStrands == Spec => []NeverStranded
  <1>1. ModalInv => NeverStranded
    BY DEF ModalInv
  <1> QED
    BY InitModal, NextModal, <1>1, PTL DEF Spec

=============================================================================
