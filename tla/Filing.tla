------------------------------- MODULE Filing -------------------------------
(***************************************************************************)
(* How a request about a unit is filed.  The endpoint of the managers      *)
(* (apartment.service.ts) looks for the latest request of the same unit    *)
(* and resident in a short window and answers it again if its text is the  *)
(* same; the endpoint of the residents (tenant.service.ts) always files.   *)
(***************************************************************************)
EXTENDS Requests, Sequences

CONSTANTS Texts, DedupeWindow, MaxRequests

ASSUME DedupeWindowNat == DedupeWindow \in Nat
ASSUME MaxRequestsNat == MaxRequests \in Nat

VARIABLES filed      \* the requests of one unit and resident, in the order they were created

FilingInit == filed = <<>>

Latest == filed[Len(filed)]

Repeated(text) ==
    /\ filed # <<>>
    /\ Latest.at + DedupeWindow >= now
    /\ Latest.text = text

BeginFiling(i, text, by) ==
    /\ Begin(i, [op |-> "file", rows |-> {"filed"}, text |-> text, by |-> by])
    /\ UNCHANGED filed

CreateManagedRequest(i, text) ==
    /\ ~Repeated(text)
    /\ BeginFiling(i, text, "manager")

CreateMyRequest(i, text) == BeginFiling(i, text, "resident")

WriteFiled(i) ==
    LET r == req[i] IN
    /\ r # Idle /\ r.op = "file"
    /\ Len(filed) < MaxRequests
    /\ filed' = Append(filed, [text |-> r.text, at |-> now, by |-> r.by])
    /\ End(i)

FilingNext ==
    \/ \E i \in Slots :
          \/ \E text \in Texts : CreateManagedRequest(i, text) \/ CreateMyRequest(i, text)
          \/ WriteFiled(i)
          \/ Abort(i) /\ UNCHANGED filed
    \/ Tick /\ UNCHANGED filed

-----------------------------------------------------------------------------

FilingTypeOK ==
    /\ filed \in Seq([text : Texts, at : 1..MaxTime, by : {"manager", "resident"}])
    /\ Len(filed) <= MaxRequests

\* A part of NothingIsLost: a request that a manager files is not a repetition of the one
\* right before it within the window, unless two were on their way at once.
FiledOnce ==
    "filed" \notin contested =>
        \A n \in 2..Len(filed) :
            /\ filed[n].by = "manager"
            /\ filed[n].text = filed[n - 1].text
            => filed[n - 1].at + DedupeWindow < filed[n].at

=============================================================================
