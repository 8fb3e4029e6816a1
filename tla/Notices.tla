------------------------------ MODULE Notices ------------------------------
(***************************************************************************)
(* Notices and inspections of the operations endpoints                     *)
(* (operations.service.ts, estate-ops.service.ts).  Who has seen or        *)
(* acknowledged a notice, and the requests an inspection mentions in its   *)
(* result, are columns read whole, added to and written back whole.        *)
(* Managers may write the result of an inspection too, as they please.     *)
(* Of its text only the mentions are kept; its status and dates are those  *)
(* of a ticket (Tickets).                                                  *)
(***************************************************************************)
EXTENDS Requests

CONSTANTS Papers, Readers, MaxFollowUps

ASSUME MaxFollowUpsNat == MaxFollowUps \in Nat

VARIABLES
    paper,       \* the notices and inspections
    followUps,   \* the requests converted from inspections: (inspection, number)
    struck,      \* history: those a manager's text left out of the result
    settled      \* history: per paper and column, what was there when nobody was at the paper

noticeVars == <<paper, followUps, struck, settled>>

NoPaper == [kind |-> "none"]

PaperColumns == {"acks", "seen", "result"}
Blank == [c \in PaperColumns |-> {}]

NoticesInit ==
    /\ paper = [p \in Papers |-> NoPaper]
    /\ followUps = {}
    /\ struck = {}
    /\ settled = [p \in Papers |-> Blank]

Posted == {p \in Papers : paper[p] # NoPaper}
Notices == {p \in Posted : paper[p].kind = "notice"}
Inspections == {p \in Posted : paper[p].kind = "inspection"}

\* What the columns of a row hold.
ColumnsOf(row) == [c \in PaperColumns |-> IF c \in DOMAIN row THEN row[c] ELSE {}]

\* What a request finds when nobody is at the paper is settled.
Settle(p) ==
    settled' = IF InFlight(p) = {} THEN [settled EXCEPT ![p] = ColumnsOf(paper[p])] ELSE settled

CreateNotice(p) ==
    /\ p \notin Posted /\ Fresh(p)
    /\ paper' = [paper EXCEPT ![p] = [kind |-> "notice", acks |-> {}, seen |-> {}]]
    /\ Once(p)
    /\ UNCHANGED <<followUps, struck, settled>>

\* Routine inspections of a block or a floor have no unit and are not converted.
CreateInspection(p) ==
    /\ p \notin Posted /\ Fresh(p)
    /\ \E unit \in BOOLEAN :
          paper' = [paper EXCEPT ![p] = [kind |-> "inspection", unit |-> unit, result |-> {}]]
    /\ Once(p)
    /\ UNCHANGED <<followUps, struck, settled>>

\* A request that has read the column is going to write it with one entry more.
Extend(i, p, c, x) ==
    /\ Begin(i, [op |-> "column", rows |-> {p}, paper |-> p, column |-> c,
                 value |-> paper[p][c] \cup {x}])
    /\ Settle(p)
    /\ UNCHANGED <<paper, struck>>

AcknowledgeNotice(i, p, u) == Extend(i, p, "acks", u) /\ UNCHANGED followUps

MarkNoticeSeen(i, p, u) == Extend(i, p, "seen", u) /\ UNCHANGED followUps

\* The request, with an id of its own, is created between the read of the inspection and
\* the write of its result; MaxFollowUps bounds how many come of one inspection.
BeginConversion(i, p) ==
    /\ paper[p].unit
    /\ \E n \in 1..MaxFollowUps :
          /\ <<p, n>> \notin followUps
          /\ followUps' = followUps \cup {<<p, n>>}
          /\ Extend(i, p, "result", n)

WriteColumn(i) ==
    LET r == req[i] IN
    /\ r # Idle /\ r.op = "column"
    /\ paper' = IF r.paper \in Posted THEN [paper EXCEPT ![r.paper][r.column] = r.value] ELSE paper
    /\ End(i)
    /\ UNCHANGED <<followUps, struck, settled>>

\* A manager names the result: any text, with whichever of the mentions.  (Where he
\* names none the result stays as it is, and only the ticket is updated.)
UpdateInspectionResult(i, p) ==
    /\ \E text \in SUBSET {n \in 1..MaxFollowUps : <<p, n>> \in followUps} :
          Begin(i, [op |-> "text", rows |-> {p}, paper |-> p, value |-> text])
    /\ Settle(p)
    /\ UNCHANGED <<paper, followUps, struck>>

WriteResult(i) ==
    LET r == req[i] IN
    /\ r # Idle /\ r.op = "text"
    /\ paper' = [paper EXCEPT ![r.paper].result = r.value]
    /\ struck' = {f \in struck : f[1] # r.paper}
                     \cup {f \in followUps : f[1] = r.paper /\ f[2] \notin r.value}
    /\ settled' = [settled EXCEPT ![r.paper].result = @ \cap r.value]
    /\ End(i)
    /\ UNCHANGED followUps

DeleteNotice(p) ==
    /\ p \in Notices
    /\ paper' = [paper EXCEPT ![p] = NoPaper]
    /\ settled' = [settled EXCEPT ![p] = Blank]
    /\ Once(p)
    /\ UNCHANGED <<followUps, struck>>

NoticesStep(i) ==
    \/ \E p \in Notices, u \in Readers : AcknowledgeNotice(i, p, u) \/ MarkNoticeSeen(i, p, u)
    \/ \E p \in Inspections : BeginConversion(i, p) \/ UpdateInspectionResult(i, p)
    \/ WriteColumn(i)
    \/ WriteResult(i)

NoticesNext ==
    \/ \E p \in Papers : CreateNotice(p) \/ CreateInspection(p) \/ DeleteNotice(p)
    \/ \E i \in Slots : NoticesStep(i) \/ (Cut(i) /\ UNCHANGED noticeVars)

-----------------------------------------------------------------------------

NoticesTypeOK ==
    /\ paper \in [Papers -> [kind : {"notice"}, acks : SUBSET Readers, seen : SUBSET Readers]
                            \cup [kind : {"inspection"}, unit : BOOLEAN, result : SUBSET (1..MaxFollowUps)]
                            \cup {NoPaper}]
    /\ followUps \subseteq Papers \X (1..MaxFollowUps)
    /\ struck \subseteq followUps
    /\ settled \in [Papers -> [PaperColumns -> SUBSET (Readers \cup 1..MaxFollowUps)]]

\* A part of NothingIsLost: however requests overlap, what was at a paper when nobody
\* was at it is there for good: no acknowledgement, no reader and no mention of a request
\* goes but with the notice, or by a manager who writes the result anew.  And while
\* requests have not overlapped at an inspection, nor one been cut short, its result
\* mentions exactly the requests that came of it but for those struck out.
AcksKept ==
    /\ \A p \in Papers : \A c \in PaperColumns : settled[p][c] \subseteq ColumnsOf(paper[p])[c]
    /\ \A p \in Inspections \ contested :
          InFlight(p) = {} => paper[p].result = {n \in 1..MaxFollowUps : <<p, n>> \in followUps \ struck}

=============================================================================
