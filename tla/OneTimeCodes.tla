---------------------------- MODULE OneTimeCodes ----------------------------
(***************************************************************************)
(* The one-time codes of the mails (the otpCode table) as the login        *)
(* (auth.service.ts) and the acceptance of an invitation                   *)
(* (onboarding.service.ts) use them: at most one code every ResendGap, the *)
(* latest code counts, and a wrong guess costs one of MaxAttempts.  The    *)
(* code is read, then written by id in a call of its own.                  *)
(***************************************************************************)
EXTENDS Requests, Sequences, FiniteSetsExt

CONSTANTS CodeLife, ResendGap, MaxAttempts, MaxCodes

ASSUME CodeLifeNat == CodeLife \in Nat
ASSUME MaxAttemptsNat == MaxAttempts \in Nat \ {0}
ASSUME MaxCodesNat == MaxCodes \in Nat

VARIABLES code      \* the rows in the order of their creation

CodeRow(People) ==
    [user : People, at : 1..MaxTime, until : 1..(MaxTime + CodeLife),
     attempts : 0..(MaxAttempts + Cardinality(Slots)), used : BOOLEAN]

CodesInit == code = <<>>

Unused(u) == {c \in DOMAIN code : code[c].user = u /\ ~code[c].used}

Usable(u) == {c \in Unused(u) : code[c].until > now}

TooSoon(u) == Unused(u) # {} /\ now - code[Max(Unused(u))].at < ResendGap

SendCode(i, u) ==
    /\ ~TooSoon(u)
    /\ Begin(i, [op |-> "send", rows |-> {u}, user |-> u, step |-> "issue"])
    /\ UNCHANGED code

IssueCode(i) ==
    /\ req[i] # Idle /\ req[i].step = "issue"
    /\ Len(code) < MaxCodes
    /\ code' = Append(code, [user |-> req[i].user, at |-> now, until |-> now + CodeLife,
                             attempts |-> 0, used |-> FALSE])
    /\ End(i)

\* Mutant: the misses are counted and never looked at.
ReadCodeMutant(i) ==
    LET r == req[i] IN
    /\ r # Idle /\ r.step = "code"
    /\ IF Usable(r.user) = {} THEN End(i)
       ELSE \E step \in {"spend", "miss"} :
               Proceed(i, [r EXCEPT !.step = step, !.code = Max(Usable(r.user))])
    /\ UNCHANGED code

\* The latest usable code is read and the guess compared with it; no code, no entry.
\* Five misses burn the code on the next try, whatever the guess.
ReadCode(i) ==
    LET r == req[i] IN
    /\ r # Idle /\ r.step = "code"
    /\ IF Usable(r.user) = {} THEN End(i)
       ELSE LET c == Max(Usable(r.user))
                To(step) == Proceed(i, [r EXCEPT !.step = step, !.code = c])
            IN IF code[c].attempts >= MaxAttempts THEN To("burn")
               ELSE To("spend") \/ To("miss")
    /\ UNCHANGED code

BurnCode(i) ==
    /\ req[i] # Idle /\ req[i].step = "burn"
    /\ code' = [code EXCEPT ![req[i].code].used = TRUE]
    /\ End(i)

MissCode(i) ==
    /\ req[i] # Idle /\ req[i].step = "miss"
    /\ code' = [code EXCEPT ![req[i].code].attempts = @ + 1]
    /\ End(i)

\* The right code is spent, and the request goes on to what it was sent for.
SpendCode(i) ==
    /\ req[i] # Idle /\ req[i].step = "spend"
    /\ code' = [code EXCEPT ![req[i].code].used = TRUE]
    /\ Proceed(i, [req[i] EXCEPT !.step = "grant"])

CodeStep(i) ==
    \/ IssueCode(i)
    \/ ReadCode(i)
    \/ BurnCode(i)
    \/ MissCode(i)
    \/ SpendCode(i)

-----------------------------------------------------------------------------

\* A part of CodesAreRationed: a code takes no more wrong guesses than MaxAttempts, and
\* one more for every other request that read it before the last guess was counted.
GuessesBounded ==
    \A c \in DOMAIN code : code[c].attempts < MaxAttempts + Cardinality(Slots)

=============================================================================
