--------------------------- MODULE ChannelsProofs ---------------------------
(***************************************************************************)
(* Proofs about the channels' bridges: ClaimLease, WeixinBridge and        *)
(* VideoQueue, for every value of their constants.                         *)
(***************************************************************************)
EXTENDS ClaimLease, WeixinBridge, VideoQueue, TLAPS

(***************************************************************************)
(* The claim lease, for any number of claims, attempts, tries and faults.  *)
(* Only the last claim may own the row, a claim is never claimed again,    *)
(* and its finish takes the row from it: so it commits once.               *)
(***************************************************************************)

\* Whoever the row belongs to is the last claim, fenced writes are never of a
\* later one, and a row that may be claimed has an attempt left.
RowInv ==
  /\ row.claim # 0 => row.claim = epoch
  /\ row.leased => row.status = "processing"
  /\ row.status \in {"pending", "processing"} => row.attempts < MaxAttempts
  /\ effects <= epoch

\* A claim to come has no session; a finish takes the row from its claim, and
\* the row remembers none that was not committed.
CommitInv ==
  \A c \in Claims :
    /\ c > epoch => session[c].pc = "none" /\ commits[c] = 0
    /\ commits[c] \in {0, 1}
    /\ row.claim = c => commits[c] = 0
    /\ row.last.claim = c => commits[c] = 1

\* A session s of claim c whose heartbeat is b.
Sound(c, s, b) ==
  /\ s.pc = "closing" \/ s.told = "finished" => commits[c] = 1
  /\ s.pc \in {"work", "fence"} => s.lost \/ (b \in {"wait", "gate", "renew"} /\ ~ s.stop)
  /\ s.pc \in {"start", "work", "fence", "finish", "write", "confirm"} => ~ s.stop
  /\ s.closed => s.pc = "end" /\ b \in {"none", "ended"}

SessionInv == \A c \in Claims : Sound(c, session[c], beat[c])

IInv == TypeOK /\ RowInv /\ CommitInv /\ SessionInv

Beats == {"none", "wait", "gate", "renew", "ended"}
Gates == {"free", "worker", "beat"}

-----------------------------------------------------------------------------
(* Steps of one session. *)

\* The bounds are numbers.
LEMMA Bounds ==
  /\ MaxClaims \in Nat /\ MaxAttempts \in Nat \ {0} /\ Tries \in Nat \ {0} /\ MaxFaults \in Nat
  /\ Claims = 1..MaxClaims
BY ClaimLeaseAssumption DEF ClaimLeaseAssumption, Claims

\* A step that counts a fault stays within the bound.
LEMMA HurtIsBounded == ASSUME faults \in 0..MaxFaults, Hurt \/ UNCHANGED faults
                       PROVE faults' \in 0..MaxFaults
BY Bounds DEF Hurt

\* A step of one claim's session, its heartbeat and its gate leaves the rest of
\* the invariant as it is.
LEMMA SessionStep ==
  ASSUME IInv, NEW c \in Claims, NEW s \in Session, NEW b \in Beats, NEW g \in Gates,
         session[c].pc # "none" \/ s.pc = "none", Sound(c, s, b),
         session' = [session EXCEPT ![c] = s], beat' = [beat EXCEPT ![c] = b],
         gate' = [gate EXCEPT ![c] = g],
         Hurt \/ UNCHANGED faults, UNCHANGED <<row, epoch, effects, commits>>
  PROVE  IInv'
<1>1. TypeOK'
  <2>1. session' \in [Claims -> Session]
    BY DEF IInv, TypeOK
  <2>2. beat' \in [Claims -> Beats] /\ gate' \in [Claims -> Gates]
    BY DEF IInv, TypeOK, Beats, Gates
  <2>3. faults' \in 0..MaxFaults
    BY HurtIsBounded DEF IInv, TypeOK
  <2> QED
    BY <2>1, <2>2, <2>3 DEF IInv, TypeOK, Beats, Gates
<1>2. RowInv'
  BY DEF IInv, RowInv
<1>3. CommitInv'
  BY DEF IInv, TypeOK, CommitInv
<1>4. SessionInv'
  <2>1. Sound(c, session'[c], beat'[c])
    BY DEF IInv, TypeOK
  <2>2. \A d \in Claims : d # c => session'[d] = session[d] /\ beat'[d] = beat[d]
    BY DEF IInv, TypeOK
  <2>3. \A d \in Claims : Sound(d, session[d], beat[d])
    BY DEF IInv, SessionInv
  <2>4. SUFFICES ASSUME NEW d \in Claims PROVE Sound(d, session[d], beat[d])'
    BY DEF SessionInv
  <2>5. commits' = commits
    OBVIOUS
  <2>6. Sound(d, session'[d], beat'[d])
    BY <2>1, <2>2, <2>3
  <2> QED
    BY <2>5, <2>6 DEF Sound
<1> QED
  BY <1>1, <1>2, <1>3, <1>4 DEF IInv

\* What the invariant says of one session.
LEMMA OneSession ==
  ASSUME IInv, NEW c \in Claims
  PROVE  /\ session[c] \in Session /\ beat[c] \in Beats /\ gate[c] \in Gates
         /\ Sound(c, session[c], beat[c])
         /\ commits[c] \in {0, 1}
BY DEF IInv, TypeOK, SessionInv, CommitInv, Beats, Gates

\* The same when the heartbeat and the gate are left alone, too.
LEMMA WorkerStep ==
  ASSUME IInv, NEW c \in Claims, NEW s \in Session,
         session[c].pc # "none", Sound(c, s, beat[c]), Set(c, s),
         gate' = gate \/ \E g \in Gates : gate' = [gate EXCEPT ![c] = g],
         Hurt \/ UNCHANGED faults, UNCHANGED <<row, epoch, beat, effects, commits>>
  PROVE  IInv'
<1>1. beat[c] \in Beats /\ beat' = [beat EXCEPT ![c] = beat[c]]
  BY OneSession DEF IInv, TypeOK
<1>2. gate = [gate EXCEPT ![c] = gate[c]] /\ gate[c] \in Gates
  BY OneSession DEF IInv, TypeOK
<1>3. PICK g \in Gates : gate' = [gate EXCEPT ![c] = g]
  BY <1>2
<1> QED
  BY <1>1, <1>3, SessionStep DEF Set

-----------------------------------------------------------------------------
(* The worker, up to the finish. *)

LEMMA StartStep == ASSUME IInv, NEW c \in Claims, Start(c) PROVE IInv'
<1> DEFINE s == session[c]
           working == [s EXCEPT !.pc = "work", !.started = TRUE]
           closed == [s EXCEPT !.pc = "close", !.lost = TRUE]
<1>1. s \in Session /\ beat[c] \in Beats /\ gate[c] \in Gates /\ Sound(c, s, beat[c])
  BY OneSession
<1>2. s.pc = "start" /\ gate = [gate EXCEPT ![c] = gate[c]]
  BY DEF Start, At, IInv, TypeOK
<1>3. CASE Set(c, working) /\ beat' = [beat EXCEPT ![c] = "wait"] /\ UNCHANGED faults
  <2>1. working \in Session /\ Sound(c, working, "wait")
    BY <1>1, <1>2 DEF Session, Finishing, Sound
  <2>2. "wait" \in Beats
    BY DEF Beats
  <2>3. UNCHANGED <<row, epoch, gate, effects, commits>>
    BY DEF Start
  <2> HIDE DEF working
  <2> QED
    BY <1>1, <1>2, <1>3, <2>1, <2>2, <2>3, SessionStep DEF Set
<1>4. CASE Set(c, closed) /\ UNCHANGED beat /\ (Hurt \/ UNCHANGED faults)
  <2>1. closed \in Session /\ Sound(c, closed, beat[c])
    BY <1>1, <1>2 DEF Session, Finishing, Sound
  <2>2. UNCHANGED <<row, epoch, gate, effects, commits>>
    BY DEF Start
  <2> HIDE DEF closed
  <2> QED
    BY <1>2, <1>4, <2>1, <2>2, WorkerStep
<1> QED
  BY <1>3, <1>4 DEF Start

LEMMA BeforeProviderStep == ASSUME IInv, NEW c \in Claims, BeforeProvider(c) PROVE IInv'
<1> DEFINE s == session[c]
           lost == [s EXCEPT !.lost = TRUE]
<1>1. s \in Session /\ Sound(c, s, beat[c]) /\ s.pc = "work"
  BY OneSession DEF BeforeProvider, At
<1>2. lost \in Session /\ Sound(c, lost, beat[c])
  BY <1>1 DEF Session, Finishing, Sound
<1>3. Set(c, lost) /\ (Hurt \/ UNCHANGED faults)
      /\ UNCHANGED <<row, epoch, gate, beat, effects, commits>>
  BY DEF BeforeProvider
<1> HIDE DEF lost
<1> QED
  BY <1>1, <1>2, <1>3, WorkerStep

LEMMA EnterFenceStep == ASSUME IInv, NEW c \in Claims, EnterFence(c) PROVE IInv'
<1> DEFINE s == session[c]
           inside == [s EXCEPT !.pc = "fence"]
           lost == [s EXCEPT !.lost = TRUE]
<1>1. s \in Session /\ Sound(c, s, beat[c]) /\ s.pc = "work"
  BY OneSession DEF EnterFence, At
<1>2. lost \in Session /\ Sound(c, lost, beat[c]) /\ inside \in Session
      /\ Sound(c, inside, beat[c])
  BY <1>1 DEF Session, Finishing, Sound
<1>3. \/ Set(c, inside) /\ \E g \in Gates : gate' = [gate EXCEPT ![c] = g]
      \/ Set(c, lost) /\ gate' = gate
  BY DEF EnterFence, Gates
<1>4. UNCHANGED <<row, epoch, beat, effects, commits, faults>>
  BY DEF EnterFence
<1> HIDE DEF lost, inside
<1> QED
  BY <1>1, <1>2, <1>3, <1>4, WorkerStep

\* The write is the claim's own, or none: an earlier claim owns nothing.
LEMMA FencedWriteStep ==
  ASSUME IInv, NEW c \in Claims, FencedWrite(c) PROVE IInv' /\ effects' >= effects
<1> DEFINE s == session[c]
           out == [s EXCEPT !.pc = "work"]
<1>1. s \in Session /\ Sound(c, s, beat[c]) /\ s.pc = "fence" /\ c \in Nat /\ c # 0
  BY OneSession, Bounds DEF FencedWrite, At
<1>2. Owns(c) => c = epoch
  BY <1>1 DEF Owns, IInv, RowInv
<1>3. effects \in 0..MaxClaims /\ epoch \in 0..MaxClaims /\ effects <= epoch
  BY DEF IInv, TypeOK, RowInv
<1>4. effects' \in 0..MaxClaims /\ effects' <= epoch /\ effects' >= effects
  BY <1>2, <1>3, Bounds DEF FencedWrite
<1>5. out \in Session /\ Sound(c, out, beat[c])
  BY <1>1 DEF Session, Finishing, Sound
<1>6. gate' = [gate EXCEPT ![c] = "free"] /\ Set(c, out)
      /\ UNCHANGED <<row, epoch, beat, commits, faults>>
  BY DEF FencedWrite
<1> HIDE DEF out
<1>7. TypeOK'
  <2>1. session' \in [Claims -> Session] /\ gate' \in [Claims -> Gates]
    BY <1>5, <1>6 DEF IInv, TypeOK, Set, Gates
  <2> QED
    BY <1>4, <1>6, <2>1 DEF IInv, TypeOK, Gates
<1>8. RowInv'
  BY <1>4, <1>6 DEF IInv, RowInv
<1>9. CommitInv'
  BY <1>1, <1>6 DEF IInv, TypeOK, CommitInv, Set
<1>10. SessionInv'
  <2>1. SUFFICES ASSUME NEW d \in Claims PROVE Sound(d, session[d], beat[d])'
    BY DEF SessionInv
  <2>2. session'[d] = IF d = c THEN out ELSE session[d]
    BY <1>6 DEF IInv, TypeOK, Set
  <2>3. Sound(d, session'[d], beat[d])
    BY <1>5, <2>2 DEF IInv, SessionInv
  <2> QED
    BY <1>6, <2>3 DEF Sound
<1> QED
  BY <1>4, <1>7, <1>8, <1>9, <1>10 DEF IInv

-----------------------------------------------------------------------------
(* The finish. *)

LEMMA BeginFinishStep == ASSUME IInv, NEW c \in Claims, BeginFinish(c) PROVE IInv'
<1> DEFINE s == session[c]
           begun(outcome) == [s EXCEPT !.pc = "finish", !.outcome = outcome,
                                !.late = FALSE, !.tries = 0, !.error = FALSE]
<1>1. s \in Session /\ Sound(c, s, beat[c]) /\ s.pc = "work"
  BY OneSession DEF BeginFinish, At
<1>2. PICK outcome \in Outcomes : Set(c, begun(outcome))
  BY DEF BeginFinish
<1>3. begun(outcome) \in Session
  <2>1. 0 \in 0..Tries
    BY Bounds
  <2> QED
    BY <1>1, <2>1 DEF Session, Finishing
<1>4. Sound(c, begun(outcome), beat[c])
  BY <1>1 DEF Session, Sound
<1>5. UNCHANGED <<row, epoch, gate, beat, effects, commits, faults>>
  BY DEF BeginFinish
<1> HIDE DEF begun
<1> QED
  BY <1>1, <1>2, <1>3, <1>4, <1>5, WorkerStep

\* What the worker makes of a finish that is over is a session.
LEMMA Endings ==
  ASSUME NEW s \in Session
  PROVE  /\ Unfinished(s) \in Session /\ Lost(s) \in Session /\ TooLate(s) \in Session
         /\ Closing(s) \in Session
         /\ Unfinished(s).pc = "close" /\ Lost(s).pc = "close" /\ TooLate(s).pc = "close"
         /\ Unfinished(s).told = "not finished" /\ Lost(s).told = "not finished"
         /\ TooLate(s).told = "not finished"
         /\ Unfinished(s).closed = s.closed /\ Lost(s).closed = s.closed
         /\ TooLate(s).closed = s.closed
BY DEF Session, Finishing, Unfinished, Lost, TooLate, Closing

\* A session that is not closed ends soundly, whatever becomes of its finish.
LEMMA EndingsAreSound ==
  ASSUME NEW c \in Claims, NEW s \in Session, NEW b \in Beats, ~ s.closed
  PROVE  /\ Sound(c, Unfinished(s), b) /\ Sound(c, Lost(s), b) /\ Sound(c, TooLate(s), b)
         /\ commits[c] = 1 => Sound(c, Closing(s), b)
<1>1. Closing(s).pc = "closing" /\ Closing(s).closed = s.closed
  BY DEF Closing, Session
<1> QED
  BY <1>1, Endings DEF Sound

\* A try that is repeated is a session at the start of its finish, or has ended.
LEMMA NextTryIsSound ==
  ASSUME NEW c \in Claims, NEW s \in Session, NEW b \in Beats, Sound(c, s, b),
         s.pc \in {"write", "confirm"}
  PROVE  NextTry(s) \in Session /\ Sound(c, NextTry(s), b)
<1>1. ~ s.closed
  BY DEF Sound
<1>2. CASE s.tries + 1 < Tries
  <2> DEFINE again == [s EXCEPT !.pc = "finish", !.tries = @ + 1, !.error = FALSE]
  <2>1. again \in Session
    <3>1. s.tries \in 0..Tries
      BY DEF Session
    <3>2. s.tries + 1 \in 0..Tries
      BY <1>2, <3>1, Bounds
    <3> QED
      BY <3>2 DEF Session, Finishing
  <2>2. Sound(c, again, b)
    BY DEF Sound, Session
  <2> QED
    BY <1>2, <2>1, <2>2 DEF NextTry
<1>3. CASE ~ (s.tries + 1 < Tries)
  BY <1>1, <1>3, Endings, EndingsAreSound DEF NextTry
<1> QED
  BY <1>2, <1>3

LEMMA FinishTakesGateStep ==
  ASSUME IInv, NEW c \in Claims, FinishTakesGate(c) PROVE IInv'
<1> DEFINE s == session[c]
           writing == [s EXCEPT !.pc = "write"]
<1>1. s \in Session /\ beat[c] \in Beats /\ Sound(c, s, beat[c]) /\ s.pc = "finish"
  BY OneSession DEF FinishTakesGate, At
<1>2. ~ s.closed
  BY <1>1 DEF Sound
<1>3. writing \in Session /\ Sound(c, writing, beat[c])
  BY <1>1 DEF Session, Finishing, Sound
<1>4. \/ (Set(c, TooLate(s)) \/ Set(c, Lost(s))) /\ gate' = gate
      \/ Set(c, writing) /\ \E g \in Gates : gate' = [gate EXCEPT ![c] = g]
  BY DEF FinishTakesGate, Gates
<1>5. UNCHANGED <<row, epoch, beat, effects, commits, faults>>
  BY DEF FinishTakesGate
<1> HIDE DEF writing
<1> QED
  BY <1>1, <1>2, <1>3, <1>4, <1>5, Endings, EndingsAreSound, WorkerStep

\* A finish that changes the row takes it from its owner, who is recorded.
LEMMA FinishedRowIsARow ==
  ASSUME IInv, NEW c \in Claims, NEW outcome \in Outcomes, FinishedRow(c, outcome) # row
  PROVE  LET r == FinishedRow(c, outcome) IN
         /\ Owns(c) /\ r \in Row /\ r.status # "processing" /\ r.claim = 0 /\ ~ r.leased
         /\ r.status = "pending" => r.attempts < MaxAttempts
         /\ r.last.claim = c
<1>1. Owns(c) /\ row.status = "processing" /\ row.attempts \in 0..MaxAttempts
      /\ row.attempts < MaxAttempts /\ row \in Row
  BY DEF FinishedRow, Owns, IInv, TypeOK, RowInv, Row
<1>2. outcome = "done" \/ outcome = "retry"
  BY DEF Outcomes
<1> DEFINE dead == outcome = "retry" /\ row.attempts + 1 >= MaxAttempts
           r == [row EXCEPT
                   !.status = IF outcome = "done" THEN "done"
                              ELSE IF dead THEN "dead" ELSE "pending",
                   !.claim = 0, !.leased = FALSE,
                   !.attempts = IF outcome = "done" THEN @ ELSE @ + 1,
                   !.last = [claim |-> c, outcome |-> IF dead THEN "dead" ELSE outcome]]
<1>3. FinishedRow(c, outcome) = r
  BY <1>1 DEF FinishedRow
<1>4. [claim |-> c, outcome |-> IF dead THEN "dead" ELSE outcome] \in Finish
  BY <1>2, Bounds DEF Finish
<1>5. (IF outcome = "done" THEN row.attempts ELSE row.attempts + 1) \in 0..MaxAttempts
  BY <1>1, Bounds
<1>6. r \in Row
  <2>1. r.status \in {"pending", "processing", "done", "dead"} /\ 0 \in 0..MaxClaims
    BY <1>1, Bounds DEF Row
  <2> QED
    BY <1>1, <1>4, <1>5, <2>1 DEF Row
<1>7. /\ r.status # "processing" /\ r.claim = 0 /\ ~ r.leased
      /\ r.status = "pending" => r.attempts < MaxAttempts
      /\ r.last.claim = c
  BY <1>1, <1>2, Bounds DEF Row
<1> QED
  BY <1>1, <1>3, <1>6, <1>7

\* The store says that it changed the row only if it did, and changes it only
\* if the finish does.
LEMMA AnswersOfStore ==
  ASSUME NEW c \in Claims, NEW answer \in Answers(c)
  PROVE  /\ answer[2] \in BOOLEAN
         /\ answer[2] => FinishedRow(c, session[c].outcome) # row
         /\ answer[1] = "changed" => answer[2]
<1> DEFINE changes == FinishedRow(c, session[c].outcome) # row
<1>1. \/ answer = <<"changed", TRUE>> /\ changes
      \/ answer = <<"retryable", TRUE>> /\ changes
      \/ answer = <<"fatal", TRUE>> /\ changes
      \/ answer = <<"retryable", FALSE>> \/ answer = <<"fatal", FALSE>>
      \/ answer = <<"missed", FALSE>>
  BY Zenon DEF Answers
<1> HIDE DEF changes
<1>2. CASE answer = <<"changed", TRUE>> /\ changes
  BY <1>2 DEF changes
<1>3. CASE answer = <<"retryable", TRUE>> /\ changes
  BY <1>3 DEF changes
<1>4. CASE answer = <<"fatal", TRUE>> /\ changes
  BY <1>4 DEF changes
<1>5. CASE answer = <<"retryable", FALSE>>
  BY <1>5
<1>6. CASE answer = <<"fatal", FALSE>>
  BY <1>6
<1>7. CASE answer = <<"missed", FALSE>>
  BY <1>7
<1> QED
  BY <1>1, <1>2, <1>3, <1>4, <1>5, <1>6, <1>7

\* A write of a finish and its answer: a session that ended, that is to be
\* closed after a commit, or that asks the row.
LEMMA WriteAndAnswer ==
  ASSUME IInv, NEW c \in Claims, FinishWrites(c)
  PROVE  \E committed \in BOOLEAN : \E t \in Session :
           /\ committed => FinishedRow(c, session[c].outcome) # row
           /\ row' = IF committed THEN FinishedRow(c, session[c].outcome) ELSE row
           /\ commits' = [commits EXCEPT ![c] = IF committed THEN @ + 1 ELSE @]
           /\ Set(c, t)
           /\ t.pc \in {"close", "closing", "confirm"} /\ ~ t.closed
           /\ t.pc = "closing" => committed
           /\ t.pc = "confirm" => ~ t.stop
           /\ t.told = "finished" => session[c].told = "finished"
<1> DEFINE s == session[c]
           asked(error) == [s EXCEPT !.pc = "confirm", !.error = error]
<1>1. s \in Session /\ s.pc = "write" /\ Sound(c, s, beat[c]) /\ s.late \in BOOLEAN
  BY OneSession DEF FinishWrites, At, Session
<1>2. ~ s.closed /\ ~ s.stop
  BY <1>1 DEF Sound
<1>3. PICK answer \in Answers(c) :
        /\ row' = IF answer[2] THEN FinishedRow(c, s.outcome) ELSE row
        /\ commits' = [commits EXCEPT ![c] = IF answer[2] THEN @ + 1 ELSE @]
        /\ \/ Set(c, Lost(s)) \/ Set(c, TooLate(s))
           \/ answer[1] = "changed" /\ Set(c, Closing(s))
           \/ \E error \in BOOLEAN : Set(c, asked(error))
  BY <1>1 DEF FinishWrites
<1>4. /\ answer[2] \in BOOLEAN
      /\ answer[2] => FinishedRow(c, s.outcome) # row
      /\ answer[1] = "changed" => answer[2]
  BY AnswersOfStore
<1>5. \A error \in BOOLEAN :
        /\ asked(error) \in Session /\ asked(error).pc = "confirm" /\ ~ asked(error).closed
        /\ ~ asked(error).stop /\ asked(error).told = s.told
  BY <1>1, <1>2 DEF Session, Finishing
<1>6. Closing(s).pc = "closing" /\ ~ Closing(s).closed /\ Closing(s).told = s.told
  BY <1>1, <1>2 DEF Closing, Session
<1>7. /\ Lost(s) \in Session /\ Lost(s).pc = "close" /\ ~ Lost(s).closed
      /\ Lost(s).told # "finished"
      /\ TooLate(s) \in Session /\ TooLate(s).pc = "close" /\ ~ TooLate(s).closed
      /\ TooLate(s).told # "finished" /\ Closing(s) \in Session
  BY <1>1, <1>2, Endings
<1> DEFINE Fine(t) == /\ t.pc \in {"close", "closing", "confirm"} /\ ~ t.closed
                      /\ t.pc = "closing" => answer[2]
                      /\ t.pc = "confirm" => ~ t.stop
                      /\ t.told = "finished" => s.told = "finished"
<1>8. \E t \in Session : Set(c, t) /\ Fine(t)
  <2>1. CASE Set(c, Lost(s)) \/ Set(c, TooLate(s))
    BY <1>7, <2>1
  <2>2. CASE answer[1] = "changed" /\ Set(c, Closing(s))
    BY <1>4, <1>6, <1>7, <2>2
  <2>3. CASE \E error \in BOOLEAN : Set(c, asked(error))
    <3>1. PICK error \in BOOLEAN : Set(c, asked(error))
      BY <2>3
    <3>2. asked(error) \in Session /\ Fine(asked(error))
      BY <1>5
    <3> HIDE DEF asked, Fine
    <3> QED
      BY <3>1, <3>2
  <2> QED
    BY <1>3, <2>1, <2>2, <2>3
<1> QED
  BY <1>3, <1>4, <1>8

\* A claim that commits its finish did not before, and is not the row's any more.
LEMMA FinishWritesStep == ASSUME IInv, NEW c \in Claims, FinishWrites(c) PROVE IInv'
<1> DEFINE finished == FinishedRow(c, session[c].outcome)
<1>1. PICK committed \in BOOLEAN, t \in Session :
        /\ committed => finished # row
        /\ row' = IF committed THEN finished ELSE row
        /\ commits' = [commits EXCEPT ![c] = IF committed THEN @ + 1 ELSE @]
        /\ Set(c, t)
        /\ t.pc \in {"close", "closing", "confirm"} /\ ~ t.closed
        /\ t.pc = "closing" => committed
        /\ t.pc = "confirm" => ~ t.stop
        /\ t.told = "finished" => session[c].told = "finished"
  BY WriteAndAnswer
<1>2. /\ session[c].pc = "write" /\ commits[c] \in {0, 1} /\ Sound(c, session[c], beat[c])
      /\ session[c].outcome \in Outcomes
  BY OneSession DEF FinishWrites, At, Session
<1>3. committed => /\ Owns(c) /\ finished \in Row /\ finished.status # "processing"
                   /\ finished.claim = 0 /\ ~ finished.leased /\ finished.last.claim = c
                   /\ finished.status = "pending" => finished.attempts < MaxAttempts
  BY <1>1, <1>2, FinishedRowIsARow
<1> HIDE DEF finished
<1>4. committed => commits[c] = 0
  BY <1>3 DEF Owns, IInv, CommitInv
<1>5. commits'[c] = (IF committed THEN 1 ELSE commits[c])
      /\ \A d \in Claims : d # c => commits'[d] = commits[d]
  BY <1>1, <1>4 DEF IInv, TypeOK
<1>6. session'[c] = t /\ \A d \in Claims : d # c => session'[d] = session[d]
  BY <1>1 DEF Set, IInv, TypeOK
<1>7. /\ UNCHANGED <<epoch, beat, effects>>
      /\ gate' \in [Claims -> Gates]
      /\ faults' \in 0..MaxFaults
  <2>1. gate[c] \in Gates /\ "free" \in Gates
    BY OneSession DEF Gates
  <2>2. gate' = [gate EXCEPT ![c] = gate[c]] \/ gate' = [gate EXCEPT ![c] = "free"]
    BY DEF FinishWrites
  <2>3. gate \in [Claims -> Gates]
    BY DEF IInv, TypeOK, Gates
  <2>4. Hurt \/ UNCHANGED faults
    BY DEF FinishWrites
  <2> QED
    BY <2>1, <2>2, <2>3, <2>4, HurtIsBounded DEF FinishWrites, IInv, TypeOK
<1>8. TypeOK'
  <2>1. session' \in [Claims -> Session]
    BY <1>1 DEF IInv, TypeOK, Set
  <2>2. commits' \in [Claims -> 0..Tries]
    <3>1. commits'[c] \in 0..Tries
      BY <1>2, <1>5, Bounds
    <3> QED
      BY <1>1, <1>5, <3>1 DEF IInv, TypeOK
  <2>3. row' \in Row /\ (row'.status = "processing" <=> row'.claim # 0)
    <3>1. CASE committed
      BY <1>1, <1>3, <3>1
    <3>2. CASE ~ committed
      BY <1>1, <3>2 DEF IInv, TypeOK
    <3> QED
      BY <3>1, <3>2
  <2> QED
    BY <1>7, <2>1, <2>2, <2>3 DEF IInv, TypeOK, Gates
<1>9. RowInv'
  <2>1. CASE committed
    BY <1>1, <1>3, <1>7, <2>1 DEF IInv, RowInv
  <2>2. CASE ~ committed
    BY <1>1, <1>7, <2>2 DEF IInv, RowInv
  <2> QED
    BY <2>1, <2>2
<1>10. CommitInv'
  <2>1. SUFFICES ASSUME NEW d \in Claims
                 PROVE  /\ d > epoch => session'[d].pc = "none" /\ commits'[d] = 0
                        /\ commits'[d] \in {0, 1}
                        /\ row'.claim = d => commits'[d] = 0
                        /\ row'.last.claim = d => commits'[d] = 1
    BY <1>7 DEF CommitInv
  <2>2. /\ d > epoch => session[d].pc = "none" /\ commits[d] = 0
        /\ commits[d] \in {0, 1}
        /\ row.claim = d => commits[d] = 0
        /\ row.last.claim = d => commits[d] = 1
    BY DEF IInv, CommitInv
  <2>3. d # 0
    BY Bounds
  <2>4. d = c => ~ (d > epoch)
    BY <1>2, <2>2
  <2>5. CASE committed
    BY <1>1, <1>3, <1>5, <1>6, <2>2, <2>3, <2>4, <2>5
  <2>6. CASE ~ committed
    BY <1>1, <1>5, <1>6, <2>2, <2>4, <2>6
  <2> QED
    BY <2>5, <2>6
<1>11. SessionInv'
  <2>1. SUFFICES ASSUME NEW d \in Claims PROVE Sound(d, session[d], beat[d])'
    BY DEF SessionInv
  <2>2. Sound(d, session[d], beat[d])
    BY DEF IInv, SessionInv
  <2>3. CASE d = c
    <3>1. t.pc = "closing" \/ t.told = "finished" => commits'[c] = 1
      BY <1>1, <1>2, <1>5 DEF Sound
    <3> QED
      BY <1>1, <1>6, <2>3, <3>1 DEF Sound
  <2>4. CASE d # c
    BY <1>5, <1>6, <1>7, <2>2, <2>4 DEF Sound
  <2> QED
    BY <2>3, <2>4
<1> QED
  BY <1>8, <1>9, <1>10, <1>11 DEF IInv

LEMMA FinishConfirmsStep ==
  ASSUME IInv, NEW c \in Claims, FinishConfirms(c) PROVE IInv'
<1> DEFINE s == session[c]
<1>1. s \in Session /\ beat[c] \in Beats /\ Sound(c, s, beat[c]) /\ s.pc = "confirm"
      /\ s.outcome \in Outcomes
  BY OneSession DEF FinishConfirms, At, Session
<1>2. ~ s.closed
  BY <1>1 DEF Sound
<1>3. Confirmed(c, s.outcome) => commits[c] = 1
  BY DEF Confirmed, IInv, CommitInv
<1>4. \/ Set(c, TooLate(s)) \/ Set(c, Lost(s)) \/ Set(c, NextTry(s))
      \/ Confirmed(c, s.outcome) /\ Set(c, Closing(s))
  BY DEF FinishConfirms
<1>5. /\ UNCHANGED <<row, epoch, beat, effects, commits>>
      /\ \E g \in Gates : gate' = [gate EXCEPT ![c] = g]
      /\ Hurt \/ UNCHANGED faults
  BY DEF FinishConfirms, Gates
<1> HIDE DEF s
<1>6. \E t \in Session : Set(c, t) /\ Sound(c, t, beat[c])
  BY <1>1, <1>2, <1>3, <1>4, Endings, EndingsAreSound, NextTryIsSound
<1> QED
  BY <1>1, <1>5, <1>6, WorkerStep DEF s

LEMMA FinishClosesStep ==
  ASSUME IInv, NEW c \in Claims, FinishCloses(c) PROVE IInv'
<1> DEFINE s == session[c]
           told(answer) == [s EXCEPT !.pc = "close", !.told = answer]
           failed == [s EXCEPT !.failed = TRUE]
<1>1. s \in Session /\ beat[c] \in Beats /\ Sound(c, s, beat[c]) /\ s.pc = "closing"
      /\ commits[c] = 1
  BY OneSession DEF FinishCloses, At, Sound
<1>2. ~ s.closed
  BY <1>1 DEF Sound
<1>3. \A answer \in {"finished", "not finished"} :
        told(answer) \in Session /\ Sound(c, told(answer), beat[c])
  BY <1>1, <1>2 DEF Session, Finishing, Sound
<1>4. failed \in Session /\ ~ failed.closed
  BY <1>1, <1>2 DEF Session, Finishing
<1>5. \/ Set(c, TooLate(s)) \/ Set(c, Lost(failed))
      \/ \E answer \in {"finished", "not finished"} : Set(c, told(answer))
  BY DEF FinishCloses
<1>6. /\ UNCHANGED <<row, epoch, gate, beat, effects, commits>>
      /\ Hurt \/ UNCHANGED faults
  BY DEF FinishCloses
<1> HIDE DEF failed, told, s
<1>7. \E t \in Session : Set(c, t) /\ Sound(c, t, beat[c])
  BY <1>1, <1>2, <1>3, <1>4, <1>5, Endings, EndingsAreSound
<1> QED
  BY <1>1, <1>6, <1>7, WorkerStep DEF s

LEMMA LateStep == ASSUME IInv, NEW c \in Claims, Late(c) PROVE IInv'
<1> DEFINE s == session[c]
           late == [s EXCEPT !.late = TRUE]
<1>1. s \in Session /\ Sound(c, s, beat[c]) /\ s.pc \in Finishing
  BY OneSession DEF Late
<1>2. late \in Session /\ Sound(c, late, beat[c]) /\ s.pc # "none"
  BY <1>1 DEF Session, Finishing, Sound
<1>3. /\ UNCHANGED <<row, epoch, gate, beat, effects, commits>>
      /\ Hurt \/ UNCHANGED faults
      /\ Set(c, late)
  BY DEF Late
<1> HIDE DEF late
<1> QED
  BY <1>2, <1>3, WorkerStep

\* close answers yes only if the thread is over.
LEMMA CloseStep == ASSUME IInv, NEW c \in Claims, Close(c) PROVE IInv'
<1> DEFINE s == session[c]
           ended(yes) == [s EXCEPT !.pc = "end", !.closed = yes]
           asked == [s EXCEPT !.stop = TRUE]
           left == [s EXCEPT !.pc = "end", !.lost = TRUE]
<1>1. s \in Session /\ beat[c] \in Beats /\ Sound(c, s, beat[c]) /\ s.pc = "close"
  BY OneSession DEF Close, At
<1>2. ~ s.closed
  BY <1>1 DEF Sound
<1>3. \A yes \in BOOLEAN :
        /\ ended(yes) \in Session
        /\ beat[c] \in {"none", "ended"} \/ ~ yes => Sound(c, ended(yes), beat[c])
  BY <1>1 DEF Session, Finishing, Sound
<1>4. asked \in Session /\ Sound(c, asked, beat[c]) /\ left \in Session
      /\ Sound(c, left, beat[c])
  BY <1>1, <1>2 DEF Session, Finishing, Sound
<1>5. \/ \E yes \in BOOLEAN :
           Set(c, ended(yes)) /\ (beat[c] \in {"none", "ended"} \/ ~ yes)
      \/ Set(c, asked) \/ Set(c, left)
  BY DEF Close
<1>6. /\ UNCHANGED <<row, epoch, gate, beat, effects, commits>>
      /\ Hurt \/ UNCHANGED faults
  BY DEF Close
<1> HIDE DEF ended, asked, left
<1>7. \E t \in Session : Set(c, t) /\ Sound(c, t, beat[c])
  BY <1>3, <1>4, <1>5
<1> QED
  BY <1>1, <1>6, <1>7, WorkerStep

-----------------------------------------------------------------------------
(* The heartbeat. *)

LEMMA WakeStep == ASSUME IInv, NEW c \in Claims, Wake(c) PROVE IInv'
<1> DEFINE s == session[c]
           b == IF s.stop THEN "ended" ELSE "gate"
<1>1. s \in Session /\ Sound(c, s, beat[c]) /\ beat[c] = "wait" /\ gate[c] \in Gates
  BY OneSession DEF Wake
<1>2. b \in Beats /\ Sound(c, s, b)
  BY <1>1 DEF Beats, Sound
<1>3. session' = [session EXCEPT ![c] = s] /\ gate' = [gate EXCEPT ![c] = gate[c]]
      /\ beat' = [beat EXCEPT ![c] = b] /\ UNCHANGED <<row, epoch, effects, commits, faults>>
  BY DEF Wake, IInv, TypeOK
<1> HIDE DEF b
<1> QED
  BY <1>1, <1>2, <1>3, SessionStep

LEMMA TakesGateStep == ASSUME IInv, NEW c \in Claims, TakesGate(c) PROVE IInv'
<1> DEFINE s == session[c]
<1>1. s \in Session /\ Sound(c, s, beat[c]) /\ beat[c] = "gate" /\ gate[c] \in Gates
  BY OneSession DEF TakesGate
<1>2. /\ "ended" \in Beats /\ "renew" \in Beats /\ "beat" \in Gates
      /\ s.lost \/ s.stop => Sound(c, s, "ended")
      /\ Sound(c, s, "renew")
  BY <1>1 DEF Beats, Gates, Sound
<1>3. session' = [session EXCEPT ![c] = s] /\ UNCHANGED <<row, epoch, effects, commits, faults>>
      /\ gate = [gate EXCEPT ![c] = gate[c]]
  BY DEF TakesGate, IInv, TypeOK
<1>4. \/ beat' = [beat EXCEPT ![c] = "ended"] /\ (s.lost \/ s.stop) /\ gate' = gate
      \/ beat' = [beat EXCEPT ![c] = "renew"] /\ gate' = [gate EXCEPT ![c] = "beat"]
  BY DEF TakesGate
<1> QED
  BY <1>1, <1>2, <1>3, <1>4, SessionStep

LEMMA PulseStep == ASSUME IInv, NEW c \in Claims, Pulse(c) PROVE IInv'
<1> DEFINE s == session[c]
           lost == [s EXCEPT !.lost = TRUE]
<1>1. s \in Session /\ Sound(c, s, beat[c]) /\ beat[c] = "renew"
  BY OneSession DEF Pulse
<1>2. /\ "ended" \in Beats /\ "wait" \in Beats /\ "free" \in Gates /\ Sound(c, s, "wait")
      /\ lost \in Session /\ lost.pc = s.pc /\ Sound(c, lost, "ended")
  BY <1>1 DEF Beats, Gates, Sound, Session, Finishing
<1>3. /\ gate' = [gate EXCEPT ![c] = "free"]
      /\ Hurt \/ UNCHANGED faults
      /\ UNCHANGED <<row, epoch, effects, commits>>
      /\ session = [session EXCEPT ![c] = s]
  BY DEF Pulse, IInv, TypeOK
<1>4. \/ beat' = [beat EXCEPT ![c] = "wait"] /\ session' = session
      \/ beat' = [beat EXCEPT ![c] = "ended"] /\ session' = [session EXCEPT ![c] = lost]
  BY DEF Pulse, Set
<1> HIDE DEF lost
<1>5. CASE beat' = [beat EXCEPT ![c] = "wait"] /\ session' = session
  BY <1>1, <1>2, <1>3, <1>5, SessionStep
<1>6. CASE beat' = [beat EXCEPT ![c] = "ended"] /\ session' = [session EXCEPT ![c] = lost]
  BY <1>1, <1>2, <1>3, <1>6, SessionStep
<1> QED
  BY <1>4, <1>5, <1>6

-----------------------------------------------------------------------------
(* The store and the world. *)

\* A claim is a new one, and has the row alone.
LEMMA ClaimStep == ASSUME IInv, NEW c \in Claims, Claim(c) PROVE IInv'
<1>1. /\ c = epoch + 1 /\ row.status \in {"pending", "processing"} /\ epoch' = c
      /\ row' = [row EXCEPT !.status = "processing", !.claim = c, !.leased = TRUE]
      /\ session' = [session EXCEPT ![c] = NewSession]
      /\ UNCHANGED <<gate, beat, effects, commits, faults>>
  BY DEF Claim, Set
<1>2. row \in Row /\ epoch \in 0..MaxClaims /\ c \in 1..MaxClaims /\ effects \in 0..MaxClaims
  BY Bounds DEF IInv, TypeOK
<1>3. /\ row'.status = "processing" /\ row'.claim = c /\ row'.last = row.last
      /\ row'.attempts = row.attempts /\ row' \in Row
  <2>1. c \in 0..MaxClaims
    BY <1>2
  <2> QED
    BY <1>1, <1>2, <2>1 DEF Row
<1>4. NewSession \in Session
  <2>1. 0 \in 0..Tries
    BY Bounds
  <2> QED
    BY <2>1 DEF NewSession, Session, Outcomes, Finishing
<1>5. TypeOK'
  <2>1. session' \in [Claims -> Session]
    BY <1>1, <1>4 DEF IInv, TypeOK
  <2>2. epoch' \in 0..MaxClaims /\ c # 0
    BY <1>1, <1>2
  <2> QED
    BY <1>1, <1>3, <2>1, <2>2 DEF IInv, TypeOK
<1>6. RowInv'
  BY <1>1, <1>2, <1>3 DEF IInv, RowInv
<1>7. commits[c] = 0
  BY <1>1, <1>2 DEF IInv, CommitInv
<1>8. CommitInv'
  <2>1. SUFFICES ASSUME NEW d \in Claims
                 PROVE  /\ d > c => session'[d].pc = "none" /\ commits[d] = 0
                        /\ commits[d] \in {0, 1}
                        /\ c = d => commits[d] = 0
                        /\ row.last.claim = d => commits[d] = 1
    BY <1>1, <1>3 DEF CommitInv
  <2>2. /\ d > epoch => session[d].pc = "none" /\ commits[d] = 0
        /\ commits[d] \in {0, 1}
        /\ row.last.claim = d => commits[d] = 1
    BY DEF IInv, CommitInv
  <2>3. d \in 1..MaxClaims /\ (d # c => session'[d] = session[d])
    BY <1>1, Bounds DEF IInv, TypeOK
  <2> QED
    BY <1>1, <1>2, <1>7, <2>2, <2>3
<1>9. SessionInv'
  <2>1. SUFFICES ASSUME NEW d \in Claims PROVE Sound(d, session[d], beat[d])'
    BY DEF SessionInv
  <2>2. Sound(d, session[d], beat[d])
    BY DEF IInv, SessionInv
  <2>3. session'[d] = IF d = c THEN NewSession ELSE session[d]
    BY <1>1 DEF IInv, TypeOK
  <2>4. Sound(d, session'[d], beat[d])
    BY <2>2, <2>3 DEF Sound, NewSession
  <2> QED
    BY <1>1, <2>4 DEF Sound
<1> QED
  BY <1>5, <1>6, <1>8, <1>9 DEF IInv

LEMMA LapseStep == ASSUME IInv, Lapse PROVE IInv'
<1>1. /\ row' = [row EXCEPT !.leased = FALSE]
      /\ UNCHANGED <<epoch, session, gate, beat, effects, commits>>
      /\ Hurt \/ UNCHANGED faults
  BY DEF Lapse
<1>2. /\ row' \in Row /\ row'.status = row.status /\ row'.claim = row.claim
      /\ ~ row'.leased /\ row'.attempts = row.attempts /\ row'.last = row.last
  BY <1>1 DEF IInv, TypeOK, Row
<1>3. faults' \in 0..MaxFaults
  BY <1>1, HurtIsBounded DEF IInv, TypeOK
<1>4. TypeOK'
  BY <1>1, <1>2, <1>3 DEF IInv, TypeOK
<1>5. RowInv' /\ CommitInv'
  BY <1>1, <1>2 DEF IInv, RowInv, CommitInv
<1>6. SessionInv'
  BY <1>1 DEF IInv, SessionInv, Sound
<1> QED
  BY <1>4, <1>5, <1>6 DEF IInv

\* After a crash no session runs, and nobody has the row.
LEMMA CrashStep == ASSUME IInv, Crash PROVE IInv'
<1> DEFINE gone == [NewSession EXCEPT !.pc = "end", !.lost = TRUE]
<1>1. /\ Hurt /\ UNCHANGED <<epoch, effects, commits>>
      /\ session' = [c \in Claims |-> IF At(c, "none") THEN session[c] ELSE gone]
      /\ beat' = [c \in Claims |-> IF At(c, "none") THEN "none" ELSE "ended"]
      /\ gate' = [c \in Claims |-> "free"]
      /\ \/ /\ row.status = "processing"
            /\ row' = [row EXCEPT !.status = "pending", !.claim = 0, !.leased = FALSE]
         \/ row.status # "processing" /\ row' = row
  BY DEF Crash
<1>2. gone \in Session /\ gone.pc = "end" /\ gone.told = "nothing" /\ ~ gone.closed
  <2>1. 0 \in 0..Tries
    BY Bounds
  <2> QED
    BY <2>1 DEF NewSession, Session, Outcomes, Finishing
<1>3. /\ row' \in Row /\ row'.status # "processing" /\ row'.claim = 0 /\ ~ row'.leased
      /\ row'.attempts = row.attempts /\ row'.last = row.last
      /\ row'.status = "pending" => row.status \in {"pending", "processing"}
  <2>1. row \in Row /\ 0 \in 0..MaxClaims
    BY Bounds DEF IInv, TypeOK
  <2>2. CASE row.status = "processing"
    BY <1>1, <2>1, <2>2 DEF Row
  <2>3. CASE row.status # "processing"
    BY <1>1, <2>1, <2>3 DEF Row, IInv, TypeOK, RowInv
  <2> QED
    BY <2>2, <2>3
<1> HIDE DEF gone
<1>4. TypeOK'
  <2>1. session' \in [Claims -> Session] /\ faults' \in 0..MaxFaults
    BY <1>1, <1>2, HurtIsBounded DEF IInv, TypeOK
  <2>2. beat' \in [Claims -> {"none", "wait", "gate", "renew", "ended"}]
        /\ gate' \in [Claims -> {"free", "worker", "beat"}]
    BY <1>1
  <2> QED
    BY <1>1, <1>3, <2>1, <2>2 DEF IInv, TypeOK
<1>5. RowInv'
  BY <1>1, <1>3 DEF IInv, RowInv
<1>6. CommitInv'
  <2>1. \A c \in Claims : c # 0 /\ (session[c].pc = "none" => session'[c].pc = "none")
    BY <1>1, Bounds DEF At
  <2> QED
    BY <1>1, <1>3, <2>1 DEF IInv, CommitInv
<1>7. SessionInv'
  <2>1. SUFFICES ASSUME NEW c \in Claims PROVE Sound(c, session[c], beat[c])'
    BY DEF SessionInv
  <2>2. session[c] \in Session /\ Sound(c, session[c], beat[c])
    BY OneSession
  <2>3. Sound(c, session'[c], beat'[c])
    BY <1>1, <1>2, <2>2 DEF Sound, At
  <2> QED
    BY <1>1, <2>3 DEF Sound
<1> QED
  BY <1>4, <1>5, <1>6, <1>7 DEF IInv

-----------------------------------------------------------------------------
(* The invariant and what follows from it. *)

LEMMA InitInv == ASSUME Init PROVE IInv
<1> DEFINE none == [NewSession EXCEPT !.pc = "none"]
<1>1. none \in Session /\ none.pc = "none" /\ none.told = "nothing" /\ ~ none.closed
  <2>1. 0 \in 0..Tries
    BY Bounds
  <2> QED
    BY <2>1 DEF NewSession, Session, Outcomes, Finishing
<1>2. /\ row.status = "pending" /\ row.claim = 0 /\ ~ row.leased /\ row.attempts = 0
      /\ row.last.claim = 0 /\ row \in Row
  <2>1. 0 \in 0..MaxClaims /\ 0 \in 0..MaxAttempts
    BY Bounds
  <2> QED
    BY <2>1 DEF Init, Row, Finish
<1>3. /\ epoch = 0 /\ session = [c \in Claims |-> none] /\ gate = [c \in Claims |-> "free"]
      /\ beat = [c \in Claims |-> "none"] /\ effects = 0 /\ commits = [c \in Claims |-> 0]
      /\ faults = 0
  BY DEF Init
<1> HIDE DEF none
<1>4. TypeOK
  <2>1. 0 \in 0..MaxClaims /\ 0 \in 0..Tries /\ 0 \in 0..MaxFaults
    BY Bounds
  <2> QED
    BY <1>1, <1>2, <1>3, <2>1 DEF TypeOK
<1>5. RowInv
  BY <1>2, <1>3, Bounds DEF RowInv
<1>6. CommitInv
  BY <1>1, <1>2, <1>3, Bounds DEF CommitInv
<1>7. SessionInv
  BY <1>1, <1>3 DEF SessionInv, Sound
<1> QED
  BY <1>4, <1>5, <1>6, <1>7 DEF IInv

LEMMA UnchangedInv == ASSUME IInv, UNCHANGED vars PROVE IInv'
<1>1. UNCHANGED <<row, epoch, session, gate, beat, effects, commits, faults>>
  BY DEF vars
<1>2. TypeOK'
  BY <1>1 DEF IInv, TypeOK
<1>3. RowInv' /\ CommitInv' /\ SessionInv'
  BY <1>1 DEF IInv, RowInv, CommitInv, SessionInv, Sound
<1> QED
  BY <1>2, <1>3 DEF IInv

LEMMA NextInv == ASSUME IInv, [Next \/ Rests]_vars PROVE IInv'
<1>1. ASSUME NEW c \in Claims, Claim(c) \/ BeforeProvider(c) \/ Late(c) PROVE IInv'
  BY <1>1, ClaimStep, BeforeProviderStep, LateStep
<1>2. ASSUME NEW c \in Claims, Work(c) PROVE IInv'
  BY <1>2, StartStep, EnterFenceStep, FencedWriteStep, BeginFinishStep, FinishTakesGateStep,
     FinishWritesStep, FinishConfirmsStep, FinishClosesStep, CloseStep DEF Work
<1>3. ASSUME NEW c \in Claims, Heartbeat(c) PROVE IInv'
  BY <1>3, WakeStep, TakesGateStep, PulseStep DEF Heartbeat
<1>4. CASE Lapse \/ Crash
  BY <1>4, LapseStep, CrashStep
<1>5. CASE Rests \/ UNCHANGED vars
  BY <1>5, UnchangedInv DEF Rests
<1> QED
  BY <1>1, <1>2, <1>3, <1>4, <1>5 DEF Next

\* What a session tells is true: a finish that stands was committed by this
\* claim and once, whoever may still call out has a heartbeat or knows that the
\* claim is lost, and a session that was closed well leaves no thread behind.
THEOREM LeaseIsHonest == Spec => [](TypeOK /\ LeaseIsTrue)
<1>1. IInv => TypeOK /\ LeaseIsTrue
  <2>1. ASSUME IInv PROVE FinishIsTrue
    BY <2>1 DEF IInv, CommitInv, SessionInv, Sound, FinishIsTrue
  <2>2. ASSUME IInv PROVE WorkIsCovered
    BY <2>2 DEF IInv, SessionInv, Sound, WorkIsCovered
  <2>3. ASSUME IInv PROVE ClosedIsQuiet
    BY <2>3 DEF IInv, SessionInv, Sound, ClosedIsQuiet
  <2> QED
    BY <2>1, <2>2, <2>3 DEF IInv, LeaseIsTrue
<1>2. Init => IInv
  BY InitInv
<1>3. IInv /\ [Next \/ Rests]_vars => IInv'
  BY NextInv
<1> QED
  BY <1>1, <1>2, <1>3, PTL DEF Spec

\* What one step may do to the row: it is finished by its owner, or it was not
\* terminal.
LEMMA TerminalRowStays ==
  ASSUME IInv, [Next \/ Rests]_vars, row.status \in {"done", "dead"}
  PROVE  UNCHANGED <<row.status, row.last>>
<1>1. ~ row.leased /\ row.status # "processing"
  BY DEF IInv, RowInv
<1>2. CASE row' = row
  BY <1>2
<1>3. ASSUME NEW c \in Claims, Claim(c) PROVE FALSE
  BY <1>1, <1>3 DEF Claim
<1>4. ASSUME NEW c \in Claims, FinishWrites(c) PROVE row' = row
  <2>1. ~ Owns(c)
    BY <1>1 DEF Owns
  <2>2. FinishedRow(c, session[c].outcome) = row
    BY <2>1 DEF FinishedRow
  <2> QED
    BY <1>4, <2>2 DEF FinishWrites
<1>5. CASE Lapse \/ Crash
  BY <1>1, <1>5 DEF Lapse, Crash
<1>6. ASSUME NEW c \in Claims, Work(c) PROVE row' = row
  BY <1>4, <1>6 DEF Work, Start, EnterFence, FencedWrite, BeginFinish, FinishTakesGate,
     FinishConfirms, FinishCloses, Close
<1>7. ASSUME NEW c \in Claims, BeforeProvider(c) \/ Late(c) \/ Heartbeat(c) PROVE row' = row
  BY <1>7 DEF BeforeProvider, Late, Heartbeat, Wake, TakesGate, Pulse
<1>8. CASE Rests \/ UNCHANGED vars
  BY <1>8 DEF Rests, vars
<1> QED
  BY <1>2, <1>3, <1>5, <1>6, <1>7, <1>8 DEF Next

\* Only the fenced write writes, and it is the last claim's.
LEMMA EffectsGrow == ASSUME IInv, [Next \/ Rests]_vars PROVE effects' >= effects
<1>1. effects \in Int
  BY Bounds DEF IInv, TypeOK
<1>2. ASSUME NEW c \in Claims, FencedWrite(c) PROVE effects' >= effects
  BY SMTT(30), <1>2, FencedWriteStep
<1>3. ASSUME NEW c \in Claims, Work(c), ~ FencedWrite(c) PROVE effects' = effects
  BY <1>3 DEF Work, Start, EnterFence, BeginFinish, FinishTakesGate, FinishWrites,
     FinishConfirms, FinishCloses, Close
<1>4. ASSUME NEW c \in Claims, Claim(c) \/ BeforeProvider(c) \/ Late(c) \/ Heartbeat(c)
      PROVE  effects' = effects
  BY <1>4 DEF Claim, BeforeProvider, Late, Heartbeat, Wake, TakesGate, Pulse
<1>5. ASSUME Lapse \/ Crash \/ Rests \/ UNCHANGED vars PROVE effects' = effects
  BY <1>5 DEF Lapse, Crash, Rests, vars
<1>6. effects' = effects => effects' >= effects
  BY <1>1
<1> QED
  BY <1>2, <1>3, <1>4, <1>5, <1>6 DEF Next

\* The fenced writes of a row's owners never run backwards, and a row that is
\* done or dead is never opened again.
THEOREM WritesAreInOrder == Spec => WritesFollowClaims
<1>1. IInv /\ [Next \/ Rests]_vars =>
        [/\ effects' >= effects
         /\ row.status \in {"done", "dead"} => UNCHANGED <<row.status, row.last>>]_vars
  BY EffectsGrow, TerminalRowStays
<1>2. Init => IInv
  BY InitInv
<1>3. IInv /\ [Next \/ Rests]_vars => IInv'
  BY NextInv
<1> QED
  BY <1>1, <1>2, <1>3, PTL DEF Spec, WritesFollowClaims

(***************************************************************************)
(* The Weixin bridge, for any number of chats, messages, chunks, workers,  *)
(* failures and faults.                                                    *)
(***************************************************************************)

\* A row that has left the queue for the first time.
Begun(r) ==
  landed[r] > 0 \/ outbox[r].status \in {"processing", "submitting", "recovery_required", "done"}

\* A message of which nothing more can be sent.
Closed(m) ==
  /\ inbox[m].status \in {"done", "dead"} /\ ~ OpenVideo(m)
  /\ \A r \in Rows : r[1] = m => ~ OpenRow(r)

Replied(m) == \A i \in 1..Chunks : outbox[<<m, "reply", i>>].status # "absent"
\* The worker is past the reply of its message, and the reply is in the outbox.
HasReplied(w) == worker[w].pc = "media" \/ (worker[w].pc = "finish" /\ worker[w].ok)
ReplyIsThere(w) == Replied(worker[w].msg)

Statuses == {"absent", "pending", "processing", "submitting", "recovery_required", "done", "dead"}
\* A row, whatever its rank.
DeliveryOf(R) ==
  [status: Statuses, text: Texts, rank: R, tries: Nat, live: BOOLEAN,
   flight: {"none", "out", "ok", "lost", "dns"}]
InboundOf == [status: {"none", "pending", "processing", "done", "dead"}, attempts: Nat,
              owner: Workers \cup {Nobody}]
VideoStates == {"none", "reserved", "pending", "done", "dead", "recovery_required"}

BridgeTypes ==
  /\ cursor \in 0..N /\ inbox \in [Msgs -> InboundOf] /\ video \in [Msgs -> VideoStates]
  /\ worker \in [Workers -> Worker] /\ outage \in BOOLEAN /\ outages \in Nat /\ prunes \in Nat

RowTypes == (\E R : outbox \in [Rows -> DeliveryOf(R)]) /\ landed \in [Rows -> Nat]

StoredInv ==
  /\ \A m \in Msgs : m <= cursor <=> inbox[m].status # "none"
  /\ \A r \in Rows : outbox[r].status # "absent" => r[1] <= cursor
  /\ \A w \in Workers : worker[w].pc # "idle" => worker[w].msg \in 1..cursor

FlightInv ==
  \A r \in Rows :
    /\ outbox[r].flight = "out" => outbox[r].status \in {"submitting", "recovery_required"}
    /\ outbox[r].status = "submitting" => outbox[r].flight # "none"

OnceInv ==
  prunes = 0 =>
    \A r \in Rows :
      /\ landed[r] <= 1
      /\ outbox[r].status \in {"absent", "pending", "processing"} => landed[r] = 0
      /\ outbox[r].flight \in {"out", "dns"} => landed[r] = 0

BehindInv == \A q \in Rows : Begun(q) => \A n \in Earlier(q[1]) : Closed(n)

ChunkInv ==
  prunes = 0 =>
    \A q \in Rows : Begun(q) => \A p \in Group(q) : p[3] < q[3] => outbox[p].status = "done"

TextInv ==
  outages = 0 =>
    /\ ~ outage
    /\ \A w \in Workers : worker[w].pc \in {"settle", "reply"} \/ HasReplied(w) => worker[w].text = "answer"
    /\ \A r \in Rows : r[2] = "reply" /\ outbox[r].status # "absent" => outbox[r].text = "answer"

ReplyInv ==
  prunes = 0 =>
    /\ \A w \in Workers : HasReplied(w) => ReplyIsThere(w)
    /\ \A m \in Msgs : inbox[m].status = "done" => Replied(m)

RowsInv == RowTypes /\ FlightInv /\ OnceInv
BridgeIInv ==
  BridgeTypes /\ RowsInv /\ StoredInv /\ BehindInv /\ ChunkInv /\ TextInv /\ ReplyInv

-----------------------------------------------------------------------------
\* What a step may do to a row.
Moves(q) ==
  /\ ~ OpenRow(q) /\ inbox[q[1]].status # "processing" => ~ OpenRow(q)'
  /\ Begun(q)' => Begun(q) \/ (MayBeSent(q) /\ outbox[q].status = "pending")
  /\ prunes' = 0 /\ outbox[q].status = "done" => outbox'[q].status = "done"
  /\ prunes' = 0 /\ outbox[q].status # "absent" => outbox'[q].status # "absent"
  /\ outbox[q].status # "absent" /\ outbox'[q].status # "absent" => outbox'[q].text = outbox[q].text
  /\ landed'[q] > landed[q] => outbox[q].flight = "out"

RowsMove == RowsInv' /\ prunes' >= prunes /\ \A q \in Rows : Moves(q)

LEMMA RowParts ==
  ASSUME NEW q \in Rows
  PROVE  q[1] \in Msgs /\ q[2] \in Kinds /\ q[3] \in 1..Chunks /\ q = <<q[1], q[2], q[3]>>
BY DEF Rows

LEMMA SizeOfChat == N \in Nat /\ Msgs \subseteq Nat
BY BridgeAssumption DEF N, Msgs

LEMMA EarlierIsLess ==
  ASSUME NEW q \in Rows, NEW n \in Earlier(q[1])
  PROVE  n \in Msgs /\ n < q[1] /\ n # q[1]
BY RowParts, SizeOfChat DEF Earlier, Msgs

\* A message that is closed has been stored before.
LEMMA ClosedBefore ==
  ASSUME BridgeTypes, StoredInv, NEW q \in Rows, outbox[q].status = "pending", MayBeSent(q),
         NEW n \in Earlier(q[1])
  PROVE  Closed(n)
<1>1. n \in Msgs /\ n < q[1] /\ q[1] <= cursor /\ q[1] \in Msgs
  BY RowParts, EarlierIsLess DEF StoredInv
<1>2. inbox[n].status \in {"done", "dead"}
  <2>1. inbox[n].status # "none"
    <3>1. n \in Nat /\ q[1] \in Nat /\ cursor \in Nat
      BY <1>1, SizeOfChat DEF BridgeTypes, Msgs
    <3>2. n <= cursor
      BY <1>1, <3>1
    <3> QED
      BY <1>1, <3>2 DEF StoredInv
  <2>2. inbox[n] \in InboundOf
    BY <1>1 DEF BridgeTypes
  <2>3. ~ OpenInbound(n)
    BY DEF MayBeSent, EarlierWork
  <2> QED
    BY <2>1, <2>2, <2>3 DEF InboundOf, OpenInbound
<1>3. ~ OpenVideo(n)
  BY DEF MayBeSent, EarlierVideo
<1>4. \A r \in Rows : r[1] = n => ~ OpenRow(r)
  BY DEF MayBeSent, EarlierRows
<1> QED
  BY <1>2, <1>3, <1>4 DEF Closed

\* The order of the rows is kept by every step that moves rows as it may, and
\* opens nothing of a message that is done or dead.
LEMMA OrderStep ==
  ASSUME BridgeTypes, StoredInv, BehindInv, ChunkInv, RowsMove, prunes \in Nat, prunes' \in Nat,
         \A m \in Msgs : inbox[m].status \in {"done", "dead"} =>
           inbox'[m].status = inbox[m].status /\ (OpenVideo(m)' => OpenVideo(m))
  PROVE  BehindInv' /\ ChunkInv'
<1>1. ASSUME NEW m \in Msgs, Closed(m) PROVE Closed(m)'
  <2>1. \A r \in Rows : r[1] = m => ~ OpenRow(r)'
    BY <1>1 DEF Closed, RowsMove, Moves
  <2> QED
    BY <1>1, <2>1 DEF Closed
<1>2. ASSUME NEW q \in Rows, Begun(q)', NEW n \in Earlier(q[1]) PROVE Closed(n)'
  <2>1. n \in Msgs
    BY EarlierIsLess
  <2>2. Closed(n)
    BY <1>2, ClosedBefore DEF BehindInv, RowsMove, Moves
  <2> QED
    BY <1>1, <2>1, <2>2
<1>3. ASSUME prunes' = 0, NEW q \in Rows, Begun(q)', NEW p \in Group(q), p[3] < q[3]
      PROVE  outbox'[p].status = "done"
  <2>1. prunes = 0
    BY <1>3 DEF RowsMove
  <2>2. outbox[p].status = "done"
    BY <1>3, <2>1 DEF ChunkInv, RowsMove, Moves, MayBeSent
  <2>3. p \in Rows
    BY DEF Group
  <2> QED
    BY <1>3, <2>2, <2>3 DEF RowsMove, Moves
<1>4. BehindInv'
  <2>1. \A q : Earlier(q[1])' = Earlier(q[1])
    BY DEF Earlier, SameChat
  <2> QED
    BY <1>2, <2>1 DEF BehindInv
<1>5. ChunkInv'
  <2>1. \A q : Group(q)' = Group(q)
    BY DEF Group, Rows, Msgs, N
  <2> QED
    BY <1>3, <2>1 DEF ChunkInv
<1> QED
  BY <1>4, <1>5

\* Steps that leave the rows alone.
LEMMA RowsStay == ASSUME BridgeIInv, UNCHANGED <<outbox, landed, prunes>> PROVE RowsMove
<1>1. RowsInv'
  BY DEF BridgeIInv, RowsInv, RowTypes, FlightInv, OnceInv
<1>2. \A q \in Rows : Moves(q)
  <2> SUFFICES ASSUME NEW q \in Rows PROVE Moves(q)
    OBVIOUS
  <2>1. landed[q] \in Nat
    BY DEF BridgeIInv, RowsInv, RowTypes
  <2> QED
    BY <2>1 DEF Moves, OpenRow, Begun
<1> QED
  BY <1>1, <1>2 DEF RowsMove, BridgeIInv, BridgeTypes

\* What a step does to a message, to a worker, and which rows it adds.
MessageMoves(m) ==
  /\ m <= cursor' <=> inbox'[m].status # "none"
  /\ inbox[m].status \in {"done", "dead"} =>
       inbox'[m].status = inbox[m].status /\ (OpenVideo(m)' => OpenVideo(m))
  /\ inbox'[m].status = "done" => inbox[m].status = "done" \/ (prunes' = 0 => Replied(m)')

WorkerMoves(w) ==
  \/ worker'[w] = worker[w]
  \/ worker'[w].pc = "idle"
  \/ /\ worker'[w].msg \in 1..cursor'
     /\ outages' = 0 /\ (worker'[w].pc \in {"settle", "reply"} \/ HasReplied(w)') =>
          worker'[w].text = "answer"
     /\ prunes' = 0 /\ HasReplied(w)' => ReplyIsThere(w)'

Adds(q) ==
  outbox[q].status = "absent" /\ outbox'[q].status # "absent" =>
    /\ q[1] <= cursor'
    /\ outages' = 0 /\ q[2] = "reply" => outbox'[q].text = "answer"

LEMMA StepKeeps ==
  ASSUME BridgeIInv, BridgeTypes', RowsMove, cursor <= cursor',
         outages' = 0 => outages = 0 /\ ~ outage',
         \A m \in Msgs : MessageMoves(m),
         \A w \in Workers : WorkerMoves(w),
         \A q \in Rows : Adds(q)
  PROVE  BridgeIInv'
<1>n. prunes \in Nat /\ prunes' \in Nat /\ cursor \in Nat /\ cursor' \in Nat /\ (prunes' = 0 => prunes = 0)
  BY SizeOfChat DEF BridgeIInv, BridgeTypes, RowsMove
<1>1. BehindInv' /\ ChunkInv'
  BY <1>n, OrderStep DEF BridgeIInv, MessageMoves
<1>2. StoredInv'
  <2>1. \A m \in Msgs : m <= cursor' <=> inbox'[m].status # "none"
    BY DEF MessageMoves
  <2>2. ASSUME NEW r \in Rows, outbox'[r].status # "absent" PROVE r[1] <= cursor'
    <3>1. r[1] \in Nat
      BY RowParts, SizeOfChat
    <3> QED
      BY <1>n, <2>2, <3>1 DEF Adds, BridgeIInv, StoredInv
  <2>3. ASSUME NEW w \in Workers, worker'[w].pc # "idle" PROVE worker'[w].msg \in 1..cursor'
    BY <1>n, <2>3 DEF WorkerMoves, BridgeIInv, StoredInv
  <2> QED
    BY <2>1, <2>2, <2>3 DEF StoredInv
<1>3. TextInv'
  <2> SUFFICES ASSUME outages' = 0 PROVE
          /\ ~ outage'
          /\ \A w \in Workers : worker'[w].pc \in {"settle", "reply"} \/ HasReplied(w)' => worker'[w].text = "answer"
          /\ \A r \in Rows : r[2] = "reply" /\ outbox'[r].status # "absent" => outbox'[r].text = "answer"
    BY DEF TextInv
  <2>1. TextInv /\ outages = 0 /\ ~ outage'
    BY DEF BridgeIInv
  <2>2. ASSUME NEW w \in Workers, worker'[w].pc \in {"settle", "reply"} \/ HasReplied(w)'
        PROVE  worker'[w].text = "answer"
    BY <2>1, <2>2 DEF WorkerMoves, TextInv, HasReplied
  <2>3. ASSUME NEW r \in Rows, r[2] = "reply", outbox'[r].status # "absent"
        PROVE  outbox'[r].text = "answer"
    BY <2>1, <2>3 DEF Adds, TextInv, RowsMove, Moves
  <2> QED
    BY <2>1, <2>2, <2>3
<1>4. ReplyInv'
  <2> SUFFICES ASSUME prunes' = 0
               PROVE  /\ \A w \in Workers : HasReplied(w)' => ReplyIsThere(w)'
                      /\ \A m \in Msgs : inbox'[m].status = "done" => Replied(m)'
    BY DEF ReplyInv
  <2>1. ReplyInv /\ prunes = 0
    BY <1>n DEF BridgeIInv
  <2>2. ASSUME NEW m \in Msgs, Replied(m) PROVE Replied(m)'
    <3> SUFFICES ASSUME NEW i \in 1..Chunks PROVE outbox'[<<m, "reply", i>>].status # "absent"
      BY DEF Replied
    <3>1. <<m, "reply", i>> \in Rows
      BY DEF Rows, Kinds
    <3> QED
      BY <2>2, <3>1 DEF Replied, RowsMove, Moves
  <2>3. ASSUME NEW w \in Workers, HasReplied(w)' PROVE ReplyIsThere(w)'
    <3>1. CASE worker'[w] = worker[w]
      <4>1. HasReplied(w)
        BY <2>3, <3>1 DEF HasReplied
      <4>2. worker[w].msg \in Msgs
        <5>1. worker[w].pc # "idle"
          BY <4>1 DEF HasReplied
        <5>2. worker[w].msg \in 1..cursor /\ cursor \in 0..N
          BY <5>1 DEF BridgeIInv, StoredInv, BridgeTypes
        <5> QED
          BY <5>2, SizeOfChat DEF Msgs
      <4>3. \A m \in Msgs : Replied(m) => Replied(m)'
        BY <2>2
      <4>4. Replied(worker[w].msg)
        BY <2>1, <4>1 DEF ReplyInv, ReplyIsThere
      <4> QED
        BY <3>1, <4>2, <4>3, <4>4 DEF Replied, ReplyIsThere
    <3> QED
      BY <2>3, <3>1 DEF WorkerMoves, HasReplied
  <2>4. ASSUME NEW m \in Msgs, inbox'[m].status = "done" PROVE Replied(m)'
    BY <2>1, <2>2, <2>4 DEF MessageMoves, ReplyInv
  <2> QED
    BY <2>3, <2>4
<1> QED
  BY <1>1, <1>2, <1>3, <1>4 DEF BridgeIInv, RowsMove

\* A group is added for a message that is being handled.
LEMMA EnqueueMoves ==
  ASSUME BridgeIInv, NEW m \in Msgs, NEW kind \in Kinds, NEW text \in Texts,
         inbox[m].status = "processing", m <= cursor, outbox' = Enqueued(m, kind, text),
         UNCHANGED <<landed, prunes>>
  PROVE  /\ RowsMove
         /\ \A q \in Rows : outbox[q].status = "absent" /\ outbox'[q].status # "absent" =>
              q[1] = m /\ q[2] = kind /\ outbox'[q].text = text
         /\ \A q \in Rows : q[1] = m /\ q[2] = kind => outbox'[q].status # "absent"
<1>1. PICK R : outbox \in [Rows -> DeliveryOf(R)]
  BY DEF BridgeIInv, RowsInv, RowTypes
<1> DEFINE top == Max(Ranks(m)) + 1
<1> DEFINE new == [Absent EXCEPT !.status = "pending", !.text = text, !.rank = top]
<1>2. /\ new \in DeliveryOf(R \cup {top}) /\ new.status = "pending" /\ new.text = text
      /\ new.flight = "none"
  BY DEF Absent, DeliveryOf, Statuses
<1>3. \A d \in DeliveryOf(R) : d \in DeliveryOf(R \cup {top})
  BY DEF DeliveryOf
<1>4. \A q \in Rows : outbox'[q] = IF q[1] = m /\ q[2] = kind /\ outbox[q].status = "absent"
                                  THEN new ELSE outbox[q]
  BY DEF Enqueued
<1>5. outbox' = [q \in Rows |-> outbox'[q]]
  BY DEF Enqueued
<1> HIDE DEF new, top
<1>6. outbox' \in [Rows -> DeliveryOf(R \cup {top})]
  BY <1>1, <1>2, <1>3, <1>4, <1>5
<1>7. RowTypes'
  BY <1>6 DEF RowTypes, BridgeIInv, RowsInv
<1>8. FlightInv' /\ OnceInv'
  BY <1>2, <1>4 DEF FlightInv, OnceInv, BridgeIInv, RowsInv
<1>9. ASSUME NEW q \in Rows PROVE Moves(q)
  <2>1. landed[q] \in Nat
    BY DEF BridgeIInv, RowsInv, RowTypes
  <2> QED
    BY <1>2, <1>4, <2>1 DEF Moves, OpenRow, Begun
<1>10. prunes' >= prunes
  BY DEF BridgeIInv, BridgeTypes
<1> QED
  BY <1>2, <1>4, <1>7, <1>8, <1>9, <1>10 DEF RowsMove, RowsInv

\* One row is changed as the drain may change it.
LEMMA RowMoves ==
  ASSUME BridgeIInv, NEW r \in Rows, NEW d, outbox' = [outbox EXCEPT ![r] = d],
         landed' = landed \/ (landed' = [landed EXCEPT ![r] = @ + 1] /\ outbox[r].flight = "out"),
         UNCHANGED prunes,
         \A R : outbox[r] \in DeliveryOf(R) => d \in DeliveryOf(R),
         outbox[r].status \in {"pending", "processing", "submitting", "recovery_required"},
         d.status # "absent", d.text = outbox[r].text,
         outbox[r].status = "pending" => MayBeSent(r),
         d.flight = "out" => outbox'[r].status \in {"submitting", "recovery_required"},
         d.status = "submitting" => d.flight # "none",
         prunes = 0 => /\ d.status \in {"pending", "processing"} \/ d.flight \in {"out", "dns"} =>
                            landed'[r] = 0
                       /\ landed'[r] <= 1
  PROVE  RowsMove /\ \A q \in Rows : outbox[q].status = "absent" => outbox'[q].status = "absent"
<1>1. PICK R : outbox \in [Rows -> DeliveryOf(R)]
  BY DEF BridgeIInv, RowsInv, RowTypes
<1>2. outbox' \in [Rows -> DeliveryOf(R)] /\ outbox'[r] = d /\ \A q \in Rows \ {r} : outbox'[q] = outbox[q]
  BY <1>1
<1>3. landed \in [Rows -> Nat] /\ landed' \in [Rows -> Nat] /\ \A q \in Rows \ {r} : landed'[q] = landed[q]
  BY DEF BridgeIInv, RowsInv, RowTypes
<1>4. RowTypes'
  BY <1>2, <1>3 DEF RowTypes
<1>5. FlightInv' /\ OnceInv'
  BY <1>2, <1>3 DEF FlightInv, OnceInv, BridgeIInv, RowsInv
<1>6. ASSUME NEW q \in Rows PROVE Moves(q)
  <2>1. CASE q # r
    BY <1>2, <1>3, <2>1 DEF Moves, OpenRow, Begun
  <2>2. CASE q = r
    <3>1. OpenRow(r) /\ (outbox[r].status = "pending" \/ Begun(r))
      BY DEF OpenRow, Begun
    <3>2. landed'[r] > landed[r] => outbox[r].flight = "out"
      BY SMTT(30), <1>3
    <3> QED
      BY <1>2, <2>2, <3>1, <3>2 DEF Moves
  <2> QED
    BY <2>1, <2>2
<1>7. prunes' >= prunes
  BY DEF BridgeIInv, BridgeTypes
<1> QED
  BY <1>2, <1>4, <1>5, <1>6, <1>7 DEF RowsMove, RowsInv

LEMMA WorkerRecords ==
  /\ Idle \in Worker
  /\ \A m \in Msgs : [Idle EXCEPT !.pc = "reserve", !.msg = m] \in Worker
  /\ \A x \in Worker :
       /\ \A pc \in {"ask", "asked", "settle", "reply", "media", "finish"} : [x EXCEPT !.pc = pc] \in Worker
       /\ \A slot \in BOOLEAN : [x EXCEPT !.pc = "ask", !.slot = slot] \in Worker
       /\ \A text \in Texts : [x EXCEPT !.pc = "settle", !.text = text] \in Worker
       /\ [x EXCEPT !.pc = "finish", !.ok = FALSE] \in Worker
<1>1. Idle \in Worker
  BY SizeOfChat DEF Idle, Worker, Texts
<1>2. \A m \in Msgs : [Idle EXCEPT !.pc = "reserve", !.msg = m] \in Worker
  <2> SUFFICES ASSUME NEW m \in Msgs PROVE [Idle EXCEPT !.pc = "reserve", !.msg = m] \in Worker
    OBVIOUS
  <2>1. m \in 0..N
    BY SizeOfChat DEF Msgs
  <2> QED
    BY <2>1 DEF Idle, Worker, Texts
<1>3. ASSUME NEW x \in Worker
      PROVE  /\ \A pc \in {"ask", "asked", "settle", "reply", "media", "finish"} : [x EXCEPT !.pc = pc] \in Worker
             /\ \A text \in Texts : [x EXCEPT !.pc = "settle", !.text = text] \in Worker
             /\ [x EXCEPT !.pc = "finish", !.ok = FALSE] \in Worker
  BY DEF Worker
<1>4. ASSUME NEW x \in Worker, NEW slot \in BOOLEAN PROVE [x EXCEPT !.pc = "ask", !.slot = slot] \in Worker
  BY DEF Worker
<1> QED
  BY <1>1, <1>2, <1>3, <1>4

\* What a worker knows while it handles a message.
LEMMA WorkersMessage ==
  ASSUME BridgeIInv, NEW w \in Workers, worker[w].pc # "idle"
  PROVE  /\ worker[w] \in Worker /\ worker[w].msg \in Msgs /\ worker[w].msg \in 1..cursor
         /\ worker[w].msg <= cursor /\ cursor \in Nat
         /\ OwnsInbound(w) => inbox[worker[w].msg].status = "processing"
<1>1. worker[w].msg \in 1..cursor /\ cursor \in 0..N /\ worker[w] \in Worker
  BY DEF BridgeIInv, StoredInv, BridgeTypes
<1> QED
  BY <1>1, SizeOfChat DEF Msgs, OwnsInbound

LEMMA Same ==
  ASSUME BridgeIInv
  PROVE  /\ UNCHANGED outbox => \A q \in Rows : Adds(q)
         /\ UNCHANGED worker => \A w \in Workers : WorkerMoves(w)
         /\ UNCHANGED <<cursor, inbox, video>> => \A m \in Msgs : MessageMoves(m)
         /\ UNCHANGED <<cursor, inbox>> /\ (\A m \in Msgs : OpenVideo(m)' => OpenVideo(m)) =>
              \A m \in Msgs : MessageMoves(m)
         /\ UNCHANGED <<outage, outages>> => (outages' = 0 => outages = 0 /\ ~ outage')
         /\ UNCHANGED cursor => cursor <= cursor'
<1>1. cursor \in Nat
  BY SizeOfChat DEF BridgeIInv, BridgeTypes
<1>2. UNCHANGED outbox => \A q \in Rows : Adds(q)
  BY DEF Adds
<1>3. UNCHANGED worker => \A w \in Workers : WorkerMoves(w)
  BY DEF WorkerMoves
<1>4. UNCHANGED <<cursor, inbox>> /\ (\A m \in Msgs : OpenVideo(m)' => OpenVideo(m)) =>
        \A m \in Msgs : MessageMoves(m)
  BY DEF MessageMoves, BridgeIInv, StoredInv
<1>5. UNCHANGED <<cursor, inbox, video>> => \A m \in Msgs : MessageMoves(m)
  BY <1>4 DEF OpenVideo
<1>6. UNCHANGED <<outage, outages>> => (outages' = 0 => outages = 0 /\ ~ outage')
  BY DEF BridgeIInv, TextInv
<1> QED
  BY <1>1, <1>2, <1>3, <1>4, <1>5, <1>6

LEMMA ReceiveStep == ASSUME BridgeIInv, Receive PROVE BridgeIInv'
<1>1. PICK k \in (cursor + 1)..N :
        /\ inbox' = [m \in Msgs |-> IF m \in (cursor + 1)..k
                                    THEN [inbox[m] EXCEPT !.status = "pending"] ELSE inbox[m]]
        /\ cursor' = k
        /\ UNCHANGED <<outbox, video, worker, world, mishaps, bounds>>
  BY DEF Receive
<1>2. UNCHANGED <<outbox, video, worker, landed, outage, outages, prunes>>
  BY <1>1 DEF world, bounds
<1>3. cursor \in Nat /\ cursor' \in Nat /\ cursor <= cursor' /\ cursor' \in 0..N
  BY <1>1, SizeOfChat DEF BridgeIInv, BridgeTypes
<1>4. inbox \in [Msgs -> InboundOf] /\ inbox' \in [Msgs -> InboundOf]
  <2>1. \A x \in InboundOf : [x EXCEPT !.status = "pending"] \in InboundOf
    BY DEF InboundOf
  <2> QED
    BY <1>1, <2>1 DEF BridgeIInv, BridgeTypes
<1>5. BridgeTypes'
  BY <1>2, <1>3, <1>4 DEF BridgeIInv, BridgeTypes
<1>6. ASSUME NEW m \in Msgs PROVE MessageMoves(m)
  <2>1. m \in Nat /\ m >= 1
    BY SizeOfChat DEF Msgs
  <2>2. m <= cursor <=> inbox[m].status # "none"
    BY DEF BridgeIInv, StoredInv
  <2>3. CASE m \in (cursor + 1)..k
    <3>1. inbox'[m].status = "pending" /\ inbox[m].status = "none" /\ m <= cursor'
      BY <1>1, <1>3, <1>4, <2>1, <2>2, <2>3 DEF InboundOf
    <3> QED
      BY <3>1 DEF MessageMoves
  <2>4. CASE m \notin (cursor + 1)..k
    <3>1. inbox'[m] = inbox[m] /\ (m <= cursor' <=> m <= cursor)
      BY <1>1, <1>3, <2>1, <2>4
    <3> QED
      BY <1>2, <2>2, <3>1 DEF MessageMoves, OpenVideo
  <2> QED
    BY <2>3, <2>4
<1> QED
  BY <1>2, <1>3, <1>5, <1>6, RowsStay, Same, StepKeeps

LEMMA ClaimInboundStep ==
  ASSUME BridgeIInv, NEW w \in Workers, NEW m \in Msgs, ClaimInbound(w, m)
  PROVE  BridgeIInv'
<1> USE DEF ClaimInbound
<1>1. UNCHANGED <<cursor, outbox, video, landed, outage, outages, prunes>>
  BY DEF world, bounds
<1>2. m <= cursor /\ m \in 1..cursor /\ inbox[m].status \notin {"none", "done", "dead"}
  BY SizeOfChat DEF BridgeIInv, StoredInv, Msgs, BridgeTypes
<1>3. inbox \in [Msgs -> InboundOf] /\ inbox' \in [Msgs -> InboundOf]
  BY ZenonT(40) DEF BridgeIInv, BridgeTypes, InboundOf
<1>4. worker' \in [Workers -> Worker] /\ worker'[w].pc = "reserve" /\ worker'[w].msg = m
      /\ \A v \in Workers \ {w} : worker'[v] = worker[v]
  BY WorkerRecords DEF BridgeIInv, BridgeTypes, Idle
<1>5. BridgeTypes'
  BY <1>1, <1>3, <1>4 DEF BridgeIInv, BridgeTypes
<1>6. \A n \in Msgs : MessageMoves(n)
  BY <1>1, <1>2, <1>3 DEF MessageMoves, OpenVideo, BridgeIInv, StoredInv
<1>7. \A v \in Workers : WorkerMoves(v)
  BY <1>1, <1>2, <1>4 DEF WorkerMoves, HasReplied
<1> QED
  BY <1>1, <1>5, <1>6, <1>7, RowsStay, Same, StepKeeps

LEMMA LapseInboundStep == ASSUME BridgeIInv, NEW m \in Msgs, LapseInbound(m) PROVE BridgeIInv'
<1> USE DEF LapseInbound
<1>1. UNCHANGED <<cursor, outbox, video, worker, landed, outage, outages, prunes>>
  BY DEF world, bounds
<1>2. inbox' \in [Msgs -> InboundOf] /\ \A n \in Msgs : inbox'[n].status = inbox[n].status
  BY DEF BridgeIInv, BridgeTypes, InboundOf
<1>3. BridgeTypes'
  BY <1>1, <1>2 DEF BridgeIInv, BridgeTypes
<1>4. \A n \in Msgs : MessageMoves(n)
  BY <1>1, <1>2 DEF MessageMoves, OpenVideo, BridgeIInv, StoredInv
<1> QED
  BY <1>1, <1>3, <1>4, RowsStay, Same, StepKeeps

\* A worker goes on without a write, or gives up its message.
LEMMA WorkerGoes ==
  ASSUME BridgeIInv, NEW w \in Workers, worker[w].pc # "idle", NEW x \in Worker,
         worker' = [worker EXCEPT ![w] = x],
         UNCHANGED <<cursor, inbox, outbox, landed, outage, outages, prunes>>,
         video' \in [Msgs -> VideoStates],
         \A m \in Msgs : m # worker[w].msg \/ ~ OwnsInbound(w) => video'[m] = video[m],
         x.msg = worker[w].msg,
         outages = 0 => x.pc \notin {"settle", "reply", "media"} \/ x.text = "answer",
         x.pc # "media", x.pc = "finish" => ~ x.ok
  PROVE  BridgeIInv'
<1>1. BridgeTypes'
  BY DEF BridgeIInv, BridgeTypes
<1>2. ASSUME NEW m \in Msgs PROVE MessageMoves(m)
  <2>1. inbox[m].status \in {"done", "dead"} => video'[m] = video[m]
    BY DEF OwnsInbound
  <2> QED
    BY <2>1 DEF MessageMoves, OpenVideo, BridgeIInv, StoredInv
<1>3. ASSUME NEW v \in Workers PROVE WorkerMoves(v)
  <2>1. CASE v = w
    BY <2>1, WorkersMessage DEF WorkerMoves, HasReplied, BridgeIInv, BridgeTypes
  <2>2. CASE v # w
    BY <2>2 DEF WorkerMoves, BridgeIInv, BridgeTypes
  <2> QED
    BY <2>1, <2>2
<1> QED
  BY <1>1, <1>2, <1>3, RowsStay, Same, StepKeeps

\* The records of workers.
LEMMA GoneTo ==
  ASSUME NEW x \in Worker, NEW pc \in {"asked", "reply", "media", "finish"}
  PROVE  LET y == [x EXCEPT !.pc = pc] IN
         y \in Worker /\ y.pc = pc /\ y.msg = x.msg /\ y.text = x.text
BY DEF Worker

LEMMA Slotted ==
  ASSUME NEW x \in Worker, NEW has \in BOOLEAN
  PROVE  LET y == [x EXCEPT !.pc = "ask", !.slot = has] IN
         y \in Worker /\ y.pc = "ask" /\ y.msg = x.msg
BY DEF Worker

LEMMA Answered ==
  ASSUME NEW x \in Worker, NEW text \in Texts
  PROVE  LET y == [x EXCEPT !.pc = "settle", !.text = text] IN
         y \in Worker /\ y.pc = "settle" /\ y.msg = x.msg /\ y.text = text
BY DEF Worker

LEMMA Failed ==
  ASSUME NEW x \in Worker
  PROVE  LET y == [x EXCEPT !.pc = "finish", !.ok = FALSE] IN
         y \in Worker /\ y.pc = "finish" /\ y.msg = x.msg /\ y.ok = FALSE
BY DEF Worker

LEMMA FailStep == ASSUME BridgeIInv, NEW w \in Workers, Fail(w) PROVE BridgeIInv'
<1> DEFINE x == [worker[w] EXCEPT !.pc = "finish", !.ok = FALSE]
<1>1. worker[w] \in Worker /\ worker[w].pc # "idle"
  BY DEF Fail, BridgeIInv, BridgeTypes
<1>2. x \in Worker /\ x.msg = worker[w].msg /\ x.pc = "finish" /\ x.ok = FALSE
  BY <1>1, Failed
<1>3. worker' = [worker EXCEPT ![w] = x] /\ UNCHANGED <<cursor, inbox, outbox, video, landed, outage, outages, prunes>>
  BY <1>1 DEF Fail, Fails, rows, world, bounds, BridgeIInv, BridgeTypes
<1> HIDE DEF x
<1> QED
  BY <1>1, <1>2, <1>3, WorkerGoes DEF BridgeIInv, BridgeTypes

LEMMA ReserveVideoStep == ASSUME BridgeIInv, NEW w \in Workers, ReserveVideo(w) PROVE BridgeIInv'
<1>1. worker[w] \in Worker /\ worker[w].pc # "idle" /\ worker[w].msg \in Msgs
  BY WorkersMessage DEF ReserveVideo, WorkerAt
<1> DEFINE m == worker[w].msg
<1>2. PICK slot \in BOOLEAN : worker' = [worker EXCEPT ![w].pc = "ask", ![w].slot = slot]
  BY DEF ReserveVideo
<1> DEFINE x == [worker[w] EXCEPT !.pc = "ask", !.slot = slot]
<1>3. x \in Worker /\ x.msg = worker[w].msg /\ x.pc = "ask"
  BY <1>1, Slotted
<1>4. worker' = [worker EXCEPT ![w] = x]
  BY <1>1, <1>2 DEF BridgeIInv, BridgeTypes, Worker
<1>5. video' \in {video, [video EXCEPT ![m] = "reserved"]}
  BY DEF ReserveVideo
<1>6. video' \in [Msgs -> VideoStates] /\ \A n \in Msgs : n # m => video'[n] = video[n]
  BY <1>1, <1>5 DEF BridgeIInv, BridgeTypes, VideoStates
<1>7. UNCHANGED <<cursor, inbox, outbox, landed, outage, outages, prunes>> /\ OwnsInbound(w)
  BY DEF ReserveVideo, world, bounds
<1> HIDE DEF x
<1> QED
  BY <1>1, <1>3, <1>4, <1>6, <1>7, WorkerGoes

LEMMA AskStep == ASSUME BridgeIInv, NEW w \in Workers, Ask(w) PROVE BridgeIInv'
<1> DEFINE x == [worker[w] EXCEPT !.pc = "asked"]
<1>1. worker[w] \in Worker /\ worker[w].pc # "idle"
  BY DEF Ask, WorkerAt, BridgeIInv, BridgeTypes
<1>2. x \in Worker /\ x.msg = worker[w].msg /\ x.pc = "asked"
  BY <1>1, GoneTo
<1>3. worker' = [worker EXCEPT ![w] = x] /\ UNCHANGED <<cursor, inbox, outbox, video, landed, outage, outages, prunes>>
  BY <1>1 DEF Ask, Goes, rows, world, bounds, BridgeIInv, BridgeTypes
<1> HIDE DEF x
<1> QED
  BY <1>1, <1>2, <1>3, WorkerGoes DEF BridgeIInv, BridgeTypes

LEMMA AnswerStep == ASSUME BridgeIInv, NEW w \in Workers, Answer(w) PROVE BridgeIInv'
<1>1. worker[w] \in Worker /\ worker[w].pc # "idle"
  BY DEF Answer, WorkerAt, BridgeIInv, BridgeTypes
<1>2. UNCHANGED <<cursor, inbox, outbox, video, landed, outage, outages, prunes>>
  BY DEF Answer, rows, bounds
<1>3. PICK x \in Worker : /\ worker' = [worker EXCEPT ![w] = x] /\ x.msg = worker[w].msg
                          /\ \/ x.pc = "settle" /\ (outage \/ x.text = "answer")
                             \/ x.pc = "finish" /\ x.ok = FALSE
  <2>1. \A text \in Texts : LET x == [worker[w] EXCEPT !.pc = "settle", !.text = text] IN
          x \in Worker /\ x.msg = worker[w].msg /\ x.pc = "settle" /\ x.text = text
    BY <1>1, Answered
  <2>2. LET x == [worker[w] EXCEPT !.pc = "finish", !.ok = FALSE] IN
          x \in Worker /\ x.msg = worker[w].msg /\ x.pc = "finish" /\ x.ok = FALSE
    BY <1>1, Failed
  <2>3. CASE worker' = [worker EXCEPT ![w].pc = "settle", ![w].text = "answer"]
    BY <1>1, <2>1, <2>3 DEF Texts, BridgeIInv, BridgeTypes
  <2>4. CASE outage /\ worker' = [worker EXCEPT ![w].pc = "settle", ![w].text = "local"]
    BY <1>1, <2>1, <2>4 DEF Texts, BridgeIInv, BridgeTypes
  <2>5. CASE worker' = [worker EXCEPT ![w].pc = "finish", ![w].ok = FALSE]
    BY <1>1, <2>2, <2>5 DEF BridgeIInv, BridgeTypes
  <2> QED
    BY <2>3, <2>4, <2>5 DEF Answer, Fails
<1>4. outages = 0 => ~ outage
  BY DEF BridgeIInv, TextInv
<1> QED
  BY <1>1, <1>2, <1>3, <1>4, WorkerGoes DEF BridgeIInv, BridgeTypes

LEMMA SettleStep == ASSUME BridgeIInv, NEW w \in Workers, Settle(w) PROVE BridgeIInv'
<1> DEFINE x == [worker[w] EXCEPT !.pc = "reply"]
<1> DEFINE m == worker[w].msg
<1>1. worker[w] \in Worker /\ worker[w].pc = "settle" /\ m \in Msgs
  BY WorkersMessage DEF Settle, WorkerAt
<1>2. x \in Worker /\ x.msg = worker[w].msg /\ x.pc = "reply" /\ x.text = worker[w].text
  BY <1>1, GoneTo
<1>3. worker' = [worker EXCEPT ![w] = x] /\ UNCHANGED <<cursor, inbox, outbox, landed, outage, outages, prunes>>
      /\ OwnsInbound(w)
  BY <1>1 DEF Settle, Goes, world, bounds, BridgeIInv, BridgeTypes
<1>4. video' \in {video} \cup {[video EXCEPT ![m] = s] : s \in {"pending", "none"}}
  BY DEF Settle
<1>5. video' \in [Msgs -> VideoStates] /\ \A n \in Msgs : n # m => video'[n] = video[n]
  BY <1>1, <1>4 DEF BridgeIInv, BridgeTypes, VideoStates
<1>6. outages = 0 => worker[w].text = "answer"
  BY <1>1 DEF BridgeIInv, TextInv
<1> HIDE DEF x
<1> QED
  BY <1>1, <1>2, <1>3, <1>5, <1>6, WorkerGoes

\* What becomes of a worker that adds rows.
GoesOn(w, m, x) ==
  \/ x = worker[w]
  \/ x = Idle
  \/ /\ x.msg = m /\ x.pc \in {"media", "finish"}
     /\ outages = 0 /\ (x.pc = "finish" => x.ok) => x.text = "answer"
     /\ prunes = 0 /\ (x.pc = "finish" => x.ok) => Replied(m)'

\* A worker adds rows for its message, goes on or not, and closes it or not.
LEMMA WorkerAdds ==
  ASSUME BridgeIInv, NEW w \in Workers, worker[w].pc # "idle", OwnsInbound(w),
         NEW mine, mine = worker[w].msg,
         RowsMove, NEW x \in Worker, worker' = [worker EXCEPT ![w] = x],
         UNCHANGED <<cursor, video, outage, outages, prunes>>,
         inbox' \in [Msgs -> InboundOf],
         \A m \in Msgs : m # mine => inbox'[m].status = inbox[m].status,
         inbox'[mine].status # "none",
         inbox'[mine].status = "done" => HasReplied(w),
         \A q \in Rows : outbox[q].status = "absent" /\ outbox'[q].status # "absent" =>
           q[1] = mine /\ (outages = 0 /\ q[2] = "reply" => outbox'[q].text = "answer"),
         GoesOn(w, mine, x)
  PROVE  BridgeIInv'
<1>0. /\ mine \in Msgs /\ mine \in 1..cursor /\ mine <= cursor /\ inbox[mine].status = "processing"
  BY WorkersMessage
<1>1. BridgeTypes'
  BY DEF BridgeIInv, BridgeTypes
<1>2. ASSUME NEW m \in Msgs PROVE MessageMoves(m)
  <2>1. CASE m # mine
    BY <2>1 DEF MessageMoves, OpenVideo, BridgeIInv, StoredInv
  <2>2. CASE m = mine
    <3>1. HasReplied(w) /\ prunes' = 0 => Replied(mine)'
      <4>1. ASSUME HasReplied(w), prunes' = 0, NEW i \in 1..Chunks
            PROVE  outbox'[<<mine, "reply", i>>].status # "absent"
        <5>1. <<mine, "reply", i>> \in Rows
          BY <1>0 DEF Rows, Kinds
        <5>2. outbox[<<mine, "reply", i>>].status # "absent"
          BY <4>1 DEF BridgeIInv, ReplyInv, ReplyIsThere, Replied
        <5> QED
          BY <4>1, <5>1, <5>2 DEF RowsMove, Moves
      <4> QED
        BY <4>1 DEF Replied
    <3> QED
      BY <1>0, <2>2, <3>1 DEF MessageMoves, OpenVideo
  <2> QED
    BY <2>1, <2>2
<1>3. ASSUME NEW v \in Workers PROVE WorkerMoves(v)
  <2>1. CASE v = w
    <3>1. worker'[w] = x
      BY DEF BridgeIInv, BridgeTypes
    <3>2. x.msg = mine /\ Replied(mine)' => ReplyIsThere(w)'
      BY <3>1 DEF ReplyIsThere, Replied
    <3> QED
      BY <1>0, <2>1, <3>1, <3>2 DEF GoesOn, WorkerMoves, HasReplied, Idle
  <2>2. CASE v # w
    BY <2>2 DEF WorkerMoves, BridgeIInv, BridgeTypes
  <2> QED
    BY <2>1, <2>2
<1>4. \A q \in Rows : Adds(q)
  BY <1>0 DEF Adds
<1> QED
  BY <1>1, <1>2, <1>3, <1>4, Same, StepKeeps

LEMMA ProgressStep == ASSUME BridgeIInv, NEW w \in Workers, Progress(w) PROVE BridgeIInv'
<1>1. PICK mine \in Msgs : mine = worker[w].msg
  BY WorkersMessage DEF Progress, WorkerAt
<1>2. worker[w].pc # "idle" /\ OwnsInbound(w) /\ worker[w] \in Worker
      /\ mine <= cursor /\ inbox[mine].status = "processing"
  BY <1>1, WorkersMessage DEF Progress, WorkerAt
<1>3. outbox' = Enqueued(mine, "progress", "fixed")
      /\ UNCHANGED <<cursor, inbox, video, worker, landed, outage, outages, prunes>>
  BY <1>1 DEF Progress, world, bounds
<1>4. "progress" \in Kinds /\ "progress" # "reply" /\ "fixed" \in Texts
  BY DEF Kinds, Texts
<1>5. /\ RowsMove
      /\ \A q \in Rows : outbox[q].status = "absent" /\ outbox'[q].status # "absent" =>
           q[1] = mine /\ q[2] = "progress"
  BY <1>2, <1>3, <1>4, EnqueueMoves
<1>6. worker' = [worker EXCEPT ![w] = worker[w]] /\ inbox' \in [Msgs -> InboundOf]
  BY <1>3 DEF BridgeIInv, BridgeTypes
<1>7. PICK x \in Worker : x = worker[w]
  BY <1>2
<1>8. worker' = [worker EXCEPT ![w] = x]
  BY <1>6, <1>7
<1>9. /\ \A m \in Msgs : m # mine => inbox'[m].status = inbox[m].status
      /\ inbox'[mine].status # "none"
      /\ inbox'[mine].status = "done" => HasReplied(w)
  BY <1>2, <1>3
<1>10. \A q \in Rows : outbox[q].status = "absent" /\ outbox'[q].status # "absent" =>
           q[1] = mine /\ (outages = 0 /\ q[2] = "reply" => outbox'[q].text = "answer")
  BY <1>4, <1>5
<1>11. RowsMove /\ UNCHANGED <<cursor, video, outage, outages, prunes>>
  BY <1>3, <1>5
<1>12. GoesOn(w, mine, x)
  BY <1>7 DEF GoesOn
<1> QED
  BY ZenonT(40), <1>1, <1>2, <1>6, <1>7, <1>8, <1>9, <1>10, <1>11, <1>12, WorkerAdds

LEMMA ReplyStep == ASSUME BridgeIInv, NEW w \in Workers, Reply(w) PROVE BridgeIInv'
<1>1. PICK mine \in Msgs : mine = worker[w].msg
  BY WorkersMessage DEF Reply, WorkerAt
<1>2. worker[w].pc = "reply" /\ OwnsInbound(w) /\ worker[w] \in Worker
      /\ mine <= cursor /\ inbox[mine].status = "processing"
  BY <1>1, WorkersMessage DEF Reply, WorkerAt
<1>3. UNCHANGED <<cursor, inbox, video, landed, outage, outages, prunes>> /\ inbox' \in [Msgs -> InboundOf]
  BY DEF Reply, world, bounds, BridgeIInv, BridgeTypes
<1>4. CASE Fails(w) /\ UNCHANGED outbox
  <2> DEFINE x == [worker[w] EXCEPT !.pc = "finish", !.ok = FALSE]
  <2>1. x \in Worker /\ x.msg = worker[w].msg /\ x.pc = "finish" /\ x.ok = FALSE
    BY <1>2, Failed
  <2>2. worker' = [worker EXCEPT ![w] = x]
    BY <1>2, <1>4 DEF Fails, BridgeIInv, BridgeTypes
  <2> HIDE DEF x
  <2> QED
    BY <1>2, <1>3, <1>4, <2>1, <2>2, WorkerGoes DEF BridgeIInv, BridgeTypes
<1>5. CASE outbox' = Enqueued(mine, "reply", worker[w].text) /\ Goes(w, "media")
  <2> DEFINE x == [worker[w] EXCEPT !.pc = "media"]
  <2>1. x \in Worker /\ x.msg = worker[w].msg /\ x.pc = "media" /\ x.text = worker[w].text
    BY <1>2, GoneTo
  <2>2. worker' = [worker EXCEPT ![w] = x]
    BY <1>2, <1>5 DEF Goes, BridgeIInv, BridgeTypes
  <2> HIDE DEF x
  <2>3. "reply" \in Kinds /\ worker[w].text \in Texts
    BY <1>2 DEF Kinds, Worker
  <2>4. /\ RowsMove
        /\ \A q \in Rows : outbox[q].status = "absent" /\ outbox'[q].status # "absent" =>
             q[1] = mine /\ outbox'[q].text = worker[w].text
        /\ \A q \in Rows : q[1] = mine /\ q[2] = "reply" => outbox'[q].status # "absent"
    BY <1>1, <1>2, <1>3, <1>5, <2>3, EnqueueMoves
  <2>5. outages = 0 => worker[w].text = "answer"
    BY <1>2 DEF BridgeIInv, TextInv
  <2>6. Replied(mine)'
    <3> SUFFICES ASSUME NEW i \in 1..Chunks PROVE outbox'[<<mine, "reply", i>>].status # "absent"
      BY DEF Replied
    <3>1. <<mine, "reply", i>> \in Rows
      BY DEF Rows, Kinds
    <3> QED
      BY <2>4, <3>1
  <2>7. GoesOn(w, mine, x)
    BY <1>1, <2>1, <2>5, <2>6 DEF GoesOn
  <2> QED
    BY ZenonT(40), <1>1, <1>2, <1>3, <2>1, <2>2, <2>4, <2>5, <2>6, <2>7, WorkerAdds
<1> QED
  BY <1>1, <1>4, <1>5 DEF Reply

LEMMA SendMediaStep == ASSUME BridgeIInv, NEW w \in Workers, SendMedia(w) PROVE BridgeIInv'
<1>1. PICK mine \in Msgs : mine = worker[w].msg
  BY WorkersMessage DEF SendMedia, WorkerAt
<1>2. worker[w].pc = "media" /\ OwnsInbound(w) /\ worker[w] \in Worker
      /\ mine <= cursor /\ inbox[mine].status = "processing"
  BY <1>1, WorkersMessage DEF SendMedia, WorkerAt
<1>3. UNCHANGED <<cursor, inbox, video, landed, outage, outages, prunes>> /\ inbox' \in [Msgs -> InboundOf]
  BY DEF SendMedia, bounds, BridgeIInv, BridgeTypes
<1> DEFINE x == [worker[w] EXCEPT !.pc = "finish"]
<1>4. x \in Worker /\ x.msg = worker[w].msg /\ x.pc = "finish" /\ x.text = worker[w].text
  BY <1>2, GoneTo
<1>5. worker' = [worker EXCEPT ![w] = x]
  BY <1>2 DEF SendMedia, Goes, BridgeIInv, BridgeTypes
<1> HIDE DEF x
<1>6. /\ RowsMove
      /\ \A q \in Rows : outbox[q].status = "absent" /\ outbox'[q].status # "absent" =>
           q[1] = mine /\ q[2] = "link"
  <2>1. CASE UNCHANGED outbox
    BY <1>3, <2>1, RowsStay
  <2>2. CASE outbox' = Enqueued(mine, "link", "fixed")
    <3>1. "link" \in Kinds /\ "fixed" \in Texts
      BY DEF Kinds, Texts
    <3> QED
      BY <1>2, <1>3, <2>2, <3>1, EnqueueMoves
  <2> QED
    BY <1>1, <2>1, <2>2 DEF SendMedia
<1>7. HasReplied(w) /\ (outages = 0 => worker[w].text = "answer") /\ (prunes = 0 => Replied(mine))
  BY <1>1, <1>2 DEF HasReplied, BridgeIInv, TextInv, ReplyInv, ReplyIsThere
<1>8. prunes = 0 => Replied(mine)'
  <2> SUFFICES ASSUME prunes = 0, NEW i \in 1..Chunks PROVE outbox'[<<mine, "reply", i>>].status # "absent"
    BY DEF Replied
  <2>1. <<mine, "reply", i>> \in Rows
    BY DEF Rows, Kinds
  <2> QED
    BY <1>3, <1>6, <1>7, <2>1 DEF Replied, RowsMove, Moves
<1>9. GoesOn(w, mine, x)
  BY <1>1, <1>4, <1>7, <1>8 DEF GoesOn
<1> QED
  BY <1>1, <1>2, <1>3, <1>4, <1>5, <1>6, <1>7, <1>8, <1>9, WorkerAdds

LEMMA FinishInboundStep == ASSUME BridgeIInv, NEW w \in Workers, FinishInbound(w) PROVE BridgeIInv'
<1>1. PICK mine \in Msgs : mine = worker[w].msg
  BY WorkersMessage DEF FinishInbound, WorkerAt
<1>2. worker[w].pc = "finish" /\ worker[w] \in Worker /\ mine <= cursor
      /\ (OwnsInbound(w) => inbox[mine].status = "processing")
  BY <1>1, WorkersMessage DEF FinishInbound, WorkerAt
<1>3. UNCHANGED <<cursor, video, landed, outage, outages, prunes>>
  BY SMTT(30) DEF FinishInbound, world, bounds
<1>4. worker' = [worker EXCEPT ![w] = Idle] /\ Idle \in Worker /\ Idle.pc = "idle"
  BY WorkerRecords DEF FinishInbound, Idle
<1>5. CASE ~ OwnsInbound(w) /\ UNCHANGED <<inbox, outbox>>
  <2>1. BridgeTypes'
    BY <1>3, <1>4, <1>5 DEF BridgeIInv, BridgeTypes
  <2>2. \A v \in Workers : WorkerMoves(v)
    BY <1>4 DEF WorkerMoves, BridgeIInv, BridgeTypes
  <2> QED
    BY <1>3, <1>5, <2>1, <2>2, RowsStay, Same, StepKeeps
<1>6. CASE OwnsInbound(w)
  <2>1. inbox' \in [Msgs -> InboundOf]
        /\ (\A m \in Msgs : m # mine => inbox'[m].status = inbox[m].status)
        /\ inbox'[mine].status \in {"done", "dead", "pending", "processing"}
        /\ (inbox'[mine].status = "done" => worker[w].ok)
    <3>0. inbox \in [Msgs -> InboundOf] /\ inbox[mine] \in InboundOf
      BY DEF BridgeIInv, BridgeTypes
    <3>1. CASE worker[w].ok /\ inbox' = [inbox EXCEPT ![mine].status = "done", ![mine].owner = Nobody]
      BY <1>2, <3>0, <3>1 DEF InboundOf
    <3>2. CASE inbox' = [inbox EXCEPT ![mine] = [status |-> IF Dies(mine) THEN "dead" ELSE "pending",
                                                 attempts |-> @.attempts + 1, owner |-> Nobody]]
      BY <1>2, <3>0, <3>2 DEF InboundOf
    <3>3. CASE inbox' = [inbox EXCEPT ![mine].owner = Nobody]
      BY <1>2, <1>6, <3>0, <3>3 DEF InboundOf
    <3> QED
      BY <1>1, <1>6, <3>1, <3>2, <3>3 DEF FinishInbound
  <2>2. /\ RowsMove
        /\ \A q \in Rows : outbox[q].status = "absent" /\ outbox'[q].status # "absent" =>
             q[1] = mine /\ q[2] # "reply"
    <3>1. CASE UNCHANGED outbox
      BY <1>3, <3>1, RowsStay
    <3>2. ASSUME NEW kind \in {"terminal", "retrying"}, outbox' = Enqueued(mine, kind, "fixed")
          PROVE  /\ RowsMove
                 /\ \A q \in Rows : outbox[q].status = "absent" /\ outbox'[q].status # "absent" =>
                      q[1] = mine /\ q[2] # "reply"
      <4>1. kind \in Kinds /\ kind # "reply" /\ "fixed" \in Texts
        BY DEF Kinds, Texts
      <4> QED
        BY <1>2, <1>3, <1>6, <3>2, <4>1, EnqueueMoves
    <3> QED
      BY <1>1, <1>6, <3>1, <3>2 DEF FinishInbound
  <2>3. worker[w].ok => HasReplied(w)
    BY <1>2 DEF HasReplied
  <2>4. PICK x \in Worker : x = Idle
    BY <1>4
  <2>5. inbox'[mine].status # "none" /\ (inbox'[mine].status = "done" => HasReplied(w))
    BY <2>1, <2>3
  <2>6. worker[w].pc # "idle" /\ worker' = [worker EXCEPT ![w] = x]
    BY <1>2, <1>4, <2>4
  <2>7. \A q \in Rows : outbox[q].status = "absent" /\ outbox'[q].status # "absent" =>
          q[1] = mine /\ (outages = 0 /\ q[2] = "reply" => outbox'[q].text = "answer")
    BY <2>2
  <2>8. GoesOn(w, mine, x)
    BY <2>4 DEF GoesOn
  <2> QED
    BY ZenonT(40), <1>1, <1>3, <1>6, <2>1, <2>2, <2>4, <2>5, <2>6, <2>7, <2>8, WorkerAdds
<1> QED
  BY <1>5, <1>6 DEF FinishInbound

\* The records of rows.
LEMMA RowClaimed ==
  ASSUME NEW R, NEW x \in DeliveryOf(R)
  PROVE  LET y == [x EXCEPT !.status = "processing", !.live = TRUE] IN
         y \in DeliveryOf(R) /\ y.status = "processing" /\ y.text = x.text /\ y.flight = x.flight
BY DEF DeliveryOf, Statuses

LEMMA RowReleased ==
  ASSUME NEW R, NEW x \in DeliveryOf(R)
  PROVE  LET y == [x EXCEPT !.status = "pending", !.live = FALSE] IN
         y \in DeliveryOf(R) /\ y.status = "pending" /\ y.text = x.text /\ y.flight = x.flight
BY DEF DeliveryOf, Statuses

LEMMA RowSubmitted ==
  ASSUME NEW R, NEW x \in DeliveryOf(R)
  PROVE  LET y == [x EXCEPT !.status = "submitting", !.flight = "out"] IN
         y \in DeliveryOf(R) /\ y.status = "submitting" /\ y.text = x.text /\ y.flight = "out"
BY DEF DeliveryOf, Statuses

LEMMA RowFlown ==
  ASSUME NEW R, NEW x \in DeliveryOf(R), NEW f \in {"ok", "lost", "dns"}
  PROVE  LET y == [x EXCEPT !.flight = f] IN
         y \in DeliveryOf(R) /\ y.status = x.status /\ y.text = x.text /\ y.flight = f
BY DEF DeliveryOf

LEMMA RowLapsed ==
  ASSUME NEW R, NEW x \in DeliveryOf(R)
  PROVE  LET y == [x EXCEPT !.live = FALSE] IN
         y \in DeliveryOf(R) /\ y.status = x.status /\ y.text = x.text /\ y.flight = x.flight
BY DEF DeliveryOf

LEMMA RowEnded ==
  ASSUME NEW R, NEW x \in DeliveryOf(R), NEW s \in Statuses
  PROVE  /\ Ended(x, s) \in DeliveryOf(R) /\ Ended(x, s).status = s
         /\ Ended(x, s).text = x.text /\ Ended(x, s).flight = "none"
BY DEF DeliveryOf, Ended

LEMMA RowTriedAgain ==
  ASSUME NEW R, NEW x \in DeliveryOf(R)
  PROVE  LET y == [x EXCEPT !.tries = @ + 1] IN
         y \in DeliveryOf(R) /\ y.status = x.status /\ y.text = x.text /\ y.flight = x.flight
BY DEF DeliveryOf

LEMMA RowRecovered ==
  ASSUME NEW R, NEW x \in DeliveryOf(R)
  PROVE  LET y == Recovered(x) IN
         /\ y \in DeliveryOf(R) /\ y.text = x.text
         /\ y.status = IF x.status = "processing" THEN "pending"
                       ELSE IF x.status = "submitting" THEN "recovery_required" ELSE x.status
         /\ x.status = "submitting" => y.flight = IF x.flight = "out" THEN "out" ELSE "none"
         /\ x.status # "submitting" => y.flight = x.flight
<1>1. CASE x.status = "processing"
  <2>1. [x EXCEPT !.status = "pending", !.live = FALSE] = Recovered(x)
    BY <1>1 DEF Recovered
  <2> QED
    BY ZenonT(40), <1>1, <2>1, RowReleased
<1>2. CASE x.status = "submitting"
  <2>1. Recovered(x) = [x EXCEPT !.live = FALSE,
                                 !.flight = IF x.flight = "out" THEN "out" ELSE "none",
                                 !.status = "recovery_required"]
    BY <1>2 DEF Recovered, Flies, DeliveryOf
  <2> QED
    BY <1>2, <2>1 DEF DeliveryOf, Statuses
<1>3. CASE x.status \notin {"processing", "submitting"}
  BY <1>3 DEF Recovered
<1> QED
  BY <1>1, <1>2, <1>3

-----------------------------------------------------------------------------
\* Steps of the drain: rows move, and none is added.
LEMMA RowsOnly ==
  ASSUME BridgeIInv, RowsMove, UNCHANGED <<cursor, inbox, video, worker, outage, outages>>,
         prunes' \in Nat,
         \A q \in Rows : outbox[q].status = "absent" => outbox'[q].status = "absent"
  PROVE  BridgeIInv'
<1>1. BridgeTypes'
  BY DEF BridgeIInv, BridgeTypes
<1>2. \A q \in Rows : Adds(q)
  BY DEF Adds
<1> QED
  BY <1>1, <1>2, Same, StepKeeps

LEMMA ARow ==
  ASSUME BridgeIInv, NEW r \in Rows
  PROVE  /\ \E R : outbox[r] \in DeliveryOf(R)
         /\ landed[r] \in Nat
         /\ outbox[r].flight = "out" => outbox[r].status \in {"submitting", "recovery_required"}
         /\ prunes = 0 =>
              /\ landed[r] <= 1
              /\ outbox[r].status \in {"pending", "processing"} => landed[r] = 0
              /\ outbox[r].flight \in {"out", "dns"} => landed[r] = 0
BY DEF BridgeIInv, RowsInv, RowTypes, FlightInv, OnceInv

LEMMA ClaimDeliveryStep == ASSUME BridgeIInv, NEW r \in Rows, ClaimDelivery(r) PROVE BridgeIInv'
<1>1. PICK d : d = [outbox[r] EXCEPT !.status = "processing", !.live = TRUE]
  OBVIOUS
<1>2. outbox' = [outbox EXCEPT ![r] = d] /\ outbox[r].status = "pending" /\ MayBeSent(r)
      /\ UNCHANGED <<cursor, inbox, video, worker, outage, outages, prunes, landed>>
  BY <1>1 DEF ClaimDelivery, Sets, world, bounds
<1>3. \A R : outbox[r] \in DeliveryOf(R) =>
        d \in DeliveryOf(R) /\ d.status = "processing" /\ d.text = outbox[r].text
        /\ d.flight = outbox[r].flight
  BY <1>1, RowClaimed
<1>4. RowsMove /\ \A q \in Rows : outbox[q].status = "absent" => outbox'[q].status = "absent"
  BY <1>2, <1>3, ARow, RowMoves
<1> QED
  BY <1>2, <1>4, RowsOnly DEF BridgeIInv, BridgeTypes

LEMMA ReleaseDeliveryStep == ASSUME BridgeIInv, NEW r \in Rows, ReleaseDelivery(r) PROVE BridgeIInv'
<1>1. PICK d : d = [outbox[r] EXCEPT !.status = "pending", !.live = FALSE]
  OBVIOUS
<1>2. outbox' = [outbox EXCEPT ![r] = d] /\ outbox[r].status = "processing"
      /\ UNCHANGED <<cursor, inbox, video, worker, outage, outages, prunes, landed>>
  BY <1>1 DEF ReleaseDelivery, Sets, world, bounds
<1>3. \A R : outbox[r] \in DeliveryOf(R) =>
        d \in DeliveryOf(R) /\ d.status = "pending" /\ d.text = outbox[r].text
        /\ d.flight = outbox[r].flight
  BY <1>1, RowReleased
<1>4. RowsMove /\ \A q \in Rows : outbox[q].status = "absent" => outbox'[q].status = "absent"
  BY <1>2, <1>3, ARow, RowMoves
<1> QED
  BY <1>2, <1>4, RowsOnly DEF BridgeIInv, BridgeTypes

LEMMA MarkSubmittingStep == ASSUME BridgeIInv, NEW r \in Rows, MarkSubmitting(r) PROVE BridgeIInv'
<1>1. PICK d : d = [outbox[r] EXCEPT !.status = "submitting", !.flight = "out"]
  OBVIOUS
<1>2. outbox' = [outbox EXCEPT ![r] = d] /\ outbox[r].status = "processing"
      /\ UNCHANGED <<cursor, inbox, video, worker, outage, outages, prunes, landed>>
  BY <1>1 DEF MarkSubmitting, Sets, world, bounds
<1>3. \A R : outbox[r] \in DeliveryOf(R) =>
        d \in DeliveryOf(R) /\ d.status = "submitting" /\ d.text = outbox[r].text /\ d.flight = "out"
  BY <1>1, RowSubmitted
<1>4. outbox'[r] = d
  BY <1>2 DEF BridgeIInv, RowsInv, RowTypes
<1>5. RowsMove /\ \A q \in Rows : outbox[q].status = "absent" => outbox'[q].status = "absent"
  BY <1>2, <1>3, <1>4, ARow, RowMoves
<1> QED
  BY <1>2, <1>5, RowsOnly DEF BridgeIInv, BridgeTypes

LEMMA LandStep == ASSUME BridgeIInv, NEW r \in Rows, Land(r) PROVE BridgeIInv'
<1>1. PICK f \in {"ok", "lost"} : outbox' = [outbox EXCEPT ![r] = [outbox[r] EXCEPT !.flight = f]]
  BY DEF Land, Sets
<1>2. PICK d : d = [outbox[r] EXCEPT !.flight = f]
  OBVIOUS
<1>3. /\ outbox' = [outbox EXCEPT ![r] = d] /\ outbox[r].flight = "out"
      /\ landed' = [landed EXCEPT ![r] = @ + 1]
      /\ UNCHANGED <<cursor, inbox, video, worker, outage, outages, prunes>>
  BY <1>1, <1>2 DEF Land, bounds
<1>4. \A R : outbox[r] \in DeliveryOf(R) =>
        d \in DeliveryOf(R) /\ d.status = outbox[r].status /\ d.text = outbox[r].text /\ d.flight = f
  BY <1>2 DEF DeliveryOf
<1>5. landed'[r] = landed[r] + 1
  BY <1>3 DEF BridgeIInv, RowsInv, RowTypes
<1>6. outbox[r].status \in {"submitting", "recovery_required"} /\ (prunes = 0 => landed'[r] = 1)
  BY <1>3, <1>5, ARow
<1>7. landed' = landed \/ (landed' = [landed EXCEPT ![r] = @ + 1] /\ outbox[r].flight = "out")
  BY <1>3
<1>8. /\ d.status \in {"submitting", "recovery_required"} /\ d.status # "absent"
      /\ d.text = outbox[r].text /\ d.flight \in {"ok", "lost"}
  BY <1>4, <1>6, ARow
<1>9. \A R : outbox[r] \in DeliveryOf(R) => d \in DeliveryOf(R)
  BY <1>4
<1>10. /\ (outbox[r].status = "pending" => MayBeSent(r))
      /\ (d.flight = "out" => outbox'[r].status \in {"submitting", "recovery_required"})
      /\ (d.status = "submitting" => d.flight # "none")
      /\ (prunes = 0 => /\ d.status \in {"pending", "processing"} \/ d.flight \in {"out", "dns"} =>
                            landed'[r] = 0
                       /\ landed'[r] <= 1)
      /\ UNCHANGED prunes
      /\ outbox[r].status \in {"pending", "processing", "submitting", "recovery_required"}
  BY <1>3, <1>6, <1>8
<1>11. RowsMove /\ \A q \in Rows : outbox[q].status = "absent" => outbox'[q].status = "absent"
  BY <1>3, <1>7, <1>8, <1>9, <1>10, RowMoves
<1> QED
  BY <1>3, <1>11, RowsOnly DEF BridgeIInv, BridgeTypes

LEMMA SinkStep == ASSUME BridgeIInv, NEW r \in Rows, Sink(r) PROVE BridgeIInv'
<1>1. PICK f \in {"lost", "dns"} : outbox' = [outbox EXCEPT ![r] = [outbox[r] EXCEPT !.flight = f]]
  BY DEF Sink, Sets
<1>2. PICK d : d = [outbox[r] EXCEPT !.flight = f]
  OBVIOUS
<1>3. /\ outbox' = [outbox EXCEPT ![r] = d] /\ outbox[r].flight = "out"
      /\ UNCHANGED <<cursor, inbox, video, worker, outage, outages, prunes, landed>>
  BY <1>1, <1>2 DEF Sink, world, bounds
<1>4. \A R : outbox[r] \in DeliveryOf(R) =>
        d \in DeliveryOf(R) /\ d.status = outbox[r].status /\ d.text = outbox[r].text /\ d.flight = f
  BY <1>2 DEF DeliveryOf
<1>5. outbox[r].status \in {"submitting", "recovery_required"} /\ (prunes = 0 => landed'[r] = 0)
  BY <1>3, ARow
<1>6. RowsMove /\ \A q \in Rows : outbox[q].status = "absent" => outbox'[q].status = "absent"
  BY <1>3, <1>4, <1>5, ARow, RowMoves
<1> QED
  BY <1>3, <1>6, RowsOnly DEF BridgeIInv, BridgeTypes

\* Where a row goes that is not sent.
Retires(q) ==
  \/ outbox'[q].status = outbox[q].status /\ outbox'[q].flight = outbox[q].flight
  \/ outbox'[q].status = "dead" /\ outbox'[q].flight = "none" /\ outbox[q].status \notin {"absent", "done"}
  \/ /\ outbox[q].status = "processing" /\ outbox'[q].status = "pending"
     /\ outbox'[q].flight = outbox[q].flight
  \/ /\ outbox[q].status = "submitting" /\ outbox'[q].status = "recovery_required"
     /\ outbox'[q].flight \in {outbox[q].flight, "none"} \ {"dns"}

LEMMA RowsRetire ==
  ASSUME BridgeIInv, UNCHANGED <<landed, prunes>>,
         \A R : outbox \in [Rows -> DeliveryOf(R)] => outbox' \in [Rows -> DeliveryOf(R)],
         \A q \in Rows : outbox'[q].text = outbox[q].text /\ Retires(q)
  PROVE  RowsMove /\ \A q \in Rows : outbox[q].status = "absent" => outbox'[q].status = "absent"
<1>1. RowTypes'
  BY DEF BridgeIInv, RowsInv, RowTypes
<1>2. ASSUME NEW q \in Rows
      PROVE  /\ outbox'[q].flight = "out" => outbox'[q].status \in {"submitting", "recovery_required"}
             /\ outbox'[q].status = "submitting" => outbox'[q].flight # "none"
  BY DEF Retires, BridgeIInv, RowsInv, FlightInv
<1>3. ASSUME NEW q \in Rows, prunes = 0
      PROVE  /\ landed[q] <= 1
             /\ outbox'[q].status \in {"absent", "pending", "processing"} => landed[q] = 0
             /\ outbox'[q].flight \in {"out", "dns"} => landed[q] = 0
  BY <1>3 DEF Retires, BridgeIInv, RowsInv, OnceInv
<1>4. FlightInv' /\ OnceInv'
  BY <1>2, <1>3 DEF FlightInv, OnceInv
<1>5. ASSUME NEW q \in Rows PROVE Moves(q)
  <2>1. landed[q] \in Nat
    BY DEF BridgeIInv, RowsInv, RowTypes
  <2> QED
    BY <2>1 DEF Retires, Moves, OpenRow, Begun
<1>6. prunes' >= prunes
  BY DEF BridgeIInv, BridgeTypes
<1> QED
  BY <1>1, <1>4, <1>5, <1>6 DEF RowsMove, RowsInv, Retires

LEMMA FinishDeliveryStep == ASSUME BridgeIInv, NEW r \in Rows, FinishDelivery(r) PROVE BridgeIInv'
<1>1. PICK R : outbox \in [Rows -> DeliveryOf(R)]
  BY DEF BridgeIInv, RowsInv, RowTypes
<1>2. UNCHANGED <<cursor, inbox, video, worker, outage, outages, prunes, landed>>
      /\ outbox[r].status = "submitting"
  BY DEF FinishDelivery, world, bounds
<1>3. CASE /\ outbox[r].flight \in {"ok", "lost", "dns"}
           /\ \E s \in {"done", "recovery_required"} : Sets(r, Ended(outbox[r], s))
  <2>1. PICK s \in {"done", "recovery_required"} : Sets(r, Ended(outbox[r], s))
    BY <1>3
  <2>2. PICK d : d = Ended(outbox[r], s)
    OBVIOUS
  <2>3. outbox' = [outbox EXCEPT ![r] = d]
    BY <2>1, <2>2 DEF Sets
  <2>4. s \in Statuses /\ s # "absent" /\ s # "submitting" /\ s \notin {"pending", "processing"}
    BY DEF Statuses
  <2>5. \A S : outbox[r] \in DeliveryOf(S) =>
          d \in DeliveryOf(S) /\ d.status = s /\ d.text = outbox[r].text /\ d.flight = "none"
    BY <2>2, <2>4, RowEnded
  <2>6. RowsMove /\ \A q \in Rows : outbox[q].status = "absent" => outbox'[q].status = "absent"
    BY <1>2, <2>3, <2>4, <2>5, ARow, RowMoves
  <2> QED
    BY <1>2, <2>6, RowsOnly DEF BridgeIInv, BridgeTypes
<1>4. CASE outbox[r].flight = "dns" /\ Sets(r, [Ended(outbox[r], "pending") EXCEPT !.tries = @ + 1])
  <2>1. PICK e : e = Ended(outbox[r], "pending")
    OBVIOUS
  <2>2. PICK d : d = [e EXCEPT !.tries = @ + 1]
    OBVIOUS
  <2>3. outbox' = [outbox EXCEPT ![r] = d]
    BY <1>4, <2>1, <2>2 DEF Sets
  <2>4. \A S : outbox[r] \in DeliveryOf(S) =>
          e \in DeliveryOf(S) /\ e.status = "pending" /\ e.text = outbox[r].text /\ e.flight = "none"
    BY <2>1, RowEnded DEF Statuses
  <2>5. \A S : outbox[r] \in DeliveryOf(S) =>
          d \in DeliveryOf(S) /\ d.status = "pending" /\ d.text = outbox[r].text /\ d.flight = "none"
    BY <2>2, <2>4, RowTriedAgain
  <2>6. prunes = 0 => landed[r] = 0
    BY <1>4, ARow
  <2>7. RowsMove /\ \A q \in Rows : outbox[q].status = "absent" => outbox'[q].status = "absent"
    BY <1>2, <2>3, <2>5, <2>6, ARow, RowMoves
  <2> QED
    BY <1>2, <2>7, RowsOnly DEF BridgeIInv, BridgeTypes
<1>5. CASE outbox' = [q \in Rows |-> IF q \in Group(r) /\ outbox[q].status \notin {"done", "absent"}
                                     THEN Ended(outbox[q], "dead") ELSE outbox[q]]
  <2>1. ASSUME NEW S, outbox \in [Rows -> DeliveryOf(S)], NEW q \in Rows
        PROVE  outbox'[q] \in DeliveryOf(S) /\ outbox'[q].text = outbox[q].text /\ Retires(q)
    <3>1. outbox[q] \in DeliveryOf(S)
      BY <2>1
    <3>2. CASE outbox'[q] = outbox[q]
      BY <3>1, <3>2 DEF Retires
    <3>3. CASE outbox'[q] = Ended(outbox[q], "dead") /\ outbox[q].status \notin {"done", "absent"}
      BY <3>1, <3>3, RowEnded DEF Retires, Statuses
    <3> QED
      BY <1>5, <3>2, <3>3
  <2>2. \A S : outbox \in [Rows -> DeliveryOf(S)] => outbox' \in [Rows -> DeliveryOf(S)]
    BY <1>5, <2>1
  <2>3. RowsMove /\ \A q \in Rows : outbox[q].status = "absent" => outbox'[q].status = "absent"
    BY <1>1, <1>2, <2>1, <2>2, RowsRetire
  <2> QED
    BY <1>2, <2>3, RowsOnly DEF BridgeIInv, BridgeTypes
<1> QED
  BY <1>3, <1>4, <1>5 DEF FinishDelivery

LEMMA LapseDeliveryStep == ASSUME BridgeIInv, NEW r \in Rows, LapseDelivery(r) PROVE BridgeIInv'
<1>1. UNCHANGED <<cursor, inbox, video, worker, outage, outages, prunes, landed>>
      /\ outbox' = [outbox EXCEPT ![r] = [outbox[r] EXCEPT !.live = FALSE]]
  BY DEF LapseDelivery, Sets, world, bounds
<1>2. ASSUME NEW S, outbox \in [Rows -> DeliveryOf(S)]
      PROVE  /\ outbox' \in [Rows -> DeliveryOf(S)]
             /\ \A q \in Rows : outbox'[q].text = outbox[q].text /\ Retires(q)
  <2>1. PICK d \in DeliveryOf(S) : /\ d = [outbox[r] EXCEPT !.live = FALSE]
                                   /\ d.status = outbox[r].status /\ d.text = outbox[r].text
                                   /\ d.flight = outbox[r].flight
    BY <1>2, RowLapsed
  <2>2. outbox' = [outbox EXCEPT ![r] = d]
    BY <1>1, <2>1
  <2> QED
    BY <1>2, <2>1, <2>2 DEF Retires
<1>3. RowsMove /\ \A q \in Rows : outbox[q].status = "absent" => outbox'[q].status = "absent"
  BY <1>1, <1>2, RowsRetire DEF BridgeIInv, RowsInv, RowTypes
<1> QED
  BY <1>1, <1>3, RowsOnly DEF BridgeIInv, BridgeTypes

\* A row that recovery visits retires.
LEMMA RecoveryRetires ==
  ASSUME BridgeIInv, NEW S, outbox \in [Rows -> DeliveryOf(S)], NEW q \in Rows,
         outbox'[q] = outbox[q] \/ outbox'[q] = Recovered(outbox[q])
  PROVE  outbox'[q] \in DeliveryOf(S) /\ outbox'[q].text = outbox[q].text /\ Retires(q)
<1>1. outbox[q] \in DeliveryOf(S)
  OBVIOUS
<1>2. CASE outbox'[q] = outbox[q]
  BY <1>1, <1>2 DEF Retires
<1>3. CASE outbox'[q] = Recovered(outbox[q])
  <2>1. PICK y : y = Recovered(outbox[q])
    OBVIOUS
  <2>2. /\ y \in DeliveryOf(S) /\ y.text = outbox[q].text
        /\ y.status = IF outbox[q].status = "processing" THEN "pending"
                       ELSE IF outbox[q].status = "submitting" THEN "recovery_required" ELSE outbox[q].status
        /\ outbox[q].status = "submitting" => y.flight = IF outbox[q].flight = "out" THEN "out" ELSE "none"
        /\ outbox[q].status # "submitting" => y.flight = outbox[q].flight
    BY <1>1, <2>1, RowRecovered
  <2> QED
    BY <1>3, <2>1, <2>2 DEF Retires
<1> QED
  BY <1>2, <1>3

LEMMA RecoverDeliveryStep == ASSUME BridgeIInv, NEW r \in Rows, RecoverDelivery(r) PROVE BridgeIInv'
<1>1. UNCHANGED <<cursor, inbox, video, worker, outage, outages, prunes, landed>>
      /\ outbox' = [outbox EXCEPT ![r] = Recovered(outbox[r])]
  BY DEF RecoverDelivery, Sets, world, bounds
<1>2. ASSUME NEW S, outbox \in [Rows -> DeliveryOf(S)]
      PROVE  /\ outbox' \in [Rows -> DeliveryOf(S)]
             /\ \A q \in Rows : outbox'[q].text = outbox[q].text /\ Retires(q)
  <2>1. \A q \in Rows : outbox'[q] = outbox[q] \/ outbox'[q] = Recovered(outbox[q])
    BY <1>1, <1>2
  <2>2. \A q \in Rows : outbox'[q] \in DeliveryOf(S) /\ outbox'[q].text = outbox[q].text /\ Retires(q)
    BY <1>2, <2>1, RecoveryRetires
  <2> QED
    BY <1>1, <1>2, <2>2
<1>3. RowsMove /\ \A q \in Rows : outbox[q].status = "absent" => outbox'[q].status = "absent"
  BY <1>1, <1>2, RowsRetire DEF BridgeIInv, RowsInv, RowTypes
<1> QED
  BY <1>1, <1>3, RowsOnly DEF BridgeIInv, BridgeTypes

LEMMA VideosAndRows ==
  ASSUME BridgeIInv, RowsMove, UNCHANGED <<cursor, inbox, worker, outage, outages, prunes>>,
         \A q \in Rows : outbox[q].status = "absent" => outbox'[q].status = "absent",
         video' \in [Msgs -> VideoStates],
         \A m \in Msgs : OpenVideo(m)' => OpenVideo(m)
  PROVE  BridgeIInv'
<1>1. BridgeTypes'
  BY DEF BridgeIInv, BridgeTypes
<1>2. \A q \in Rows : Adds(q)
  BY DEF Adds
<1> QED
  BY <1>1, <1>2, Same, StepKeeps

LEMMA EndVideoStep == ASSUME BridgeIInv, NEW m \in Msgs, EndVideo(m) PROVE BridgeIInv'
<1>1. UNCHANGED <<cursor, inbox, outbox, worker, outage, outages, prunes, landed>>
  BY DEF EndVideo, world, bounds
<1>2. video' \in [Msgs -> VideoStates] /\ \A n \in Msgs : OpenVideo(n)' => OpenVideo(n)
  BY DEF EndVideo, OpenVideo, BridgeIInv, BridgeTypes, VideoStates
<1> QED
  BY <1>1, <1>2, RowsStay, VideosAndRows

LEMMA MaintainStep == ASSUME BridgeIInv, Maintain PROVE BridgeIInv'
<1>1. UNCHANGED <<cursor, inbox, outbox, worker, outage, outages, prunes, landed>>
  BY DEF Maintain, world, bounds
<1>2. video' \in [Msgs -> VideoStates] /\ \A n \in Msgs : OpenVideo(n)' => OpenVideo(n)
  BY DEF Maintain, OpenVideo, BridgeIInv, BridgeTypes, VideoStates
<1> QED
  BY <1>1, <1>2, RowsStay, VideosAndRows

LEMMA CloseWithoutReplayStep == ASSUME BridgeIInv, NEW c \in Chats, CloseWithoutReplay(c) PROVE BridgeIInv'
<1>1. UNCHANGED <<cursor, inbox, worker, outage, outages, prunes, landed>>
  BY DEF CloseWithoutReplay, world, bounds
<1>2. video' \in [Msgs -> VideoStates] /\ \A n \in Msgs : OpenVideo(n)' => OpenVideo(n)
  BY DEF CloseWithoutReplay, OpenVideo, BridgeIInv, BridgeTypes, VideoStates
<1>3. outbox' = [r \in Rows |-> IF r \in Uncertain(c) THEN Ended(outbox[r], "dead") ELSE outbox[r]]
  BY DEF CloseWithoutReplay
<1>4. ASSUME NEW S, outbox \in [Rows -> DeliveryOf(S)]
      PROVE  /\ outbox' \in [Rows -> DeliveryOf(S)]
             /\ \A q \in Rows : outbox'[q].text = outbox[q].text /\ Retires(q)
  <2>1. ASSUME NEW q \in Rows
        PROVE  outbox'[q] \in DeliveryOf(S) /\ outbox'[q].text = outbox[q].text /\ Retires(q)
    <3>1. outbox[q] \in DeliveryOf(S)
      BY <1>4
    <3>2. CASE q \notin Uncertain(c)
      BY <1>3, <3>1, <3>2 DEF Retires
    <3>3. CASE q \in Uncertain(c)
      <4>1. outbox'[q] = Ended(outbox[q], "dead") /\ outbox[q].status = "recovery_required"
        BY <1>3, <3>3 DEF Uncertain
      <4> QED
        BY <3>1, <4>1, RowEnded DEF Retires, Statuses
    <3> QED
      BY <3>2, <3>3
  <2> QED
    BY <1>3, <2>1
<1>5. RowsMove /\ \A q \in Rows : outbox[q].status = "absent" => outbox'[q].status = "absent"
  BY <1>1, <1>4, RowsRetire DEF BridgeIInv, RowsInv, RowTypes
<1> QED
  BY <1>1, <1>2, <1>5, VideosAndRows

LEMMA PruneStep == ASSUME BridgeIInv, NEW r \in Rows, Prune(r) PROVE BridgeIInv'
<1>1. UNCHANGED <<cursor, inbox, video, worker, outage, outages, landed>> /\ prunes' = prunes + 1
  BY DEF Prune, world
<1>2. prunes \in Nat /\ prunes' \in Nat /\ prunes' # 0 /\ prunes' >= prunes
  BY <1>1 DEF BridgeIInv, BridgeTypes
<1>3. PICK R : outbox \in [Rows -> DeliveryOf(R)]
  BY DEF BridgeIInv, RowsInv, RowTypes
<1>4. Absent \in DeliveryOf(R \cup {0}) /\ Absent.status = "absent" /\ Absent.flight = "none"
  BY DEF Absent, DeliveryOf, Statuses, Texts
<1>5. \A q \in Rows : outbox'[q] = Absent \/ outbox'[q] = outbox[q]
  BY DEF Prune
<1>6. outbox' \in [Rows -> DeliveryOf(R \cup {0})]
  <2>1. \A d \in DeliveryOf(R) : d \in DeliveryOf(R \cup {0})
    BY DEF DeliveryOf
  <2>2. \A q \in Rows : outbox'[q] \in DeliveryOf(R \cup {0})
    BY <1>3, <1>4, <1>5, <2>1
  <2> QED
    BY <2>2 DEF Prune
<1>7. RowsInv'
  <2>1. RowTypes'
    BY <1>1, <1>6 DEF RowTypes, BridgeIInv, RowsInv
  <2>2. FlightInv' /\ OnceInv'
    BY <1>2, <1>4, <1>5 DEF FlightInv, OnceInv, BridgeIInv, RowsInv
  <2> QED
    BY <2>1, <2>2 DEF RowsInv
<1>8. ASSUME NEW q \in Rows PROVE Moves(q)
  <2>1. landed[q] \in Nat /\ landed'[q] = landed[q]
    BY <1>1 DEF BridgeIInv, RowsInv, RowTypes
  <2> QED
    BY <1>1, <1>2, <1>4, <1>5, <2>1 DEF Moves, OpenRow, Begun
<1>9. RowsMove
  BY <1>2, <1>7, <1>8 DEF RowsMove
<1> QED
  BY <1>1, <1>2, <1>4, <1>5, <1>9, RowsOnly

LEMMA BridgeDiesStep == ASSUME BridgeIInv, BridgeDies PROVE BridgeIInv'
<1>1. UNCHANGED <<cursor, video, outage, outages, prunes, landed>>
  BY DEF BridgeDies, world, bounds
<1>2. ASSUME NEW S, outbox \in [Rows -> DeliveryOf(S)]
      PROVE  /\ outbox' \in [Rows -> DeliveryOf(S)]
             /\ \A q \in Rows : outbox'[q].text = outbox[q].text /\ Retires(q)
  <2>1. \A q \in Rows : outbox'[q] = Recovered(outbox[q])
    BY DEF BridgeDies
  <2>2. \A q \in Rows : outbox'[q] \in DeliveryOf(S) /\ outbox'[q].text = outbox[q].text /\ Retires(q)
    BY <1>2, <2>1, RecoveryRetires
  <2> QED
    BY <2>2 DEF BridgeDies
<1>3. RowsMove /\ \A q \in Rows : outbox[q].status = "absent" => outbox'[q].status = "absent"
  BY <1>1, <1>2, RowsRetire DEF BridgeIInv, RowsInv, RowTypes
<1>4. /\ inbox' \in [Msgs -> InboundOf]
      /\ \A m \in Msgs : \/ inbox'[m].status = inbox[m].status
                         \/ inbox[m].status = "processing" /\ inbox'[m].status = "pending"
  <2>1. \A i \in InboundOf : /\ RecoveredInbound(i) \in InboundOf
                             /\ \/ RecoveredInbound(i).status = i.status
                                \/ i.status = "processing" /\ RecoveredInbound(i).status = "pending"
    BY DEF InboundOf, RecoveredInbound
  <2> QED
    BY <2>1 DEF BridgeDies, BridgeIInv, BridgeTypes
<1>5. worker' = [w \in Workers |-> Idle] /\ Idle \in Worker /\ Idle.pc = "idle"
  BY WorkerRecords DEF BridgeDies, Idle
<1>6. BridgeTypes'
  BY <1>1, <1>4, <1>5 DEF BridgeIInv, BridgeTypes
<1>7. \A m \in Msgs : MessageMoves(m)
  BY <1>1, <1>4 DEF MessageMoves, OpenVideo, BridgeIInv, StoredInv
<1>8. \A w \in Workers : WorkerMoves(w)
  BY <1>5 DEF WorkerMoves
<1>9. \A q \in Rows : Adds(q)
  BY <1>3 DEF Adds
<1> QED
  BY <1>1, <1>3, <1>6, <1>7, <1>8, <1>9, Same, StepKeeps

LEMMA OutageStep == ASSUME BridgeIInv, LoseModels \/ FindModels PROVE BridgeIInv'
<1>1. UNCHANGED <<cursor, inbox, outbox, video, worker, landed, prunes>>
  BY DEF LoseModels, FindModels, rows, bounds
<1>2. outage' \in BOOLEAN /\ outages' \in Nat /\ (outages' = 0 => outages = 0 /\ ~ outage')
  <2>1. outages \in Nat
    BY DEF BridgeIInv, BridgeTypes
  <2>2. CASE LoseModels
    <3>1. outage' = TRUE /\ outages' = outages + 1
      BY <2>2 DEF LoseModels
    <3>2. outages' \in Nat /\ outages' # 0
      BY <2>1, <3>1
    <3> QED
      BY <3>1, <3>2
  <2>3. CASE FindModels
    <3>1. outage' = FALSE /\ outages' = outages
      BY <2>3 DEF FindModels, bounds
    <3> QED
      BY <2>1, <3>1
  <2> QED
    BY <2>2, <2>3
<1>3. BridgeTypes'
  BY <1>1, <1>2 DEF BridgeIInv, BridgeTypes
<1> QED
  BY <1>1, <1>2, <1>3, RowsStay, Same, StepKeeps

LEMMA BridgeStep == ASSUME BridgeIInv, BridgeNext PROVE BridgeIInv'
<1>1. CASE Receive \/ Maintain \/ BridgeDies \/ LoseModels \/ FindModels
  BY <1>1, ReceiveStep, MaintainStep, BridgeDiesStep, OutageStep
<1>2. CASE \E w \in Workers : Handle(w) \/ Fail(w) \/ Progress(w)
  <2>1. PICK w \in Workers : Handle(w) \/ Fail(w) \/ Progress(w)
    BY <1>2
  <2>2. CASE \E m \in Msgs : ClaimInbound(w, m)
    BY <2>2, ClaimInboundStep
  <2>3. CASE ReserveVideo(w) \/ Ask(w) \/ Answer(w) \/ Settle(w)
    BY <2>3, ReserveVideoStep, AskStep, AnswerStep, SettleStep
  <2>4. CASE Reply(w) \/ SendMedia(w) \/ FinishInbound(w)
    BY <2>4, ReplyStep, SendMediaStep, FinishInboundStep
  <2>5. CASE Fail(w) \/ Progress(w)
    BY <2>5, FailStep, ProgressStep
  <2> QED
    BY <2>1, <2>2, <2>3, <2>4, <2>5 DEF Handle
<1>3. CASE \E m \in Msgs : LapseInbound(m) \/ EndVideo(m)
  BY <1>3, LapseInboundStep, EndVideoStep
<1>4. CASE \E r \in Rows : Drain(r) \/ ReleaseDelivery(r) \/ Sink(r) \/ LapseDelivery(r) \/ Prune(r)
  <2>1. PICK r \in Rows : Drain(r) \/ ReleaseDelivery(r) \/ Sink(r) \/ LapseDelivery(r) \/ Prune(r)
    BY <1>4
  <2>2. CASE ClaimDelivery(r) \/ MarkSubmitting(r) \/ Land(r) \/ FinishDelivery(r) \/ RecoverDelivery(r)
    BY <2>2, ClaimDeliveryStep, MarkSubmittingStep, LandStep, FinishDeliveryStep, RecoverDeliveryStep
  <2>3. CASE ReleaseDelivery(r) \/ Sink(r) \/ LapseDelivery(r) \/ Prune(r)
    BY <2>3, ReleaseDeliveryStep, SinkStep, LapseDeliveryStep, PruneStep
  <2> QED
    BY <2>1, <2>2, <2>3 DEF Drain
<1>5. CASE \E c \in Chats : CloseWithoutReplay(c)
  BY <1>5, CloseWithoutReplayStep
<1> QED
  BY <1>1, <1>2, <1>3, <1>4, <1>5 DEF BridgeNext

LEMMA BridgeStart == ASSUME BridgeInit PROVE BridgeIInv
<1> USE DEF BridgeInit
<1>0. N \in Nat /\ Msgs \subseteq Nat \ {0}
  BY SizeOfChat DEF Msgs
<1>1. \A q \in Rows : outbox[q] = Absent /\ landed[q] = 0
  OBVIOUS
<1>2. Absent.status = "absent" /\ Absent.flight = "none" /\ Absent \in DeliveryOf({0})
  BY DEF Absent, DeliveryOf, Statuses, Texts
<1>3. \A m \in Msgs : inbox[m].status = "none" /\ inbox[m] \in InboundOf
  BY SMTT(30) DEF InboundOf
<1>4. \A w \in Workers : worker[w] = Idle /\ Idle.pc = "idle" /\ Idle \in Worker
  BY WorkerRecords DEF Idle
<1>5. BridgeTypes
  <2>1. worker \in [Workers -> Worker] /\ inbox \in [Msgs -> InboundOf]
    BY <1>3, <1>4
  <2>2. cursor \in 0..N /\ outages \in Nat /\ prunes \in Nat
    BY <1>0
  <2>3. outage \in BOOLEAN
    OBVIOUS
  <2>4. video \in [Msgs -> VideoStates]
    BY DEF VideoStates
  <2> QED
    BY <2>1, <2>2, <2>3, <2>4 DEF BridgeTypes
<1>6. RowsInv
  <2>1. outbox \in [Rows -> DeliveryOf({0})] /\ landed \in [Rows -> Nat]
    BY <1>1, <1>2
  <2> QED
    BY <1>1, <1>2, <2>1 DEF RowsInv, RowTypes, FlightInv, OnceInv
<1>7. StoredInv
  <2>1. \A m \in Msgs : ~ (m <= cursor)
    BY <1>0
  <2> QED
    BY <1>1, <1>2, <1>3, <1>4, <2>1 DEF StoredInv
<1>8. BehindInv /\ ChunkInv
  <2>1. \A q \in Rows : ~ Begun(q)
    BY <1>1, <1>2 DEF Begun
  <2> QED
    BY <2>1 DEF BehindInv, ChunkInv
<1>9. TextInv /\ ReplyInv
  BY <1>1, <1>2, <1>3, <1>4 DEF TextInv, ReplyInv, HasReplied
<1> QED
  BY <1>5, <1>6, <1>7, <1>8, <1>9 DEF BridgeIInv

LEMMA BridgeStutter == ASSUME BridgeIInv, UNCHANGED bridgeVars PROVE BridgeIInv'
<1>1. UNCHANGED <<cursor, inbox, outbox, video, worker, outage, landed, outages, prunes>>
  BY DEF bridgeVars, rows, world, bounds
<1>2. BridgeTypes'
  BY <1>1 DEF BridgeIInv, BridgeTypes
<1> QED
  BY <1>1, <1>2, RowsStay, Same, StepKeeps

LEMMA BridgeAlways == BridgeSpec => []BridgeIInv
<1>1. BridgeInit => BridgeIInv
  BY BridgeStart
<1>2. BridgeIInv /\ [BridgeNext]_bridgeVars => BridgeIInv'
  BY BridgeStep, BridgeStutter
<1> QED
  BY <1>1, <1>2, PTL DEF BridgeSpec

THEOREM RepliesCorrect == BridgeSpec => []RepliesAreSent
<1>1. BridgeIInv => RepliesAreSent
  <2> SUFFICES ASSUME BridgeIInv, prunes = 0
               PROVE  /\ \A r \in Rows : landed[r] <= 1
                      /\ \A m \in Msgs : inbox[m].status = "done" =>
                           \A i \in 1..Chunks :
                             /\ outbox[<<m, "reply", i>>].status # "absent"
                             /\ outages = 0 => outbox[<<m, "reply", i>>].text = "answer"
    BY DEF RepliesAreSent, SentOnce, DoneIsAnswered
  <2>1. \A r \in Rows : landed[r] <= 1
    BY DEF BridgeIInv, RowsInv, OnceInv
  <2>2. ASSUME NEW m \in Msgs, inbox[m].status = "done", NEW i \in 1..Chunks
        PROVE  /\ outbox[<<m, "reply", i>>].status # "absent"
               /\ outages = 0 => outbox[<<m, "reply", i>>].text = "answer"
    <3>1. <<m, "reply", i>> \in Rows /\ <<m, "reply", i>>[2] = "reply"
      BY DEF Rows, Kinds
    <3>2. outbox[<<m, "reply", i>>].status # "absent"
      BY <2>2 DEF BridgeIInv, ReplyInv, Replied
    <3> QED
      BY <3>1, <3>2 DEF BridgeIInv, TextInv
  <2> QED
    BY <2>1, <2>2
<1> QED
  BY <1>1, BridgeAlways, PTL

\* Only a request that is out arrives.
LEMMA OnlyLands ==
  ASSUME BridgeIInv, BridgeNext, NEW r \in Rows, landed'[r] > landed[r]
  PROVE  OpenRow(r)
<1>1. ASSUME NEW q \in Rows, Land(q) PROVE OpenRow(r)
  <2>1. landed \in [Rows -> Nat] /\ landed' = [landed EXCEPT ![q] = @ + 1] /\ outbox[q].flight = "out"
    BY <1>1 DEF Land, BridgeIInv, RowsInv, RowTypes
  <2>2. r = q
    BY <2>1
  <2> QED
    BY <2>1, <2>2, ARow DEF OpenRow
<1>2. ASSUME UNCHANGED landed PROVE FALSE
  <2>1. landed[r] \in Nat
    BY DEF BridgeIInv, RowsInv, RowTypes
  <2> QED
    BY <1>2, <2>1
<1>3. CASE Receive \/ Maintain \/ BridgeDies \/ LoseModels \/ FindModels
  BY SMTT(30), <1>2, <1>3 DEF Receive, Maintain, BridgeDies, LoseModels, FindModels, world
<1>4. CASE \E w \in Workers : Handle(w) \/ Fail(w) \/ Progress(w)
  BY ZenonT(40), <1>2, <1>4 DEF Handle, Fail, Progress, ClaimInbound, ReserveVideo, Ask, Answer, Settle, Reply,
                    SendMedia, FinishInbound, world
<1>5. CASE \E m \in Msgs : LapseInbound(m) \/ EndVideo(m)
  BY <1>2, <1>5 DEF LapseInbound, EndVideo, world
<1>6. CASE \E q \in Rows : Drain(q) \/ ReleaseDelivery(q) \/ Sink(q) \/ LapseDelivery(q) \/ Prune(q)
  BY <1>1, <1>2, <1>6 DEF Drain, ClaimDelivery, MarkSubmitting, FinishDelivery, RecoverDelivery,
                          ReleaseDelivery, Sink, LapseDelivery, Prune, world
<1>7. CASE \E c \in Chats : CloseWithoutReplay(c)
  BY <1>2, <1>7 DEF CloseWithoutReplay, world
<1> QED
  BY <1>3, <1>4, <1>5, <1>6, <1>7 DEF BridgeNext

LEMMA OrderOfAStep == ASSUME BridgeIInv, [BridgeNext]_bridgeVars PROVE [SentInOrder]_bridgeVars
<1> SUFFICES ASSUME BridgeNext PROVE SentInOrder
  OBVIOUS
<1>1. ASSUME NEW q \in Rows, NEW m \in Earlier(q[1]), landed[q] # 0 PROVE Closed(m)
  <2>1. landed[q] > 0
    BY <1>1 DEF BridgeIInv, RowsInv, RowTypes
  <2> QED
    BY <1>1, <2>1 DEF BridgeIInv, BehindInv, Begun
<1>2. ASSUME NEW r \in Rows, landed'[r] > landed[r], NEW q \in Rows, Before(r, q) PROVE landed[q] = 0
  <2>1. OpenRow(r)
    BY <1>2, OnlyLands
  <2>2. CASE r[1] < q[1]
    <3>1. r[1] \in Earlier(q[1])
      BY <1>2, <2>2, RowParts, SizeOfChat DEF Before, Earlier, SameChat, Msgs
    <3> QED
      BY <1>1, <2>1, <3>1 DEF Closed
  <2>3. CASE prunes = 0 /\ r[1] = q[1] /\ {r[2], q[2]} = {"reply"} /\ r[3] < q[3]
    <3>1. r \in Group(q)
      BY <2>3 DEF Group
    <3>2. outbox[r].status # "done"
      BY <2>1 DEF OpenRow
    <3>3. ~ Begun(q)
      BY <2>3, <3>1, <3>2 DEF BridgeIInv, ChunkInv
    <3> QED
      BY <3>3 DEF Begun, BridgeIInv, RowsInv, RowTypes
  <2> QED
    BY <1>2, <2>2, <2>3 DEF Before
<1>3. ASSUME NEW m \in Msgs, video[m] = "pending", NEW q \in Rows, m \in Earlier(q[1]) PROVE landed[q] = 0
  BY <1>1, <1>3 DEF Closed, OpenVideo
<1> QED
  BY <1>2, <1>3 DEF SentInOrder

THEOREM OrderCorrect == BridgeSpec => OrderKept
<1>1. BridgeIInv /\ [BridgeNext]_bridgeVars => [SentInOrder]_bridgeVars
  BY OrderOfAStep
<1> QED
  BY <1>1, BridgeAlways, PTL DEF BridgeSpec, OrderKept

(***************************************************************************)
(* The video queue, for any number of videos, pollers and faults.          *)
(***************************************************************************)

Sendings == {"none", "out", "ok", "lost"}

QueueTypes ==
  /\ queue \in [Queued -> QueueRow] /\ poller \in [Pollers -> Poller]
  /\ sending \in [Queued -> Sendings] /\ arrived \in [Queued -> Nat]
  /\ \A w \in Pollers : poller[w].pc # "idle" => poller[w].video \in Queued

\* A row d with a request s that arrived n times: nothing arrives before the last
\* boundary, nor twice, and a row is closed only behind its request.
SoundVideo(d, s, n) ==
  /\ d.live => d.status = "processing"
  /\ d.phase < 4 => s = "none"
  /\ d.phase = 5 => s = "ok"
  /\ n <= 1 /\ (s \in {"none", "out"} => n = 0) /\ (s = "ok" => n = 1)
  /\ d.status = "done" => d.phase = 5
  /\ d.status = "dead" => s # "out"

Over(d) == d.status \in {"done", "dead"}
\* A row that somebody works on, or has taken over a boundary.
Taken(d) == d.live \/ d.phase > 1

QueueIInv ==
  /\ QueueTypes
  /\ \A v \in Queued : SoundVideo(queue[v], sending[v], arrived[v])
  /\ \A v \in Queued : Taken(queue[v]) => \A u \in 1..(v - 1) : Over(queue[u])

\* What a step may do to the row of a video.
VideoMoves(v) ==
  /\ SoundVideo(queue'[v], sending'[v], arrived'[v])
  /\ Over(queue[v]) => Over(queue'[v])
  /\ Taken(queue'[v]) => Taken(queue[v]) \/ \A u \in 1..(v - 1) : ~ InQueue(u)

LEMMA QueueIsNat == QueueLength \in Nat /\ \A v \in Queued : v \in Nat /\ \A u \in 1..(v - 1) : u \in Queued
BY QueueAssumption DEF Queued

LEMMA QueueKeeps ==
  ASSUME QueueIInv, QueueTypes', \A v \in Queued : VideoMoves(v)
  PROVE  QueueIInv'
<1>1. \A v \in Queued : SoundVideo(queue'[v], sending'[v], arrived'[v])
  BY DEF VideoMoves
<1>2. ASSUME NEW v \in Queued, Taken(queue'[v]), NEW u \in 1..(v - 1) PROVE Over(queue'[u])
  <2>1. u \in Queued /\ queue[u] \in QueueRow
    BY QueueIsNat DEF QueueIInv, QueueTypes
  <2>2. Over(queue[u])
    BY <1>2, <2>1 DEF VideoMoves, QueueIInv, InQueue, Over, QueueRow
  <2> QED
    BY <2>1, <2>2 DEF VideoMoves
<1> QED
  BY <1>1, <1>2 DEF QueueIInv

\* The records of rows and pollers.
LEMMA GivenRow ==
  ASSUME NEW d \in QueueRow, NEW s \in {"pending", "done", "recovery_required", "dead"}
  PROVE  /\ Given(d, s) \in QueueRow /\ Given(d, s).status = s /\ Given(d, s).live = FALSE
         /\ Given(d, s).phase = d.phase
BY DEF QueueRow, Given

LEMMA LeasedRow ==
  ASSUME NEW d \in QueueRow, NEW w \in Pollers
  PROVE  LET e == [d EXCEPT !.status = "processing", !.owner = w, !.live = TRUE] IN
         e \in QueueRow /\ e.status = "processing" /\ e.phase = d.phase
BY DEF QueueRow

LEMMA UnleasedRow ==
  ASSUME NEW d \in QueueRow
  PROVE  LET e == [d EXCEPT !.live = FALSE] IN
         e \in QueueRow /\ e.status = d.status /\ e.phase = d.phase /\ e.live = FALSE
BY DEF QueueRow

LEMMA RowWithUrl ==
  ASSUME NEW d \in QueueRow
  PROVE  LET e == [d EXCEPT !.url = TRUE] IN
         e \in QueueRow /\ e.status = d.status /\ e.phase = d.phase /\ e.live = d.live
BY DEF QueueRow

LEMMA RowMarked ==
  ASSUME NEW d \in QueueRow
  PROVE  LET e == [d EXCEPT !.direct = TRUE] IN
         e \in QueueRow /\ e.status = d.status /\ e.phase = d.phase /\ e.live = d.live
BY DEF QueueRow

LEMMA RowOfPhase ==
  ASSUME NEW d \in QueueRow, NEW p \in 1..5
  PROVE  LET e == [d EXCEPT !.phase = p] IN
         e \in QueueRow /\ e.status = d.status /\ e.phase = p /\ e.live = d.live
BY DEF QueueRow

LEMMA PollerRecords ==
  /\ Resting \in Poller /\ Resting.pc = "idle"
  /\ \A v \in Queued : LET y == [Resting EXCEPT !.pc = "poll", !.video = v] IN y \in Poller /\ y.video = v
<1>1. Resting \in Poller /\ Resting.pc = "idle"
  BY QueueIsNat DEF Resting, Poller
<1>2. ASSUME NEW v \in Queued
      PROVE  LET y == [Resting EXCEPT !.pc = "poll", !.video = v] IN y \in Poller /\ y.video = v
  <2>1. v \in 0..QueueLength
    BY QueueIsNat DEF Queued
  <2> QED
    BY <2>1 DEF Resting, Poller
<1> QED
  BY <1>1, <1>2

PollerSteps(w) ==
  \/ \E pc \in {"tell", "fetch", "mark", "grant", "upload", "send", "wait"} : PollerGoes(w, pc)
  \/ \E outcome \in {"done", "recovery_required", "pending"} : PollerEnds(w, outcome)
  \/ poller' = [poller EXCEPT ![w] = Resting]

LEMMA PollersStay ==
  ASSUME QueueTypes, NEW w \in Pollers, poller[w].pc # "idle",
         PollerSteps(w)
  PROVE  /\ poller' \in [Pollers -> Poller]
         /\ \A x \in Pollers : poller'[x].pc # "idle" => poller'[x].video \in Queued
<1>0. poller \in [Pollers -> Poller] /\ poller[w] \in Poller /\ poller[w].video \in Queued
  BY DEF QueueTypes
<1>1. ASSUME NEW pc \in {"tell", "fetch", "mark", "grant", "upload", "send", "wait"}, PollerGoes(w, pc)
      PROVE  /\ poller' \in [Pollers -> Poller]
             /\ \A x \in Pollers : poller'[x].pc # "idle" => poller'[x].video \in Queued
  <2>1. PICK y : y = [poller[w] EXCEPT !.pc = pc]
    OBVIOUS
  <2>2. y \in Poller /\ y.video = poller[w].video
    BY <1>0, <2>1 DEF Poller
  <2>3. poller' = [poller EXCEPT ![w] = y]
    BY <1>0, <1>1, <2>1 DEF PollerGoes
  <2> QED
    BY <1>0, <2>2, <2>3 DEF QueueTypes
<1>2. ASSUME NEW outcome \in {"done", "recovery_required", "pending"}, PollerEnds(w, outcome)
      PROVE  /\ poller' \in [Pollers -> Poller]
             /\ \A x \in Pollers : poller'[x].pc # "idle" => poller'[x].video \in Queued
  <2>1. PICK y : y = [poller[w] EXCEPT !.pc = "finish", !.outcome = outcome]
    OBVIOUS
  <2>2. y \in Poller /\ y.video = poller[w].video
    BY <1>0, <2>1 DEF Poller
  <2>3. poller' = [poller EXCEPT ![w] = y]
    BY <1>0, <1>2, <2>1 DEF PollerEnds
  <2> QED
    BY <1>0, <2>2, <2>3 DEF QueueTypes
<1>3. CASE poller' = [poller EXCEPT ![w] = Resting]
  BY <1>0, <1>3, PollerRecords DEF QueueTypes
<1> QED
  BY <1>1, <1>2, <1>3 DEF PollerSteps

\* A step that leaves rows and requests alone.
LEMMA OnlyPollers ==
  ASSUME QueueIInv, UNCHANGED <<queue, sending, arrived>>, poller' \in [Pollers -> Poller],
         \A x \in Pollers : poller'[x].pc # "idle" => poller'[x].video \in Queued
  PROVE  QueueIInv'
BY DEF QueueIInv, QueueTypes

\* A step that changes one row.
LEMMA OneRow ==
  ASSUME QueueIInv, NEW v \in Queued, NEW e \in QueueRow, queue' = [queue EXCEPT ![v] = e],
         UNCHANGED arrived, sending' \in [Queued -> Sendings],
         \A u \in Queued \ {v} : sending'[u] = sending[u],
         poller' \in [Pollers -> Poller],
         \A x \in Pollers : poller'[x].pc # "idle" => poller'[x].video \in Queued,
         SoundVideo(e, sending'[v], arrived[v]),
         Over(queue[v]) => Over(e),
         Taken(e) => Taken(queue[v]) \/ \A u \in 1..(v - 1) : ~ InQueue(u)
  PROVE  QueueIInv'
<1>1. queue' \in [Queued -> QueueRow] /\ queue'[v] = e /\ \A u \in Queued \ {v} : queue'[u] = queue[u]
  BY DEF QueueIInv, QueueTypes
<1>2. QueueTypes'
  BY <1>1 DEF QueueIInv, QueueTypes
<1>3. ASSUME NEW u \in Queued PROVE VideoMoves(u)
  BY <1>1 DEF VideoMoves, QueueIInv
<1> QED
  BY <1>2, <1>3, QueueKeeps

LEMMA AVideo ==
  ASSUME QueueIInv, NEW v \in Queued
  PROVE  /\ queue[v] \in QueueRow /\ sending[v] \in Sendings /\ arrived[v] \in Nat
         /\ SoundVideo(queue[v], sending[v], arrived[v])
BY DEF QueueIInv, QueueTypes

LEMMA VideoOfPoller ==
  ASSUME QueueIInv, NEW w \in Pollers, poller[w].pc # "idle"
  PROVE  /\ poller[w] \in Poller /\ poller[w].video \in Queued
         /\ OwnsVideo(w) => queue[poller[w].video].live
BY DEF QueueIInv, QueueTypes, OwnsVideo

LEMMA ClaimVideoStep ==
  ASSUME QueueIInv, NEW w \in Pollers, NEW v \in Queued, ClaimVideo(w, v) PROVE QueueIInv'
<1>1. PICK e : e = [queue[v] EXCEPT !.status = "processing", !.owner = w, !.live = TRUE]
  OBVIOUS
<1>2. e \in QueueRow /\ e.status = "processing" /\ e.phase = queue[v].phase
  BY <1>1, AVideo, LeasedRow
<1>3. queue' = [queue EXCEPT ![v] = e]
  BY <1>1 DEF ClaimVideo, QueueIInv, QueueTypes
<1>4. /\ UNCHANGED <<arrived, sending>> /\ queue[v].status = "pending"
      /\ \A u \in 1..(v - 1) : ~ InQueue(u)
  BY DEF ClaimVideo, outside
<1>5. PICK y \in Poller : y = [Resting EXCEPT !.pc = "poll", !.video = v] /\ y.video = v
  BY PollerRecords
<1>6. /\ poller' \in [Pollers -> Poller]
      /\ \A x \in Pollers : poller'[x].pc # "idle" => poller'[x].video \in Queued
  BY <1>5 DEF ClaimVideo, QueueIInv, QueueTypes
<1>7. sending' \in [Queued -> Sendings]
  BY <1>4 DEF QueueIInv, QueueTypes
<1>8. SoundVideo(e, sending'[v], arrived[v]) /\ ~ Over(queue[v])
  BY <1>2, <1>4, AVideo DEF SoundVideo, Over
<1> QED
  BY <1>2, <1>3, <1>4, <1>6, <1>7, <1>8, OneRow

\* Steps of a poller that only thinks.
LEMMA PollerStays ==
  ASSUME QueueIInv, NEW w \in Pollers, poller[w].pc # "idle", UNCHANGED <<queue, sending, arrived>>,
         PollerSteps(w)
  PROVE  QueueIInv'
BY PollersStay, OnlyPollers DEF QueueIInv

\* Steps of a poller that change its row without closing it.
LEMMA PollerWrites ==
  ASSUME QueueIInv, NEW w \in Pollers, poller[w].pc # "idle", OwnsVideo(w), UNCHANGED arrived,
         NEW v, v = poller[w].video, NEW e \in QueueRow, queue' = [queue EXCEPT ![v] = e],
         sending' \in [Queued -> Sendings], \A u \in Queued \ {v} : sending'[u] = sending[u],
         SoundVideo(e, sending'[v], arrived[v]),
         PollerSteps(w)
  PROVE  QueueIInv'
<1>1. v \in Queued /\ queue[v].live /\ SoundVideo(queue[v], sending[v], arrived[v])
  BY VideoOfPoller, AVideo
<1>2. ~ Over(queue[v]) /\ Taken(queue[v])
  BY <1>1 DEF SoundVideo, Over, Taken
<1>3. /\ poller' \in [Pollers -> Poller]
      /\ \A x \in Pollers : poller'[x].pc # "idle" => poller'[x].video \in Queued
  BY PollersStay DEF QueueIInv
<1> QED
  BY <1>1, <1>2, <1>3, OneRow

LEMMA PollStep == ASSUME QueueIInv, NEW w \in Pollers, Poll(w) PROVE QueueIInv'
<1>1. PICK v : v = poller[w].video
  OBVIOUS
<1>2. v \in Queued /\ poller[w].pc # "idle" /\ OwnsVideo(w) /\ UNCHANGED <<sending, arrived>>
  BY <1>1, VideoOfPoller DEF Poll, PollerAt, outside
<1>3. CASE queue' = [queue EXCEPT ![v].url = TRUE] /\ PollerGoes(w, "fetch")
  <2>1. PICK e : e = [queue[v] EXCEPT !.url = TRUE]
    OBVIOUS
  <2>2. e \in QueueRow /\ e.status = queue[v].status /\ e.phase = queue[v].phase /\ e.live = queue[v].live
    BY <1>2, <2>1, AVideo, RowWithUrl
  <2>3. queue' = [queue EXCEPT ![v] = e]
    BY <1>2, <1>3, <2>1 DEF QueueIInv, QueueTypes
  <2>4. SoundVideo(e, sending'[v], arrived[v]) /\ sending' \in [Queued -> Sendings]
    BY <1>2, <2>2, AVideo DEF SoundVideo, QueueIInv, QueueTypes
  <2>5. PollerSteps(w)
    BY <1>3 DEF PollerSteps
  <2> QED
    BY <1>1, <1>2, <2>2, <2>3, <2>4, <2>5, PollerWrites
<1>4. CASE UNCHANGED queue /\ (PollerGoes(w, "tell") \/ PollerEnds(w, "pending"))
  BY <1>2, <1>4, PollerStays DEF PollerSteps
<1> QED
  BY <1>1, <1>3, <1>4 DEF Poll

LEMMA ThinkingStep ==
  ASSUME QueueIInv, NEW w \in Pollers, Fetch(w) \/ Tell(w) \/ PollerFails(w) PROVE QueueIInv'
<1>1. poller[w].pc # "idle" /\ UNCHANGED <<queue, sending, arrived>>
  BY DEF Fetch, Tell, PollerFails, PollerAt, outside
<1>2. CASE Fetch(w)
  BY <1>1, <1>2, PollerStays DEF Fetch, PollerSteps
<1>3. CASE FailsWith(w)
  <2>1. \E outcome \in {"done", "recovery_required", "pending"} : PollerEnds(w, outcome)
    BY <1>3 DEF FailsWith
  <2> QED
    BY <1>1, <2>1, PollerStays DEF PollerSteps
<1> QED
  BY <1>2, <1>3 DEF Tell, PollerFails

LEMMA MarkStep == ASSUME QueueIInv, NEW w \in Pollers, Mark(w) PROVE QueueIInv'
<1>1. PICK v : v = poller[w].video
  OBVIOUS
<1>2. v \in Queued /\ poller[w].pc # "idle" /\ OwnsVideo(w) /\ UNCHANGED <<sending, arrived>>
  BY <1>1, VideoOfPoller DEF Mark, PollerAt, outside
<1>3. queue' = [queue EXCEPT ![v].direct = TRUE] /\ PollerGoes(w, "grant")
  BY <1>1 DEF Mark
<1>4. PICK e : e = [queue[v] EXCEPT !.direct = TRUE]
  OBVIOUS
<1>5. e \in QueueRow /\ e.status = queue[v].status /\ e.phase = queue[v].phase /\ e.live = queue[v].live
  BY <1>2, <1>4, AVideo, RowMarked
<1>6. queue' = [queue EXCEPT ![v] = e]
  BY <1>2, <1>3, <1>4 DEF QueueIInv, QueueTypes
<1>7. SoundVideo(e, sending'[v], arrived[v]) /\ sending' \in [Queued -> Sendings]
  BY <1>2, <1>5, AVideo DEF SoundVideo, QueueIInv, QueueTypes
<1>8. PollerSteps(w)
  BY <1>3 DEF PollerSteps
<1> QED
  BY <1>1, <1>2, <1>5, <1>6, <1>7, <1>8, PollerWrites

LEMMA BoundaryStep ==
  ASSUME QueueIInv, NEW w \in Pollers, Grant(w) \/ UploadVideo(w) \/ SendVideo(w) PROVE QueueIInv'
<1>1. PICK v : v = poller[w].video
  OBVIOUS
<1>2. v \in Queued /\ poller[w].pc # "idle" /\ OwnsVideo(w) /\ UNCHANGED arrived
  BY <1>1, VideoOfPoller DEF Grant, UploadVideo, SendVideo, Boundary, PollerAt
<1>3. PICK p \in 2..4 : /\ queue' = [queue EXCEPT ![v].phase = p] /\ queue[v].phase = p - 1
                        /\ \E pc \in {"upload", "send", "wait"} : PollerGoes(w, pc)
                        /\ IF p = 4 THEN sending' = [sending EXCEPT ![v] = "out"] ELSE UNCHANGED sending
  <2>1. CASE Grant(w)
    BY <1>1, <2>1 DEF Grant, Boundary, Its
  <2>2. CASE UploadVideo(w)
    BY <1>1, <2>2 DEF UploadVideo, Boundary, Its
  <2>3. CASE SendVideo(w)
    BY <1>1, <2>3 DEF SendVideo, Boundary, Its
  <2> QED
    BY <2>1, <2>2, <2>3
<1>4. PICK e : e = [queue[v] EXCEPT !.phase = p]
  OBVIOUS
<1>5. e \in QueueRow /\ e.status = queue[v].status /\ e.phase = p /\ e.live = queue[v].live
  <2>1. p \in 1..5
    OBVIOUS
  <2> QED
    BY <1>2, <1>4, <2>1, AVideo, RowOfPhase
<1>6. queue' = [queue EXCEPT ![v] = e]
  BY <1>2, <1>3, <1>4 DEF QueueIInv, QueueTypes
<1>7. sending' \in [Queued -> Sendings] /\ \A u \in Queued \ {v} : sending'[u] = sending[u]
  BY <1>2, <1>3 DEF QueueIInv, QueueTypes, Sendings
<1>8. SoundVideo(e, sending'[v], arrived[v])
  <2>1. queue[v].live /\ sending \in [Queued -> Sendings] /\ SoundVideo(queue[v], sending[v], arrived[v])
    BY <1>1, <1>2, VideoOfPoller, AVideo DEF QueueIInv, QueueTypes
  <2>2. sending'[v] = IF p = 4 THEN "out" ELSE sending[v]
    BY <1>2, <1>3, <2>1
  <2> QED
    BY <1>3, <1>5, <2>1, <2>2 DEF SoundVideo
<1>9. PollerSteps(w)
  BY <1>3 DEF PollerSteps
<1> QED
  BY <1>1, <1>2, <1>5, <1>6, <1>7, <1>8, <1>9, PollerWrites

LEMMA ConfirmStep == ASSUME QueueIInv, NEW w \in Pollers, Confirm(w) PROVE QueueIInv'
<1>1. PICK v : v = poller[w].video
  OBVIOUS
<1>2. v \in Queued /\ poller[w].pc # "idle" /\ UNCHANGED <<sending, arrived>>
  BY <1>1, VideoOfPoller DEF Confirm, PollerAt, outside
<1>3. CASE FailsWith(w) /\ UNCHANGED queue
  <2>1. \E outcome \in {"done", "recovery_required", "pending"} : PollerEnds(w, outcome)
    BY <1>3 DEF FailsWith
  <2> QED
    BY <1>2, <1>3, <2>1, PollerStays DEF PollerSteps
<1>4. CASE sending[v] = "ok" /\ OwnsVideo(w) /\ queue' = [queue EXCEPT ![v].phase = 5] /\ PollerEnds(w, "done")
  <2>1. PICK e : e = [queue[v] EXCEPT !.phase = 5]
    OBVIOUS
  <2>2. e \in QueueRow /\ e.status = queue[v].status /\ e.phase = 5 /\ e.live = queue[v].live
    <3>1. 5 \in 1..5
      OBVIOUS
    <3> QED
      BY <1>2, <2>1, <3>1, AVideo, RowOfPhase
  <2>3. queue' = [queue EXCEPT ![v] = e]
    BY <1>2, <1>4, <2>1 DEF QueueIInv, QueueTypes
  <2>4. SoundVideo(e, sending'[v], arrived[v]) /\ sending' \in [Queued -> Sendings]
    BY <1>2, <1>4, <2>2, AVideo DEF SoundVideo, QueueIInv, QueueTypes
  <2>5. PollerSteps(w) /\ OwnsVideo(w)
    BY <1>4 DEF PollerSteps
  <2> QED
    BY <1>1, <1>2, <2>2, <2>3, <2>4, <2>5, PollerWrites
<1> QED
  BY <1>1, <1>3, <1>4 DEF Confirm

LEMMA FinishVideoStep == ASSUME QueueIInv, NEW w \in Pollers, FinishVideo(w) PROVE QueueIInv'
<1>1. PICK v : v = poller[w].video
  OBVIOUS
<1>2. v \in Queued /\ poller[w].pc # "idle" /\ UNCHANGED <<sending, arrived>>
      /\ poller' = [poller EXCEPT ![w] = Resting] /\ poller[w] \in Poller
  BY <1>1, VideoOfPoller DEF FinishVideo, PollerAt, outside
<1>3. CASE UNCHANGED queue
  BY <1>2, <1>3, PollerStays DEF PollerSteps
<1>4. CASE OwnsVideo(w) /\ \E e \in QueueRow : /\ queue' = [queue EXCEPT ![v] = e]
                                              /\ SoundVideo(e, sending[v], arrived[v])
  <2>1. sending' \in [Queued -> Sendings]
    BY <1>2 DEF QueueIInv, QueueTypes
  <2>2. PollerSteps(w)
    BY <1>2 DEF PollerSteps
  <2> QED
    BY <1>1, <1>2, <1>4, <2>1, <2>2, PollerWrites
<1>5. CASE OwnsVideo(w) /\ queue' = [queue EXCEPT ![v].live = FALSE]
  <2>1. PICK e : e = [queue[v] EXCEPT !.live = FALSE]
    OBVIOUS
  <2>2. e \in QueueRow /\ e.status = queue[v].status /\ e.phase = queue[v].phase /\ e.live = FALSE
    BY <1>2, <2>1, AVideo, UnleasedRow
  <2>3. queue' = [queue EXCEPT ![v] = e]
    BY <1>2, <1>5, <2>1 DEF QueueIInv, QueueTypes
  <2>4. SoundVideo(e, sending[v], arrived[v])
    BY <1>2, <2>2, AVideo DEF SoundVideo
  <2> QED
    BY <1>4, <1>5, <2>2, <2>3, <2>4
<1>6. CASE /\ OwnsVideo(w) /\ poller[w].outcome = "done" => queue[v].phase = 5
           /\ OwnsVideo(w) /\ queue' = [queue EXCEPT ![v] = Given(@, poller[w].outcome)]
  <2>1. PICK e : e = Given(queue[v], poller[w].outcome)
    OBVIOUS
  <2>2. poller[w].outcome \in {"done", "recovery_required", "pending"}
    BY <1>2 DEF Poller
  <2>3. /\ e \in QueueRow /\ e.status = poller[w].outcome /\ e.phase = queue[v].phase /\ e.live = FALSE
    <3>1. poller[w].outcome \in {"pending", "done", "recovery_required", "dead"}
      BY <2>2
    <3> QED
      BY <1>2, <2>1, <3>1, AVideo, GivenRow
  <2>4. queue' = [queue EXCEPT ![v] = e]
    BY <1>6, <2>1
  <2>5. SoundVideo(e, sending[v], arrived[v])
    BY <1>2, <1>6, <2>2, <2>3, AVideo DEF SoundVideo
  <2> QED
    BY <1>4, <1>6, <2>3, <2>4, <2>5
<1> QED
  BY <1>1, <1>3, <1>5, <1>6 DEF FinishVideo

LEMMA RecoveredIsSound ==
  ASSUME NEW d \in QueueRow, NEW s, NEW n, SoundVideo(d, s, n)
  PROVE  /\ RecoveredVideo(d) \in QueueRow /\ SoundVideo(RecoveredVideo(d), s, n)
         /\ Over(d) => Over(RecoveredVideo(d))
         /\ Taken(RecoveredVideo(d)) => Taken(d)
<1>1. ASSUME NEW t \in {"pending", "done", "recovery_required"}, d.status \in {"pending", "processing"},
             t = "done" => d.phase = 5, RecoveredVideo(d) = Given(d, t)
      PROVE  /\ RecoveredVideo(d) \in QueueRow /\ SoundVideo(RecoveredVideo(d), s, n)
             /\ Over(d) => Over(RecoveredVideo(d))
             /\ Taken(RecoveredVideo(d)) => Taken(d)
  <2>1. t \in {"pending", "done", "recovery_required", "dead"}
    OBVIOUS
  <2>2. PICK e : e = Given(d, t)
    OBVIOUS
  <2>3. e \in QueueRow /\ e.status = t /\ e.live = FALSE /\ e.phase = d.phase
    BY <2>1, <2>2, GivenRow
  <2> QED
    BY <1>1, <2>2, <2>3 DEF SoundVideo, Over, Taken
<1>2. CASE RecoveredVideo(d) = d
  BY <1>2
<1> QED
  BY <1>1, <1>2 DEF RecoveredVideo

LEMMA RecoverVideoStep == ASSUME QueueIInv, NEW v \in Queued, RecoverVideo(v) PROVE QueueIInv'
<1>1. PICK e : e = RecoveredVideo(queue[v])
  OBVIOUS
<1>2. queue' = [queue EXCEPT ![v] = e] /\ UNCHANGED <<poller, sending, arrived>>
  BY <1>1 DEF RecoverVideo, outside
<1>3. /\ e \in QueueRow /\ SoundVideo(e, sending'[v], arrived[v])
      /\ (Over(queue[v]) => Over(e)) /\ (Taken(e) => Taken(queue[v]))
  BY <1>1, <1>2, AVideo, RecoveredIsSound
<1>4. /\ sending' \in [Queued -> Sendings] /\ poller' \in [Pollers -> Poller]
      /\ \A x \in Pollers : poller'[x].pc # "idle" => poller'[x].video \in Queued
  BY <1>2 DEF QueueIInv, QueueTypes
<1> QED
  BY <1>2, <1>3, <1>4, OneRow

LEMMA LapseVideoStep == ASSUME QueueIInv, NEW v \in Queued, LapseVideo(v) PROVE QueueIInv'
<1>1. PICK e : e = [queue[v] EXCEPT !.live = FALSE]
  OBVIOUS
<1>2. e \in QueueRow /\ e.status = queue[v].status /\ e.phase = queue[v].phase /\ e.live = FALSE
  BY <1>1, AVideo, UnleasedRow
<1>3. queue' = [queue EXCEPT ![v] = e] /\ UNCHANGED <<poller, sending, arrived>>
  BY <1>1 DEF LapseVideo, outside, QueueIInv, QueueTypes
<1>4. /\ SoundVideo(e, sending'[v], arrived[v])
      /\ (Over(queue[v]) => Over(e)) /\ (Taken(e) => Taken(queue[v]))
  BY <1>2, <1>3, AVideo DEF SoundVideo, Over, Taken
<1>5. /\ sending' \in [Queued -> Sendings] /\ poller' \in [Pollers -> Poller]
      /\ \A x \in Pollers : poller'[x].pc # "idle" => poller'[x].video \in Queued
  BY <1>3 DEF QueueIInv, QueueTypes
<1> QED
  BY <1>2, <1>3, <1>4, <1>5, OneRow

LEMMA CloseVideoStep == ASSUME QueueIInv, NEW v \in Queued, CloseVideo(v) PROVE QueueIInv'
<1>1. PICK e : e = Given(queue[v], "dead")
  OBVIOUS
<1>2. e \in QueueRow /\ e.status = "dead" /\ e.phase = queue[v].phase /\ e.live = FALSE
  BY <1>1, AVideo, GivenRow
<1>3. /\ queue' = [queue EXCEPT ![v] = e] /\ UNCHANGED <<poller, sending, arrived>>
      /\ sending[v] # "out" /\ queue[v].status = "recovery_required"
  BY <1>1 DEF CloseVideo, outside
<1>4. /\ SoundVideo(e, sending'[v], arrived[v])
      /\ (Over(queue[v]) => Over(e)) /\ (Taken(e) => Taken(queue[v]))
  BY <1>2, <1>3, AVideo DEF SoundVideo, Over, Taken
<1>5. /\ sending' \in [Queued -> Sendings] /\ poller' \in [Pollers -> Poller]
      /\ \A x \in Pollers : poller'[x].pc # "idle" => poller'[x].video \in Queued
  BY <1>3 DEF QueueIInv, QueueTypes
<1> QED
  BY <1>2, <1>3, <1>4, <1>5, OneRow

LEMMA RequestStep ==
  ASSUME QueueIInv, NEW v \in Queued, VideoLands(v) \/ VideoSinks(v) PROVE QueueIInv'
<1>1. UNCHANGED <<queue, poller>> /\ sending[v] = "out"
  BY DEF VideoLands, VideoSinks
<1>2. PICK f \in {"ok", "lost"} : sending' = [sending EXCEPT ![v] = f]
  BY DEF VideoLands, VideoSinks
<1>3. \/ arrived' = [arrived EXCEPT ![v] = @ + 1]
      \/ f = "lost" /\ UNCHANGED arrived
  <2>1. CASE VideoLands(v)
    BY <2>1 DEF VideoLands
  <2>2. CASE VideoSinks(v)
    <3>1. sending' = [sending EXCEPT ![v] = "lost"] /\ UNCHANGED arrived
      BY <2>2 DEF VideoSinks
    <3>2. f = "lost"
      BY <1>2, <3>1 DEF QueueIInv, QueueTypes
    <3> QED
      BY <3>1, <3>2
  <2> QED
    BY <2>1, <2>2
<1>4. /\ sending' \in [Queued -> Sendings] /\ arrived' \in [Queued -> Nat]
      /\ sending'[v] = f /\ arrived'[v] \in {arrived[v], arrived[v] + 1}
      /\ (f = "ok" => arrived'[v] = arrived[v] + 1)
      /\ \A u \in Queued \ {v} : sending'[u] = sending[u] /\ arrived'[u] = arrived[u]
  BY <1>2, <1>3 DEF QueueIInv, QueueTypes, Sendings
<1>5. QueueTypes'
  BY <1>1, <1>4 DEF QueueIInv, QueueTypes
<1>6. SoundVideo(queue'[v], sending'[v], arrived'[v])
  BY <1>1, <1>4, AVideo DEF SoundVideo
<1>7. ASSUME NEW u \in Queued PROVE VideoMoves(u)
  <2>1. CASE u = v
    BY <1>1, <1>6, <2>1 DEF VideoMoves
  <2>2. CASE u # v
    BY <1>1, <1>4, <2>2 DEF VideoMoves, QueueIInv
  <2> QED
    BY <2>1, <2>2
<1> QED
  BY <1>5, <1>7, QueueKeeps

LEMMA QueueDiesStep == ASSUME QueueIInv, QueueDies PROVE QueueIInv'
<1>1. /\ UNCHANGED <<sending, arrived>> /\ poller' = [w \in Pollers |-> Resting]
      /\ queue' = [v \in Queued |-> RecoveredVideo(queue[v])]
  BY DEF QueueDies, outside
<1>2. ASSUME NEW v \in Queued
      PROVE  VideoMoves(v) /\ queue'[v] \in QueueRow
  BY <1>1, AVideo, RecoveredIsSound DEF VideoMoves
<1>3. QueueTypes'
  BY <1>1, <1>2, PollerRecords DEF QueueIInv, QueueTypes
<1> QED
  BY <1>2, <1>3, QueueKeeps

LEMMA QueueStep == ASSUME QueueIInv, QueueNext PROVE QueueIInv'
<1>1. CASE \E w \in Pollers : PollerWorks(w) \/ PollerFails(w)
  <2>1. PICK w \in Pollers : PollerWorks(w) \/ PollerFails(w)
    BY <1>1
  <2>2. CASE \E v \in Queued : ClaimVideo(w, v)
    BY <2>2, ClaimVideoStep
  <2>3. CASE Poll(w) \/ Fetch(w) \/ Tell(w) \/ Mark(w) \/ PollerFails(w)
    BY <2>3, PollStep, ThinkingStep, MarkStep
  <2>4. CASE Grant(w) \/ UploadVideo(w) \/ SendVideo(w) \/ Confirm(w) \/ FinishVideo(w)
    BY <2>4, BoundaryStep, ConfirmStep, FinishVideoStep
  <2> QED
    BY <2>1, <2>2, <2>3, <2>4 DEF PollerWorks
<1>2. ASSUME NEW v \in Queued, Generate(v) PROVE QueueIInv'
  <2>1. UNCHANGED <<queue, poller, sending, arrived>>
    BY <1>2 DEF Generate
  <2> QED
    BY <2>1, OnlyPollers DEF QueueIInv, QueueTypes
<1>3. CASE \E v \in Queued : \/ RecoverVideo(v) \/ LapseVideo(v) \/ VideoLands(v) \/ VideoSinks(v)
                             \/ Generate(v) \/ CloseVideo(v)
  BY <1>2, <1>3, RecoverVideoStep, LapseVideoStep, RequestStep, CloseVideoStep
<1> QED
  BY <1>1, <1>3, QueueDiesStep DEF QueueNext

LEMMA QueueStart == ASSUME QueueInit PROVE QueueIInv
<1>1. QueueTypes
  <2>1. [status |-> "pending", owner |-> NoPoller, live |-> FALSE, url |-> FALSE, direct |-> FALSE,
         phase |-> 1] \in QueueRow
    BY DEF QueueRow
  <2> QED
    BY <2>1, PollerRecords DEF QueueInit, QueueTypes, Sendings
<1>2. \A v \in Queued : SoundVideo(queue[v], sending[v], arrived[v]) /\ ~ Taken(queue[v])
  BY DEF QueueInit, SoundVideo, Taken
<1> QED
  BY <1>1, <1>2 DEF QueueIInv

LEMMA QueueAlways == QueueSpec => []QueueIInv
<1>1. QueueInit => QueueIInv
  BY QueueStart
<1>2. QueueIInv /\ [QueueNext]_queueVars => QueueIInv'
  <2>1. ASSUME QueueIInv, UNCHANGED queueVars PROVE QueueIInv'
    BY <2>1, OnlyPollers DEF queueVars, outside, QueueIInv, QueueTypes
  <2> QED
    BY <2>1, QueueStep
<1> QED
  BY <1>1, <1>2, PTL DEF QueueSpec

THEOREM VideosCorrect == QueueSpec => []VideosAreSent
<1>1. QueueIInv => VideosAreSent
  BY DEF QueueIInv, SoundVideo, VideosAreSent, VideoSentOnce, DoneHasArrived
<1> QED
  BY <1>1, QueueAlways, PTL

\* Only a request that is out arrives.
LEMMA OnlySentArrives ==
  ASSUME QueueIInv, QueueNext, NEW u \in Queued, arrived'[u] > arrived[u]
  PROVE  sending[u] = "out"
<1>1. arrived[u] \in Nat
  BY AVideo
<1>2. ~ UNCHANGED arrived
  BY <1>1
<1>3. ASSUME NEW v \in Queued, VideoLands(v) PROVE sending[u] = "out"
  <2>1. arrived \in [Queued -> Nat] /\ arrived' = [arrived EXCEPT ![v] = @ + 1] /\ sending[v] = "out"
    BY SMTT(30), <1>3 DEF VideoLands, QueueIInv, QueueTypes
  <2> QED
    BY <2>1
<1>4. CASE \E w \in Pollers : PollerWorks(w) \/ PollerFails(w)
  BY ZenonT(40), <1>2, <1>4 DEF PollerWorks, PollerFails, ClaimVideo, Poll, Fetch, Tell, Mark, Grant, UploadVideo,
                    SendVideo, Boundary, Confirm, FinishVideo, outside
<1>5. CASE \E v \in Queued : \/ RecoverVideo(v) \/ LapseVideo(v) \/ VideoLands(v) \/ VideoSinks(v)
                             \/ Generate(v) \/ CloseVideo(v)
  BY <1>2, <1>3, <1>5 DEF RecoverVideo, LapseVideo, VideoSinks, Generate, CloseVideo, outside
<1> QED
  BY <1>2, <1>4, <1>5 DEF QueueNext, QueueDies, outside

THEOREM VideoOrderCorrect == QueueSpec => VideosInOrder
<1>1. ASSUME QueueIInv, QueueNext PROVE NoneBehind
  <2> SUFFICES ASSUME NEW u \in Queued, arrived'[u] > arrived[u], NEW v \in (u + 1)..QueueLength
               PROVE  arrived[v] = 0
    BY DEF NoneBehind
  <2>1. sending[u] = "out"
    BY <1>1, OnlySentArrives
  <2>2. v \in Queued /\ u \in 1..(v - 1)
    BY QueueIsNat DEF Queued
  <2>3. ~ Over(queue[u])
    <3>1. SoundVideo(queue[u], sending[u], arrived[u])
      BY <1>1, AVideo
    <3> QED
      BY <2>1, <3>1 DEF Over, SoundVideo
  <2>4. ~ Taken(queue[v])
    BY <1>1, <2>2, <2>3 DEF QueueIInv
  <2>5. SoundVideo(queue[v], sending[v], arrived[v]) /\ queue[v] \in QueueRow
    BY <1>1, <2>2, AVideo
  <2>6. queue[v].phase < 4
    BY <2>4, <2>5 DEF Taken, QueueRow
  <2> QED
    BY <2>5, <2>6 DEF SoundVideo
<1>2. QueueIInv /\ [QueueNext]_queueVars => [NoneBehind]_queueVars
  BY <1>1
<1> QED
  BY <1>2, QueueAlways, PTL DEF QueueSpec, VideosInOrder
=============================================================================
