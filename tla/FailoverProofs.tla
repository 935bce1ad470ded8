--------------------------- MODULE FailoverProofs ---------------------------
(***************************************************************************)
(* Proofs about Failover, for any operations, runs, models and prices.     *)
(* The attempts of an operation are made in the order of their numbers by  *)
(* whichever runs it has.  A run goes on to the next number only after the *)
(* attempt before has provably reached no provider, and an attempt that is *)
(* on record is never made again; so one attempt at most is at a provider. *)
(***************************************************************************)
EXTENDS Failover, FiniteSetTheorems, TLAPS

\* The attempt was recorded, so nobody can make it any more.
Known(c) == calls[c].status # "none"

\* It was recorded and no provider has it.
Gone(c) == Known(c) /\ c \notin sent
GoneBefore(o, n) == \A k \in 1..Len(Order) : k < n => Gone(<<o, k>>)

\* Only of an attempt that is gone a verdict says that the next model may be
\* tried or that the money is to be given back.
VerdictOK(c, v) ==
  /\ v.status \in Ledger!Terminal
  /\ v.failover \/ Ledger!ProvenUnsent(v.status, v.error) => Gone(c)

RunOK(run) ==
  /\ run.n + Len(run.rest) <= Len(Order)
  /\ run.at = "next" => GoneBefore(run.op, run.n + 1)
  /\ run.at \in {"starting", "aborted", "calling", "streaming", "closing"} =>
       run.n >= 1 /\ GoneBefore(run.op, run.n)
  /\ run.at \in {"calling", "streaming", "closing"} => Known(<<run.op, run.n>>)
  /\ run.at = "closing" => VerdictOK(<<run.op, run.n>>, run.verdict)

Stray == [call: AttemptCalls, start: BOOLEAN, verdict: Verdict]
StrayOK(w) ==
  IF w.start THEN GoneBefore(w.call[1], w.call[2])
  ELSE Known(w.call) /\ VerdictOK(w.call, w.verdict)

\* Attempts are recorded in the order of their numbers, each after the one
\* before was gone, and what a provider may have is on record with its money.
SentInv ==
  /\ sent \subseteq AttemptCalls
  /\ \A o \in Operations : \A n \in 1..Len(Order) : Known(<<o, n>>) => GoneBefore(o, n)
  /\ \A c \in sent : Known(c) /\ reservations[c].state \in {"reserved", "captured",
                                                              "review_required"}

Types ==
  /\ calls \in [AttemptCalls -> Ledger!Call]
  /\ reservations \in [AttemptCalls -> Ledger!Reservation]
  /\ runs \in [Runs -> Run]
  /\ strays \subseteq Stray

IInv ==
  /\ Types /\ SentInv
  /\ \A r \in Runs : RunOK(runs[r])
  /\ \A w \in strays : StrayOK(w)

\* A step of the ledger, or none.
LedgerStep == Ledger!Next \/ UNCHANGED ledger

-----------------------------------------------------------------------------
(* The ledger. *)

LEMMA Constants ==
  /\ Operations # {} /\ Price \in Quotes /\ Price # NoQuote
  /\ Order \in Seq(Models) /\ Len(Order) \in Nat /\ Len(Order) >= 1 /\ Order[1] \in Models
BY FailoverAssumption DEF FailoverAssumption, Price

\* A row is a row, and an attempt that is on record stays on record.
LEMMA LedgerGrows ==
  ASSUME Types, LedgerStep
  PROVE  /\ calls' \in [AttemptCalls -> Ledger!Call]
         /\ reservations' \in [AttemptCalls -> Ledger!Reservation]
         /\ \A c \in AttemptCalls : Known(c) => Known(c)'
<1>1. calls \in [AttemptCalls -> Ledger!Call]
      /\ reservations \in [AttemptCalls -> Ledger!Reservation]
  BY DEF Types
<1>2. CASE UNCHANGED ledger
  BY <1>1, <1>2 DEF ledger, Known
<1>3. ASSUME NEW f \in Fundings, NEW a \in Amounts, Ledger!Fund(f, a)
      PROVE  UNCHANGED <<calls, reservations>>
  BY <1>3 DEF Ledger!Fund
<1>4. ASSUME NEW c \in AttemptCalls, NEW t \in Operations, NEW q \in Quotes \cup {NoQuote},
             Ledger!Start(c, t, q)
      PROVE  /\ calls' \in [AttemptCalls -> Ledger!Call]
             /\ reservations' \in [AttemptCalls -> Ledger!Reservation]
             /\ \A d \in AttemptCalls : Known(d) => Known(d)'
  <2>1. Ledger!Opened(t) \in Ledger!Call /\ Ledger!Opened(t).status # "none"
    BY DEF Ledger!Opened, Ledger!Call, Ledger!Errors
  <2>2. calls' = [calls EXCEPT ![c] = Ledger!Opened(t)]
    BY <1>4 DEF Ledger!Start
  <2>3. reservations' = reservations
        \/ reservations' = [reservations EXCEPT ![c] = [state |-> "reserved", quote |-> q]]
    BY <1>4 DEF Ledger!Start
  <2>4. [state |-> "reserved", quote |-> q] \in Ledger!Reservation
    BY DEF Ledger!Reservation
  <2> QED
    BY <1>1, <2>1, <2>2, <2>3, <2>4 DEF Known
<1>5. ASSUME NEW c \in AttemptCalls, NEW status \in Ledger!Terminal,
             NEW error \in Ledger!Errors, Ledger!Finish(c, status, error)
      PROVE  /\ calls' \in [AttemptCalls -> Ledger!Call]
             /\ reservations' \in [AttemptCalls -> Ledger!Reservation]
             /\ \A d \in AttemptCalls : Known(d) => Known(d)'
  <2>1. Ledger!Closed(c, status, error) \in Ledger!Call
        /\ Ledger!Closed(c, status, error).status # "none"
    BY <1>1 DEF Ledger!Closed, Ledger!Call, Ledger!Terminal
  <2>2. calls' = [calls EXCEPT ![c] = Ledger!Closed(c, status, error)]
    BY <1>5 DEF Ledger!Finish
  <2>3. reservations' = reservations
        \/ reservations' = [reservations EXCEPT ![c].state = Ledger!Outcome(status, error)]
    BY <1>5 DEF Ledger!Finish
  <2>4. Ledger!Outcome(status, error) \in {"captured", "released", "review_required"}
    BY DEF Ledger!Outcome
  <2>5. reservations' \in [AttemptCalls -> Ledger!Reservation]
    BY <1>1, <2>3, <2>4 DEF Ledger!Reservation
  <2> QED
    BY <1>1, <2>1, <2>2, <2>5 DEF Known
<1>6. ASSUME Ledger!Reconcile
      PROVE  /\ calls' \in [AttemptCalls -> Ledger!Call]
             /\ reservations' \in [AttemptCalls -> Ledger!Reservation]
             /\ \A d \in AttemptCalls : Known(d) => Known(d)'
  <2>1. \A c \in AttemptCalls :
          /\ Ledger!Closed(c, "provider_error", "stale") \in Ledger!Call
          /\ Ledger!Closed(c, "provider_error", "stale").status # "none"
    BY <1>1 DEF Ledger!Closed, Ledger!Call, Ledger!Terminal, Ledger!Errors
  <2>2. calls' = [c \in AttemptCalls |->
                    IF c \in Ledger!Stale THEN Ledger!Closed(c, "provider_error", "stale")
                    ELSE calls[c]]
    BY <1>6 DEF Ledger!Reconcile
  <2>3. \A c \in AttemptCalls :
          [reservations[c] EXCEPT !.state = "review_required"] \in Ledger!Reservation
    BY <1>1 DEF Ledger!Reservation
  <2>4. reservations' = [c \in AttemptCalls |->
          IF c \in Ledger!Stale /\ reservations[c].state = "reserved"
          THEN [reservations[c] EXCEPT !.state = "review_required"] ELSE reservations[c]]
    BY <1>6 DEF Ledger!Reconcile
  <2> QED
    BY <1>1, <2>1, <2>2, <2>3, <2>4 DEF Known
<1>7. ASSUME NEW c \in AttemptCalls, Ledger!Age(c)
      PROVE  /\ calls' \in [AttemptCalls -> Ledger!Call] /\ reservations' = reservations
             /\ \A d \in AttemptCalls : Known(d) => Known(d)'
  <2>1. calls' = [calls EXCEPT ![c].old = TRUE] /\ reservations' = reservations
    BY <1>7 DEF Ledger!Age
  <2> QED
    BY <1>1, <2>1 DEF Known, Ledger!Call
<1> QED
  BY <1>1, <1>2, <1>3, <1>4, <1>5, <1>6, <1>7 DEF LedgerStep, Ledger!Next, Known

\* What is gone stays gone while attempts that are on record are not made again.
LEMMA GoneStays ==
  ASSUME Types, LedgerStep, \A c \in sent' : c \in sent \/ (c \in AttemptCalls /\ ~ Known(c))
  PROVE  /\ \A c \in AttemptCalls : Gone(c) => Gone(c)'
         /\ \A o \in Operations : \A n \in Nat : GoneBefore(o, n) => GoneBefore(o, n)'
         /\ \A c \in AttemptCalls : \A v \in Verdict : VerdictOK(c, v) => VerdictOK(c, v)'
         /\ \A run \in Run : RunOK(run) => RunOK(run)'
         /\ \A w \in Stray : StrayOK(w) => StrayOK(w)'
<1>1. \A c \in AttemptCalls : Known(c) => Known(c)'
  BY LedgerGrows
<1>2. \A c \in AttemptCalls : Gone(c) => Gone(c)'
  BY <1>1 DEF Gone
<1>3. \A o \in Operations : \A n \in Nat : GoneBefore(o, n) => GoneBefore(o, n)'
  BY <1>2 DEF GoneBefore, AttemptCalls
<1>4. \A c \in AttemptCalls : \A v \in Verdict : VerdictOK(c, v) => VerdictOK(c, v)'
  BY <1>2 DEF VerdictOK
<1>5. \A run \in Run : RunOK(run) => RunOK(run)'
  <2>1. SUFFICES ASSUME NEW run \in Run, RunOK(run) PROVE RunOK(run)'
    OBVIOUS
  <2>2. run.op \in Operations /\ run.n \in 0..Len(Order) /\ run.verdict \in Verdict
    BY DEF Run
  <2>3. run.n \in Nat /\ run.n + 1 \in Nat /\ (run.n >= 1 => <<run.op, run.n>> \in AttemptCalls)
    BY <2>2, Constants DEF AttemptCalls
  <2>4. GoneBefore(run.op, run.n) => GoneBefore(run.op, run.n)'
    BY <1>3, <2>2, <2>3
  <2>5. GoneBefore(run.op, run.n + 1) => GoneBefore(run.op, run.n + 1)'
    BY <1>3, <2>2, <2>3
  <2>6. run.n >= 1 /\ Known(<<run.op, run.n>>) => Known(<<run.op, run.n>>)'
    BY <1>1, <2>3
  <2>7. run.n >= 1 /\ VerdictOK(<<run.op, run.n>>, run.verdict)
          => VerdictOK(<<run.op, run.n>>, run.verdict)'
    BY <1>4, <2>2, <2>3
  <2> QED
    BY <2>1, <2>4, <2>5, <2>6, <2>7 DEF RunOK
<1>6. \A w \in Stray : StrayOK(w) => StrayOK(w)'
  <2>1. SUFFICES ASSUME NEW w \in Stray, StrayOK(w) PROVE StrayOK(w)'
    OBVIOUS
  <2>2. w.call \in AttemptCalls /\ w.verdict \in Verdict /\ w.call[1] \in Operations
        /\ w.call[2] \in Nat
    BY Constants DEF Stray, AttemptCalls
  <2>3. CASE w.start
    BY <1>3, <2>1, <2>2, <2>3 DEF StrayOK
  <2>4. CASE ~ w.start
    BY <1>1, <1>4, <2>1, <2>2, <2>4 DEF StrayOK
  <2> QED
    BY <2>3, <2>4
<1> QED
  BY <1>2, <1>3, <1>4, <1>5, <1>6

\* The records of what is sent, after a step that records attempts in order.
LEMMA SentStep ==
  ASSUME IInv, LedgerStep, \A c \in sent' : c \in sent \/ (c \in AttemptCalls /\ ~ Known(c)),
         \A o \in Operations : \A n \in 1..Len(Order) :
           Known(<<o, n>>)' => Known(<<o, n>>) \/ GoneBefore(o, n),
         \A c \in sent' : Known(c)' /\ reservations'[c].state \in {"reserved", "captured",
                                                                     "review_required"}
  PROVE  SentInv'
<1>1. \A o \in Operations : \A n \in Nat : GoneBefore(o, n) => GoneBefore(o, n)'
  BY GoneStays DEF IInv
<1>2. sent' \subseteq AttemptCalls
  BY DEF IInv, SentInv
<1>3. \A o \in Operations : \A n \in 1..Len(Order) : Known(<<o, n>>)' => GoneBefore(o, n)'
  <2>1. SUFFICES ASSUME NEW o \in Operations, NEW n \in 1..Len(Order), Known(<<o, n>>)'
                 PROVE  GoneBefore(o, n)'
    OBVIOUS
  <2>2. GoneBefore(o, n)
    BY <2>1 DEF IInv, SentInv
  <2>3. n \in Nat
    BY Constants
  <2> QED
    BY <1>1, <2>2, <2>3
<1> QED
  BY <1>2, <1>3 DEF SentInv

\* A step that records nothing and sends nothing keeps what is sent on record.
LEMMA SentStays ==
  ASSUME IInv, UNCHANGED ledger, sent' \subseteq sent
  PROVE  SentInv'
<1>1. LedgerStep /\ calls' = calls /\ reservations' = reservations
  BY DEF LedgerStep, ledger
<1>2. \A c : Known(c)' <=> Known(c)
  BY <1>1 DEF Known
<1>3. \A c \in sent' : Known(c)' /\ reservations'[c].state \in {"reserved", "captured",
                                                                  "review_required"}
  BY <1>1, <1>2 DEF IInv, SentInv
<1> QED
  BY <1>1, <1>2, <1>3, SentStep

\* A step of at most one run, which may leave a write behind.
LEMMA StepInv ==
  ASSUME IInv, LedgerStep, \A c \in sent' : c \in sent \/ (c \in AttemptCalls /\ ~ Known(c)),
         SentInv',
         NEW r \in Runs, NEW run \in Run, RunOK(run)', Becomes(r, run),
         \A w \in strays' : w \in strays \/ (w \in Stray /\ StrayOK(w)')
  PROVE  IInv'
<1>1. Types'
  <2>1. runs' \in [Runs -> Run]
    BY DEF Becomes, IInv, Types
  <2> QED
    BY <2>1, LedgerGrows DEF IInv, Types
<1>2. \A q \in Run : RunOK(q) => RunOK(q)'
  BY GoneStays DEF IInv
<1>3. \A w \in Stray : StrayOK(w) => StrayOK(w)'
  BY GoneStays DEF IInv
<1>4. \A s \in Runs : RunOK(runs[s])'
  <2>1. SUFFICES ASSUME NEW s \in Runs PROVE RunOK(runs[s])'
    OBVIOUS
  <2>2. runs'[s] = IF s = r THEN run ELSE runs[s]
    BY DEF Becomes, IInv, Types
  <2>3. PICK q \in Run : q = runs'[s] /\ RunOK(q)'
    <3>1. runs[s] \in Run /\ RunOK(runs[s])
      BY DEF IInv, Types
    <3>2. PICK q \in Run : q = runs[s]
      BY <3>1
    <3>3. RunOK(q)'
      BY <1>2, <3>1, <3>2
    <3> QED
      BY <2>2, <3>2, <3>3
  <2> QED
    BY <2>3 DEF RunOK
<1>5. \A w \in strays' : StrayOK(w)'
  BY <1>3 DEF IInv, Types
<1> QED
  BY <1>1, <1>4, <1>5 DEF IInv

\* The same where the run is alone: the ledger, the providers and the writes
\* that were left behind are not touched.
LEMMA RunStep ==
  ASSUME IInv, NEW r \in Runs, NEW run \in Run, RunOK(run), Becomes(r, run),
         UNCHANGED <<ledger, strays, sent>>
  PROVE  IInv'
<1>1. LedgerStep /\ \A c \in sent' : c \in sent
  BY DEF LedgerStep
<1>2. RunOK(run)'
  BY <1>1, GoneStays DEF IInv
<1>3. SentInv'
  BY SentStays
<1> QED
  BY <1>1, <1>2, <1>3, StepInv

-----------------------------------------------------------------------------
(* The chain of models. *)

LEMMA IdleIsARun == Idle \in Run /\ RunOK(Idle) /\ Idle.at = "idle" /\ Idle.n = 0
                    /\ NoVerdict \in Verdict
<1>1. (CHOOSE o \in Operations : TRUE) \in Operations
  BY Constants
<1>2. NoVerdict \in Verdict
  BY DEF NoVerdict, Verdict, Marks, Ledger!Errors
<1>3. <<>> \in Seq(Models) /\ Len(<<>>) = 0 /\ 0 \in 0..Len(Order)
  BY Constants
<1>4. Idle \in Run /\ Idle.at = "idle" /\ Idle.n = 0 /\ Idle.rest = <<>>
  BY <1>1, <1>2, <1>3, Constants DEF Idle, Run, Places
<1>5. RunOK(Idle)
  BY <1>3, <1>4, Constants DEF RunOK
<1> QED
  BY <1>2, <1>4, <1>5

\* What the invariant says of one run.
LEMMA OneRun ==
  ASSUME IInv, NEW r \in Runs
  PROVE  /\ runs[r] \in Run /\ RunOK(runs[r])
         /\ runs[r].n \in Nat /\ runs[r].rest \in Seq(Models) /\ runs[r].model \in Models
         /\ runs[r].op \in Operations /\ runs[r].verdict \in Verdict
         /\ runs[r].stream \in BOOLEAN /\ runs[r].n \in 0..Len(Order)
BY Constants DEF IInv, Types, Run

\* A run that goes on with its attempt, or is over.
LEMMA GoesStep ==
  ASSUME IInv, NEW r \in Runs, NEW place \in Places, Goes(r, place)
  PROVE  \E run \in Run :
           /\ Becomes(r, run)
           /\ place = "idle" => run = Idle
           /\ place # "idle" => run.at = place /\ run.op = runs[r].op /\ run.n = runs[r].n
                                /\ run.rest = runs[r].rest /\ run.verdict = NoVerdict
<1>1. CASE place = "idle"
  BY <1>1, IdleIsARun DEF Goes
<1>2. CASE place # "idle"
  <2> DEFINE run == [runs[r] EXCEPT !.at = place, !.verdict = NoVerdict]
  <2>1. run \in Run /\ run.at = place /\ run.op = runs[r].op /\ run.n = runs[r].n
        /\ run.rest = runs[r].rest /\ run.verdict = NoVerdict
    BY OneRun, IdleIsARun DEF Run
  <2> QED
    BY <1>2, <2>1 DEF Goes
<1> QED
  BY <1>1, <1>2

\* A chain has the models that may be tried, each as often as it is named.
LEMMA ChainsAreChains ==
  ASSUME NEW chain \in Chains
  PROVE  chain \in Seq(Models) /\ Len(chain) = Len(Order)
<1>1. PICK place \in [1..Len(Order) -> 1..Len(Order)] :
        chain = [i \in 1..Len(Order) |-> Order[place[i]]]
  BY DEF Chains
<1>2. \A i \in 1..Len(Order) : Order[place[i]] \in Models
  BY Constants
<1> QED
  BY <1>1, <1>2, Constants

LEMMA BeginStep ==
  ASSUME IInv, NEW r \in Runs, NEW o \in Operations, NEW stream \in BOOLEAN, Begin(r, o, stream)
  PROVE  IInv'
<1>1. PICK chain \in Chains :
        Becomes(r, [Idle EXCEPT !.at = "next", !.op = o, !.stream = stream, !.rest = chain])
  BY DEF Begin
<1> DEFINE run == [Idle EXCEPT !.at = "next", !.op = o, !.stream = stream, !.rest = chain]
<1>2. run \in Run /\ run.at = "next" /\ run.n = 0 /\ run.rest = chain
  BY IdleIsARun, ChainsAreChains DEF Run, Places
<1>3. GoneBefore(run.op, 0 + 1)
  BY Constants DEF GoneBefore
<1>4. RunOK(run)
  <2>1. run.n + Len(run.rest) <= Len(Order)
    BY <1>2, ChainsAreChains, Constants
  <2> QED
    BY <1>2, <1>3, <2>1 DEF RunOK
<1>5. UNCHANGED <<ledger, strays, sent>>
  BY DEF Begin
<1> HIDE DEF run
<1> QED
  BY <1>1, <1>2, <1>4, <1>5, RunStep DEF run

LEMMA SkipStep == ASSUME IInv, NEW r \in Runs, Skip(r) PROVE IInv'
<1> DEFINE run == [runs[r] EXCEPT !.rest = Tail(@)]
<1>1. /\ runs[r] \in Run /\ RunOK(runs[r]) /\ runs[r].at = "next"
      /\ runs[r].rest \in Seq(Models) /\ runs[r].rest # <<>> /\ runs[r].n \in Nat
  BY OneRun DEF Skip, At
<1>2. Tail(runs[r].rest) \in Seq(Models) /\ Len(Tail(runs[r].rest)) = Len(runs[r].rest) - 1
      /\ Len(runs[r].rest) \in Nat
  BY <1>1
<1>3. run \in Run /\ run.at = "next" /\ run.n = runs[r].n /\ run.op = runs[r].op
      /\ run.rest = Tail(runs[r].rest)
  BY <1>1, <1>2 DEF Run
<1>4. RunOK(run)
  <2>1. run.n + Len(run.rest) <= Len(Order)
    BY <1>1, <1>2, <1>3, Constants DEF RunOK
  <2> QED
    BY <1>1, <1>3, <2>1 DEF RunOK
<1>5. UNCHANGED <<ledger, strays, sent>> /\ Becomes(r, run)
  BY DEF Skip
<1> HIDE DEF run
<1> QED
  BY <1>3, <1>4, <1>5, RunStep

LEMMA PickStep == ASSUME IInv, NEW r \in Runs, Pick(r) PROVE IInv'
<1> DEFINE old == runs[r]
           run == [old EXCEPT !.at = "starting", !.n = @ + 1, !.model = Head(old.rest),
                              !.rest = Tail(old.rest)]
<1>1. /\ old \in Run /\ RunOK(old) /\ old.at = "next"
      /\ old.rest \in Seq(Models) /\ old.rest # <<>> /\ old.n \in Nat
  BY OneRun DEF Pick, At
<1>2. Tail(old.rest) \in Seq(Models) /\ Len(Tail(old.rest)) = Len(old.rest) - 1
      /\ Len(old.rest) \in Nat /\ Head(old.rest) \in Models
  BY <1>1
<1>3. old.n + Len(old.rest) <= Len(Order) /\ GoneBefore(old.op, old.n + 1)
  BY <1>1 DEF RunOK
<1>4. Len(old.rest) >= 1 /\ old.n + 1 \in 0..Len(Order)
  BY <1>1, <1>2, <1>3, Constants
<1>5. run \in Run /\ run.at = "starting" /\ run.n = old.n + 1 /\ run.op = old.op
      /\ run.rest = Tail(old.rest)
  BY <1>1, <1>2, <1>4 DEF Run, Places
<1>6. RunOK(run)
  <2>1. run.n + Len(run.rest) <= Len(Order) /\ run.n >= 1
    BY <1>1, <1>2, <1>3, <1>5, Constants
  <2> QED
    BY <1>3, <1>5, <2>1 DEF RunOK
<1>7. UNCHANGED <<ledger, strays, sent>> /\ Becomes(r, run)
  BY DEF Pick
<1> HIDE DEF run
<1> QED
  BY <1>5, <1>6, <1>7, RunStep

\* A run that ends touches nothing else.
LEMMA EndStep ==
  ASSUME IInv, NEW r \in Runs, Goes(r, "idle"), UNCHANGED <<ledger, strays, sent>>
  PROVE  IInv'
<1>1. Becomes(r, Idle)
  BY DEF Goes
<1> QED
  BY <1>1, IdleIsARun, RunStep

LEMMA GiveUpStep == ASSUME IInv, NEW r \in Runs, GiveUp(r) PROVE IInv'
BY EndStep DEF GiveUp

LEMMA StartRefusedStep == ASSUME IInv, NEW r \in Runs, StartRefused(r) PROVE IInv'
BY EndStep DEF StartRefused

LEMMA CancelStartStep == ASSUME IInv, NEW r \in Runs, CancelStart(r) PROVE IInv'
<1>1. runs[r].at = "starting" /\ RunOK(runs[r]) /\ runs[r] \in Run
  BY OneRun DEF CancelStart, At
<1>2. PICK run \in Run :
        Becomes(r, run) /\ run.at = "aborted" /\ run.op = runs[r].op /\ run.n = runs[r].n
        /\ run.rest = runs[r].rest
  BY GoesStep DEF CancelStart, Places
<1>3. RunOK(run)
  BY <1>1, <1>2 DEF RunOK
<1>4. UNCHANGED <<ledger, strays, sent>>
  BY DEF CancelStart
<1> QED
  BY <1>2, <1>3, <1>4, RunStep

-----------------------------------------------------------------------------
(* The start of an attempt. *)

\* The attempt a run is at.
LEMMA AttemptOfRun ==
  ASSUME IInv, NEW r \in Runs,
         runs[r].at \in {"starting", "aborted", "calling", "streaming", "closing"}
  PROVE  \E o \in Operations, n \in 1..Len(Order) : \E c \in AttemptCalls :
           /\ o = runs[r].op /\ n = runs[r].n /\ c = C(r) /\ c = <<o, n>>
           /\ c[1] = o /\ c[2] = n /\ GoneBefore(o, n)
<1>0. RunOK(runs[r]) /\ runs[r].op \in Operations /\ runs[r].n \in 0..Len(Order)
      /\ Len(Order) \in Nat
  BY OneRun, Constants
<1>1. runs[r].op \in Operations /\ runs[r].n \in 1..Len(Order)
      /\ GoneBefore(runs[r].op, runs[r].n)
  BY <1>0 DEF RunOK
<1>2. C(r) \in AttemptCalls /\ C(r) = <<runs[r].op, runs[r].n>>
      /\ C(r)[1] = runs[r].op /\ C(r)[2] = runs[r].n
  BY <1>1 DEF C, AttemptCalls
<1>3. PICK o \in Operations : o = runs[r].op
  BY <1>1
<1>4. PICK n \in 1..Len(Order) : n = runs[r].n
  BY <1>1
<1>5. PICK c \in AttemptCalls : c = C(r)
  BY <1>2
<1>6. c = <<o, n>> /\ c[1] = o /\ c[2] = n /\ GoneBefore(o, n)
  BY <1>1, <1>2, <1>3, <1>4, <1>5
<1> QED
  BY <1>3, <1>4, <1>5, <1>6

\* An attempt that is started was not on record, is then, and has its money.
LEMMA StartLedger ==
  ASSUME Types, NEW c \in AttemptCalls, NEW t \in Operations, Ledger!Start(c, t, Price)
  PROVE  /\ LedgerStep /\ ~ Known(c) /\ Known(c)'
         /\ \A d \in AttemptCalls : d # c => (Known(d)' <=> Known(d))
                                             /\ reservations'[d] = reservations[d]
         /\ reservations'[c].state = "reserved"
<1>1. Price \in Quotes \cup {NoQuote} /\ Price # NoQuote
  BY Constants
<1>2. LedgerStep
  BY <1>1 DEF LedgerStep, Ledger!Next
<1>3. /\ calls[c] = Ledger!NoCall /\ calls' = [calls EXCEPT ![c] = Ledger!Opened(t)]
      /\ reservations' = [reservations EXCEPT ![c] = [state |-> "reserved", quote |-> Price]]
  BY <1>1 DEF Ledger!Start
<1>4. calls[c].status = "none" /\ Ledger!Opened(t).status = "started"
  BY <1>3 DEF Ledger!NoCall, Ledger!Opened
<1> QED
  BY <1>2, <1>3, <1>4 DEF Types, Known

\* What is sent after the start of an attempt whose predecessors are gone.
LEMMA StartSends ==
  ASSUME IInv, NEW c \in AttemptCalls, NEW t \in Operations, Ledger!Start(c, t, Price),
         GoneBefore(c[1], c[2]), sent' = sent \/ sent' = sent \cup {c}
  PROVE  /\ SentInv' /\ LedgerStep /\ Known(c)'
         /\ \A d \in sent' : d \in sent \/ (d \in AttemptCalls /\ ~ Known(d))
<1>1. /\ LedgerStep /\ ~ Known(c) /\ Known(c)'
      /\ \A d \in AttemptCalls : d # c => (Known(d)' <=> Known(d))
                                          /\ reservations'[d] = reservations[d]
      /\ reservations'[c].state = "reserved"
  BY StartLedger DEF IInv
<1>2. \A d \in sent' : d \in sent \/ (d \in AttemptCalls /\ ~ Known(d))
  BY <1>1
<1>3. \A o \in Operations : \A n \in 1..Len(Order) :
        Known(<<o, n>>)' => Known(<<o, n>>) \/ GoneBefore(o, n)
  <2>1. SUFFICES ASSUME NEW o \in Operations, NEW n \in 1..Len(Order), Known(<<o, n>>)',
                        ~ Known(<<o, n>>)
                 PROVE  GoneBefore(o, n)
    OBVIOUS
  <2>2. <<o, n>> = c
    BY <1>1, <2>1 DEF AttemptCalls
  <2> QED
    BY <2>2
<1>4. \A d \in sent' : Known(d)' /\ reservations'[d].state \in {"reserved", "captured",
                                                                  "review_required"}
  BY <1>1 DEF IInv, SentInv
<1>5. SentInv'
  BY <1>1, <1>2, <1>3, <1>4, SentStep
<1> QED
  BY <1>1, <1>2, <1>5

LEMMA StartedStep == ASSUME IInv, NEW r \in Runs, Started(r) PROVE IInv'
<1>1. runs[r].at = "starting" /\ RunOK(runs[r]) /\ runs[r] \in Run
  BY OneRun DEF Started, At
<1>2. PICK o \in Operations, n \in 1..Len(Order) : \E c \in AttemptCalls :
        /\ o = runs[r].op /\ n = runs[r].n /\ c = C(r) /\ c = <<o, n>>
        /\ c[1] = o /\ c[2] = n /\ GoneBefore(o, n)
  BY <1>1, AttemptOfRun
<1>3. PICK c \in AttemptCalls :
        /\ o = runs[r].op /\ n = runs[r].n /\ c = C(r) /\ c = <<o, n>>
        /\ c[1] = o /\ c[2] = n /\ GoneBefore(o, n)
  BY <1>2
<1>4. Ledger!Start(c, o, Price) /\ sent' = sent \cup {c} /\ strays' = strays
  BY <1>3 DEF Started
<1>5. /\ SentInv' /\ LedgerStep /\ Known(c)'
      /\ \A d \in sent' : d \in sent \/ (d \in AttemptCalls /\ ~ Known(d))
  BY <1>3, <1>4, StartSends
<1>6. PICK run \in Run :
        Becomes(r, run) /\ run.at = "calling" /\ run.op = o /\ run.n = n
        /\ run.rest = runs[r].rest
  BY <1>3, GoesStep DEF Started, Places
<1>7. GoneBefore(o, n)' /\ n \in Nat /\ n >= 1
  BY <1>3, <1>5, GoneStays, Constants DEF IInv
<1>8. RunOK(run)'
  BY <1>1, <1>3, <1>5, <1>6, <1>7 DEF RunOK
<1> QED
  BY <1>4, <1>5, <1>6, <1>8, StepInv

LEMMA LeaveStartStep == ASSUME IInv, NEW r \in Runs, LeaveStart(r) PROVE IInv'
<1>1. runs[r].at = "aborted" /\ Becomes(r, Idle) /\ UNCHANGED <<ledger, sent>>
  BY DEF LeaveStart, At, Goes
<1>2. PICK o \in Operations, n \in 1..Len(Order) : \E c \in AttemptCalls :
        /\ o = runs[r].op /\ n = runs[r].n /\ c = C(r) /\ c = <<o, n>>
        /\ c[1] = o /\ c[2] = n /\ GoneBefore(o, n)
  BY <1>1, AttemptOfRun
<1>3. PICK c \in AttemptCalls :
        /\ o = runs[r].op /\ n = runs[r].n /\ c = C(r) /\ c = <<o, n>>
        /\ c[1] = o /\ c[2] = n /\ GoneBefore(o, n)
  BY <1>2
<1> DEFINE w == [call |-> c, start |-> TRUE, verdict |-> NoVerdict]
<1>4. strays' = strays \cup {w}
  BY <1>3 DEF LeaveStart
<1>5. w \in Stray /\ w.start = TRUE /\ w.call = c
  BY IdleIsARun DEF Stray
<1>6. LedgerStep /\ SentInv' /\ \A d \in sent' : d \in sent
  BY <1>1, SentStays DEF LedgerStep
<1>7. GoneBefore(o, n)' /\ RunOK(Idle)'
  BY <1>3, <1>6, GoneStays, IdleIsARun, Constants DEF IInv
<1> HIDE DEF w
<1>8. StrayOK(w)'
  BY <1>3, <1>5, <1>7 DEF StrayOK
<1> QED
  BY <1>1, <1>4, <1>5, <1>6, <1>7, <1>8, IdleIsARun, StepInv

-----------------------------------------------------------------------------
(* The end of an attempt. *)

\* A run that is about to close its attempt.
LEMMA ClosingRun ==
  ASSUME IInv, NEW r \in Runs, NEW o \in Operations, NEW n \in 1..Len(Order),
         o = runs[r].op, n = runs[r].n,
         NEW v \in Verdict, VerdictOK(<<o, n>>, v)', GoneBefore(o, n)', Known(<<o, n>>)',
         Becomes(r, [runs[r] EXCEPT !.at = "closing", !.verdict = v])
  PROVE  \E run \in Run : Becomes(r, run) /\ RunOK(run)'
<1> DEFINE run == [runs[r] EXCEPT !.at = "closing", !.verdict = v]
<1>1. runs[r] \in Run /\ RunOK(runs[r])
  BY OneRun
<1>2. PICK q \in Run : q = [runs[r] EXCEPT !.at = "closing", !.verdict = v]
  BY <1>1 DEF Run, Places
<1>3. q.at = "closing" /\ q.op = o /\ q.n = n /\ q.rest = runs[r].rest /\ q.verdict = v
  BY <1>1, <1>2 DEF Run
<1>4. n >= 1 /\ q.n + Len(q.rest) <= Len(Order)
  BY <1>1, <1>3, Constants DEF RunOK
<1>5. RunOK(q)'
  BY <1>3, <1>4 DEF RunOK
<1> QED
  BY <1>2, <1>5

\* A verdict that neither goes on nor gives back is always right.
LEMMA HarmlessVerdict ==
  ASSUME NEW c, NEW v \in Verdict, v.status \in Ledger!Terminal, ~ v.failover,
         v.status = "provider_error" => v.error # "connect",
         v.status = "cancelled" => v.error # "before_invocation"
  PROVE  VerdictOK(c, v)
BY DEF VerdictOK, Ledger!ProvenUnsent

\* A run at its provider ends with such a verdict, and nothing else happens.
LEMMA ClosingStep ==
  ASSUME IInv, NEW r \in Runs, runs[r].at \in {"calling", "streaming", "closing"},
         NEW v \in Verdict,
         v.status \in Ledger!Terminal, ~ v.failover,
         Ledger!ProvenUnsent(v.status, v.error) => Gone(C(r)),
         Becomes(r, [runs[r] EXCEPT !.at = "closing", !.verdict = v]),
         UNCHANGED <<ledger, strays, sent>>
  PROVE  IInv'
<1>1. PICK o \in Operations, n \in 1..Len(Order) : \E c \in AttemptCalls :
        /\ o = runs[r].op /\ n = runs[r].n /\ c = C(r) /\ c = <<o, n>>
        /\ c[1] = o /\ c[2] = n /\ GoneBefore(o, n)
  BY AttemptOfRun
<1>2. PICK c \in AttemptCalls : c = C(r) /\ c = <<o, n>>
  BY <1>1
<1>3. Known(c)
  BY <1>1, <1>2, OneRun DEF RunOK
<1>4. VerdictOK(c, v)
  BY <1>2 DEF VerdictOK
<1>5. LedgerStep /\ SentInv' /\ \A d \in sent' : d \in sent
  BY SentStays DEF LedgerStep
<1>6. VerdictOK(c, v)' /\ GoneBefore(o, n)'
  BY <1>1, <1>4, <1>5, GoneStays, Constants DEF IInv
<1>7. Known(c)'
  BY <1>3, <1>5, LedgerGrows DEF IInv
<1>8. PICK run \in Run : Becomes(r, run) /\ RunOK(run)'
  BY <1>1, <1>2, <1>6, <1>7, ClosingRun
<1> QED
  BY <1>5, <1>8, StepInv

LEMMA VerdictOf ==
  ASSUME NEW status \in Ledger!Terminal, NEW error \in Ledger!Errors \ {"stale"},
         NEW mark \in Marks
  PROVE  \E v \in Verdict :
           /\ v = [status |-> status, error |-> error, failover |-> FALSE, mark |-> mark]
           /\ v.status = status /\ v.error = error /\ ~ v.failover
<1> DEFINE v == [status |-> status, error |-> error, failover |-> FALSE, mark |-> mark]
<1>1. v \in Verdict /\ v.status = status /\ v.error = error /\ ~ v.failover
  BY DEF Verdict
<1> QED
  BY <1>1

\* An attempt that was made ends, but not as one that was not.
LEMMA MadeStep ==
  ASSUME IInv, NEW r \in Runs, runs[r].at \in {"calling", "streaming", "closing"},
         NEW status \in Ledger!Terminal, NEW error \in {"none", "unknown", "connect"},
         NEW mark \in Marks,
         error = "connect" => status = "stream_interrupted",
         Closing(r, status, error, FALSE, mark), UNCHANGED <<ledger, strays, sent>>
  PROVE  IInv'
<1>1. error \in Ledger!Errors \ {"stale"}
  BY DEF Ledger!Errors
<1>2. PICK v \in Verdict :
        /\ v = [status |-> status, error |-> error, failover |-> FALSE, mark |-> mark]
        /\ v.status = status /\ v.error = error /\ ~ v.failover
  BY <1>1, VerdictOf
<1>3. ~ Ledger!ProvenUnsent(v.status, v.error)
  BY <1>2 DEF Ledger!ProvenUnsent
<1>4. Becomes(r, [runs[r] EXCEPT !.at = "closing", !.verdict = v])
  BY <1>2 DEF Closing
<1> QED
  BY <1>2, <1>3, <1>4, ClosingStep

LEMMA AnsweredStep == ASSUME IInv, NEW r \in Runs, Answered(r) PROVE IInv'
<1>1. runs[r].at = "calling" /\ Closing(r, "success", "none", FALSE, "ok")
      /\ UNCHANGED <<ledger, strays, sent>>
  BY DEF Answered, At
<1>2. "success" \in Ledger!Terminal /\ "ok" \in Marks
  BY DEF Ledger!Terminal, Marks
<1> QED
  BY <1>1, <1>2, MadeStep

LEMMA LostStep == ASSUME IInv, NEW r \in Runs, Lost(r) PROVE IInv'
<1>1. runs[r].at = "calling" /\ UNCHANGED <<ledger, strays, sent>>
  BY DEF Lost, At
<1>2. \E status \in {"provider_error", "timeout", "empty_stream"},
        mark \in {"error", "quota", "twice", "quota and error"} :
        Closing(r, status, "unknown", FALSE, mark)
  BY Zenon DEF Lost
<1>3. PICK status \in {"provider_error", "timeout", "empty_stream"},
        mark \in {"error", "quota", "twice", "quota and error"} :
        Closing(r, status, "unknown", FALSE, mark)
  BY <1>2
<1>4. status \in Ledger!Terminal /\ mark \in Marks
  BY DEF Ledger!Terminal, Marks
<1> QED
  BY <1>1, <1>3, <1>4, MadeStep

LEMMA CancelCallStep == ASSUME IInv, NEW r \in Runs, CancelCall(r) PROVE IInv'
<1>1. runs[r].at \in {"calling", "streaming"} /\ Closing(r, "cancelled", "unknown", FALSE, "none")
      /\ UNCHANGED <<ledger, strays, sent>>
  BY DEF CancelCall, At
<1>2. "cancelled" \in Ledger!Terminal /\ "none" \in Marks
  BY DEF Ledger!Terminal, Marks
<1> QED
  BY <1>1, <1>2, MadeStep

LEMMA StreamEndsStep == ASSUME IInv, NEW r \in Runs, StreamEnds(r) PROVE IInv'
<1>1. runs[r].at = "streaming" /\ Closing(r, "success", "none", FALSE, "none")
      /\ UNCHANGED <<ledger, strays, sent>>
  BY DEF StreamEnds, At
<1>2. "success" \in Ledger!Terminal /\ "none" \in Marks
  BY DEF Ledger!Terminal, Marks
<1> QED
  BY <1>1, <1>2, MadeStep

LEMMA StreamFailsStep == ASSUME IInv, NEW r \in Runs, StreamFails(r) PROVE IInv'
<1>1. runs[r].at = "streaming" /\ UNCHANGED <<ledger, strays, sent>>
  BY DEF StreamFails, At
<1>2. CASE \E mark \in {"none", "error"} : Closing(r, "timeout", "unknown", FALSE, mark)
  <2>1. PICK mark \in {"none", "error"} : Closing(r, "timeout", "unknown", FALSE, mark)
    BY <1>2
  <2>2. "timeout" \in Ledger!Terminal /\ mark \in Marks
    BY DEF Ledger!Terminal, Marks
  <2> QED
    BY <1>1, <2>1, <2>2, MadeStep
<1>3. CASE \E mark \in {"error", "quota"}, error \in {"unknown", "connect"} :
             Closing(r, "stream_interrupted", error, FALSE, mark)
  <2>1. PICK mark \in {"error", "quota"}, error \in {"unknown", "connect"} :
          Closing(r, "stream_interrupted", error, FALSE, mark)
    BY <1>3
  <2>2. "stream_interrupted" \in Ledger!Terminal /\ mark \in Marks
    BY DEF Ledger!Terminal, Marks
  <2> QED
    BY <1>1, <2>1, <2>2, MadeStep
<1> QED
  BY <1>2, <1>3 DEF StreamFails

LEMMA CancelFinishStep == ASSUME IInv, NEW r \in Runs, CancelFinish(r) PROVE IInv'
<1> DEFINE w == runs[r].verdict
<1>1. /\ runs[r].at = "closing" /\ RunOK(runs[r]) /\ w \in Verdict
      /\ Closing(r, w.status, w.error, FALSE, "none") /\ UNCHANGED <<ledger, strays, sent>>
  BY OneRun DEF CancelFinish, At
<1>2. VerdictOK(C(r), w) /\ "none" \in Marks /\ w.error \in Ledger!Errors \ {"stale"}
  BY <1>1 DEF RunOK, C, Marks, Verdict
<1>3. w.status \in Ledger!Terminal
      /\ (Ledger!ProvenUnsent(w.status, w.error) => Gone(C(r)))
  BY <1>2 DEF VerdictOK
<1>4. PICK v \in Verdict :
        /\ v = [status |-> w.status, error |-> w.error, failover |-> FALSE, mark |-> "none"]
        /\ v.status = w.status /\ v.error = w.error /\ ~ v.failover
  BY <1>2, <1>3, VerdictOf
<1>5. Becomes(r, [runs[r] EXCEPT !.at = "closing", !.verdict = v])
  BY <1>1, <1>4 DEF Closing
<1>6. Ledger!ProvenUnsent(v.status, v.error) => Gone(C(r))
  BY <1>3, <1>4
<1> HIDE DEF w
<1> QED
  BY <1>1, <1>3, <1>4, <1>5, <1>6, ClosingStep

LEMMA FinishFailsStep == ASSUME IInv, NEW r \in Runs, FinishFails(r) PROVE IInv'
<1>1. runs[r].at = "closing" /\ UNCHANGED <<ledger, strays, sent>>
  BY DEF FinishFails, At
<1>2. CASE Closing(r, "cancelled", "unknown", FALSE, "none")
  <2>1. "cancelled" \in Ledger!Terminal /\ "none" \in Marks
    BY DEF Ledger!Terminal, Marks
  <2> QED
    BY <1>1, <1>2, <2>1, MadeStep
<1>3. CASE Goes(r, "idle")
  BY <1>1, <1>3, EndStep
<1>4. ASSUME NEW status \in {"provider_error", "stream_interrupted"},
             Closing(r, status, "unknown", FALSE, "error")
      PROVE  IInv'
  <2>1. status \in Ledger!Terminal /\ "error" \in Marks
    BY DEF Ledger!Terminal, Marks
  <2> QED
    BY <1>1, <1>4, <2>1, MadeStep
<1> QED
  BY <1>2, <1>3, <1>4 DEF FinishFails

\* No request has left, so the next model may be tried and the money given back.
LEMMA UnconnectedStep == ASSUME IInv, NEW r \in Runs, Unconnected(r) PROVE IInv'
<1>1. runs[r].at = "calling" /\ UNCHANGED <<ledger, strays>> /\ RunOK(runs[r])
  BY OneRun DEF Unconnected, At
<1>2. PICK o \in Operations, n \in 1..Len(Order) : \E c \in AttemptCalls :
        /\ o = runs[r].op /\ n = runs[r].n /\ c = C(r) /\ c = <<o, n>>
        /\ c[1] = o /\ c[2] = n /\ GoneBefore(o, n)
  BY <1>1, AttemptOfRun
<1>3. PICK c \in AttemptCalls : c = C(r) /\ c = <<o, n>>
  BY <1>2
<1>4. PICK mark \in {"error", "quota"} : Closing(r, "provider_error", "connect", TRUE, mark)
  BY DEF Unconnected
<1>5. sent' = sent \ {c} /\ Known(c)
  BY <1>1, <1>2, <1>3 DEF Unconnected, RunOK
<1>6. LedgerStep /\ SentInv' /\ \A d \in sent' : d \in sent
  BY <1>1, <1>5, SentStays DEF LedgerStep
<1>7. Known(c)' /\ GoneBefore(o, n)'
  BY <1>2, <1>5, <1>6, LedgerGrows, GoneStays, Constants DEF IInv
<1>8. Gone(c)'
  BY <1>5, <1>7 DEF Gone
<1> DEFINE v == [status |-> "provider_error", error |-> "connect", failover |-> TRUE,
                 mark |-> mark]
<1>9. v \in Verdict /\ v.status = "provider_error"
  BY DEF Verdict, Marks, Ledger!Terminal, Ledger!Errors
<1>10. Becomes(r, [runs[r] EXCEPT !.at = "closing", !.verdict = v])
  BY <1>4 DEF Closing
<1>11. "provider_error" \in Ledger!Terminal
  BY DEF Ledger!Terminal
<1> HIDE DEF v
<1>12. VerdictOK(<<o, n>>, v)'
  BY <1>3, <1>8, <1>9, <1>11 DEF VerdictOK
<1>13. Known(<<o, n>>)'
  BY <1>3, <1>7
<1>14. PICK run \in Run : Becomes(r, run) /\ RunOK(run)'
  BY <1>2, <1>7, <1>9, <1>10, <1>12, <1>13, ClosingRun
<1> QED
  BY <1>1, <1>6, <1>14, StepInv

LEMMA FirstChunkStep == ASSUME IInv, NEW r \in Runs, FirstChunk(r) PROVE IInv'
<1>1. runs[r].at = "calling" /\ RunOK(runs[r]) /\ runs[r] \in Run
      /\ UNCHANGED <<ledger, strays, sent>>
  BY OneRun DEF FirstChunk, At
<1>2. PICK run \in Run :
        Becomes(r, run) /\ run.at = "streaming" /\ run.op = runs[r].op /\ run.n = runs[r].n
        /\ run.rest = runs[r].rest
  BY GoesStep DEF FirstChunk, Places
<1>3. RunOK(run)
  BY <1>1, <1>2 DEF RunOK
<1> QED
  BY <1>1, <1>2, <1>3, RunStep

\* The start was recorded and its coroutine was cancelled before the call.
LEMMA StartedAbortedStep == ASSUME IInv, NEW r \in Runs, StartedAborted(r) PROVE IInv'
<1>1. runs[r].at = "aborted" /\ sent' = sent /\ strays' = strays
  BY DEF StartedAborted, At
<1>2. PICK o \in Operations, n \in 1..Len(Order) : \E c \in AttemptCalls :
        /\ o = runs[r].op /\ n = runs[r].n /\ c = C(r) /\ c = <<o, n>>
        /\ c[1] = o /\ c[2] = n /\ GoneBefore(o, n)
  BY <1>1, AttemptOfRun
<1>3. PICK c \in AttemptCalls :
        /\ o = runs[r].op /\ n = runs[r].n /\ c = C(r) /\ c = <<o, n>>
        /\ c[1] = o /\ c[2] = n /\ GoneBefore(o, n)
  BY <1>2
<1>4. Ledger!Start(c, o, Price)
  BY <1>3 DEF StartedAborted
<1>5. /\ SentInv' /\ LedgerStep /\ Known(c)'
      /\ \A d \in sent' : d \in sent \/ (d \in AttemptCalls /\ ~ Known(d))
  BY <1>1, <1>3, <1>4, StartSends
<1>6. ~ Known(c)
  BY <1>4, StartLedger DEF IInv
<1>7. Gone(c)' /\ GoneBefore(o, n)'
  <2>1. c \notin sent'
    BY <1>1, <1>6 DEF IInv, SentInv
  <2>2. GoneBefore(o, n)'
    BY <1>3, <1>5, GoneStays, Constants DEF IInv
  <2> QED
    BY <1>5, <2>1, <2>2 DEF Gone
<1>8. "cancelled" \in Ledger!Terminal /\ "none" \in Marks
      /\ "before_invocation" \in Ledger!Errors \ {"stale"}
  BY DEF Ledger!Terminal, Marks, Ledger!Errors
<1>9. PICK v \in Verdict :
        /\ v = [status |-> "cancelled", error |-> "before_invocation", failover |-> FALSE,
                mark |-> "none"]
        /\ v.status = "cancelled" /\ v.error = "before_invocation" /\ ~ v.failover
  BY <1>8, VerdictOf
<1>10. Becomes(r, [runs[r] EXCEPT !.at = "closing", !.verdict = v])
  BY <1>9 DEF StartedAborted, Closing
<1>11. VerdictOK(<<o, n>>, v)'
  BY <1>3, <1>7, <1>8, <1>9 DEF VerdictOK
<1>12. Known(<<o, n>>)'
  BY <1>3, <1>5
<1>13. PICK run \in Run : Becomes(r, run) /\ RunOK(run)'
  BY <1>3, <1>7, <1>10, <1>11, <1>12, ClosingRun
<1> QED
  BY <1>1, <1>5, <1>13, StepInv

\* The write is left behind, and a stream closes its attempt once more.
LEMMA LeaveFinishStep == ASSUME IInv, NEW r \in Runs, LeaveFinish(r) PROVE IInv'
<1>1. runs[r].at = "closing" /\ UNCHANGED <<ledger, sent>> /\ runs[r].verdict \in Verdict
  BY OneRun DEF LeaveFinish, At
<1>2. PICK o \in Operations, n \in 1..Len(Order) : \E c \in AttemptCalls :
        /\ o = runs[r].op /\ n = runs[r].n /\ c = C(r) /\ c = <<o, n>>
        /\ c[1] = o /\ c[2] = n /\ GoneBefore(o, n)
  BY <1>1, AttemptOfRun
<1>3. PICK c \in AttemptCalls : c = C(r) /\ c = <<o, n>>
  BY <1>2
<1>4. PICK u \in Verdict : u = runs[r].verdict
  BY <1>1
<1>5. Known(c) /\ VerdictOK(c, u)
  BY <1>1, <1>2, <1>3, <1>4, OneRun DEF RunOK
<1>6. LedgerStep /\ SentInv' /\ \A d \in sent' : d \in sent
  BY <1>1, SentStays DEF LedgerStep
<1>7. Known(c)' /\ VerdictOK(c, u)' /\ GoneBefore(o, n)' /\ RunOK(Idle)'
  BY <1>2, <1>5, <1>6, LedgerGrows, GoneStays, IdleIsARun, Constants DEF IInv
<1> DEFINE w == [call |-> c, start |-> FALSE, verdict |-> u]
<1>8. strays' = strays \cup {w}
  BY <1>3, <1>4 DEF LeaveFinish
<1>9. w \in Stray /\ ~ w.start /\ w.call = c /\ w.verdict = u
  BY DEF Stray
<1> HIDE DEF w
<1>10. \A x \in strays' : x \in strays \/ (x \in Stray /\ StrayOK(x)')
  BY <1>7, <1>8, <1>9 DEF StrayOK
<1>11. PICK run \in Run : Becomes(r, run) /\ RunOK(run)'
  <2>1. CASE Goes(r, "idle")
    BY <1>7, <2>1, IdleIsARun DEF Goes
  <2>2. CASE Closing(r, "cancelled", "unknown", FALSE, "none")
    <3>1. "cancelled" \in Ledger!Terminal /\ "none" \in Marks
          /\ "unknown" \in Ledger!Errors \ {"stale"}
      BY DEF Ledger!Terminal, Marks, Ledger!Errors
    <3>2. PICK v \in Verdict :
            /\ v = [status |-> "cancelled", error |-> "unknown", failover |-> FALSE,
                    mark |-> "none"]
            /\ v.status = "cancelled" /\ v.error = "unknown" /\ ~ v.failover
      BY <3>1, VerdictOf
    <3>3. VerdictOK(<<o, n>>, v)'
      BY <3>1, <3>2 DEF VerdictOK, Ledger!ProvenUnsent
    <3>4. Becomes(r, [runs[r] EXCEPT !.at = "closing", !.verdict = v])
      BY <2>2, <3>2 DEF Closing
    <3>5. Known(<<o, n>>)'
      BY <1>3, <1>7
    <3> QED
      BY <1>2, <1>7, <3>3, <3>4, <3>5, ClosingRun
  <2> QED
    BY <2>1, <2>2 DEF LeaveFinish
<1> QED
  BY <1>1, <1>6, <1>10, <1>11, StepInv

\* A call that is closed stays with a provider that may have it, and its money
\* is not given back.
LEMMA FinishLedger ==
  ASSUME IInv, NEW c \in AttemptCalls, NEW v \in Verdict, VerdictOK(c, v),
         Ledger!Finish(c, v.status, v.error), sent' = sent
  PROVE  LedgerStep /\ SentInv'
<1>1. v.status \in Ledger!Terminal /\ v.error \in Ledger!Errors \ {"stale"}
      /\ (Ledger!ProvenUnsent(v.status, v.error) => c \notin sent)
  BY DEF VerdictOK, Verdict, Gone
<1>2. LedgerStep
  BY <1>1 DEF LedgerStep, Ledger!Next
<1>3. /\ calls[c].status = "started"
      /\ calls' = [calls EXCEPT ![c] = Ledger!Closed(c, v.status, v.error)]
  BY DEF Ledger!Finish
<1>4. \A d \in AttemptCalls : Known(d)' => Known(d)
  BY <1>3 DEF Known, IInv, Types
<1>5. \A d \in AttemptCalls : Known(d) => Known(d)'
  BY <1>2, LedgerGrows DEF IInv
<1>6. reservations' = reservations
      \/ reservations' = [reservations EXCEPT ![c].state = Ledger!Outcome(v.status, v.error)]
  BY DEF Ledger!Finish
<1>7. c \in sent => Ledger!Outcome(v.status, v.error) \in {"captured", "review_required"}
  BY <1>1 DEF Ledger!Outcome
<1>8. \A d \in sent' : Known(d)' /\ reservations'[d].state \in {"reserved", "captured",
                                                                  "review_required"}
  <2>1. SUFFICES ASSUME NEW d \in sent
                 PROVE  Known(d)' /\ reservations'[d].state \in {"reserved", "captured",
                                                                  "review_required"}
    OBVIOUS
  <2>2. d \in AttemptCalls /\ Known(d)
        /\ reservations[d].state \in {"reserved", "captured", "review_required"}
    BY <2>1 DEF IInv, SentInv
  <2>3. reservations'[d].state \in {"reserved", "captured", "review_required"}
    <3>1. CASE d # c
      BY <1>6, <2>2, <3>1 DEF IInv, Types
    <3>2. CASE d = c
      <4>1. reservations[c] \in Ledger!Reservation
        BY DEF IInv, Types
      <4> QED
        BY <1>6, <1>7, <2>1, <2>2, <3>2, <4>1 DEF IInv, Types, Ledger!Reservation
    <3> QED
      BY <3>1, <3>2
  <2> QED
    BY <1>5, <2>2, <2>3
<1>9. \A o \in Operations : \A n \in 1..Len(Order) :
        Known(<<o, n>>)' => Known(<<o, n>>) \/ GoneBefore(o, n)
  BY <1>4 DEF AttemptCalls
<1>10. SentInv'
  BY <1>2, <1>8, <1>9, SentStep
<1> QED
  BY <1>2, <1>10

\* The next model is tried only after this attempt was gone.
LEMMA FinishedStep == ASSUME IInv, NEW r \in Runs, Finished(r) PROVE IInv'
<1>1. /\ runs[r].at = "closing" /\ UNCHANGED <<strays, sent>>
      /\ runs[r].verdict \in Verdict /\ RunOK(runs[r]) /\ runs[r] \in Run
  BY OneRun DEF Finished, At
<1>2. PICK o \in Operations, n \in 1..Len(Order) : \E c \in AttemptCalls :
        /\ o = runs[r].op /\ n = runs[r].n /\ c = C(r) /\ c = <<o, n>>
        /\ c[1] = o /\ c[2] = n /\ GoneBefore(o, n)
  BY <1>1, AttemptOfRun
<1>3. PICK c \in AttemptCalls : c = C(r) /\ c = <<o, n>>
  BY <1>2
<1>4. PICK v \in Verdict : v = runs[r].verdict
  BY <1>1
<1>5. Known(c) /\ VerdictOK(c, v)
  BY <1>1, <1>2, <1>3, <1>4 DEF RunOK
<1>6. LedgerStep /\ SentInv'
  <2>1. CASE Open(c)
    <3>1. Ledger!Finish(c, v.status, v.error)
      BY <1>3, <1>4, <2>1 DEF Finished
    <3> QED
      BY <1>1, <1>5, <3>1, FinishLedger
  <2>2. CASE ~ Open(c)
    <3>1. UNCHANGED ledger
      BY <1>3, <2>2 DEF Finished
    <3> QED
      BY <1>1, <3>1, SentStays DEF LedgerStep
  <2> QED
    BY <2>1, <2>2
<1>7. \A d \in sent' : d \in sent
  BY <1>1
<1>8. GoneBefore(o, n)' /\ RunOK(Idle)' /\ (Gone(c) => Gone(c)')
  BY <1>2, <1>6, <1>7, GoneStays, IdleIsARun, Constants DEF IInv
<1>9. PICK run \in Run : Becomes(r, run) /\ RunOK(run)'
  <2>1. CASE ~ v.failover
    <3>1. Becomes(r, Idle)
      BY <1>4, <2>1 DEF Finished, Continues, Goes
    <3> QED
      BY <1>8, <3>1, IdleIsARun
  <2>2. CASE v.failover
    <3>1. Goes(r, "next")
      BY <1>4, <2>2 DEF Finished, Continues
    <3>2. PICK run \in Run :
            Becomes(r, run) /\ run.at = "next" /\ run.op = o /\ run.n = n
            /\ run.rest = runs[r].rest
      BY <1>2, <3>1, GoesStep DEF Places
    <3>3. Gone(c)'
      BY <1>5, <1>8, <2>2 DEF VerdictOK
    <3>4. GoneBefore(o, n + 1)'
      BY <1>3, <1>8, <3>3, Constants DEF GoneBefore
    <3>5. run.n + Len(run.rest) <= Len(Order)
      BY <1>1, <1>2, <3>2 DEF RunOK
    <3>6. RunOK(run)'
      BY <3>2, <3>4, <3>5 DEF RunOK
    <3> QED
      BY <3>2, <3>6
  <2> QED
    BY <2>1, <2>2
<1> QED
  BY <1>1, <1>6, <1>7, <1>9, StepInv

-----------------------------------------------------------------------------
(* The writes that were left behind, and the process. *)

\* A step of no run; the process may die.
LEMMA OtherStep ==
  ASSUME IInv, LedgerStep, sent' = sent, SentInv', strays' \subseteq strays,
         runs' = runs \/ runs' = [r \in Runs |-> Idle]
  PROVE  IInv'
<1>1. Types'
  BY LedgerGrows, IdleIsARun DEF IInv, Types
<1>2. \A q \in Run : RunOK(q) => RunOK(q)'
  BY GoneStays DEF IInv
<1>3. \A w \in Stray : StrayOK(w) => StrayOK(w)'
  BY GoneStays DEF IInv
<1>4. \A s \in Runs : RunOK(runs[s])'
  <2>1. SUFFICES ASSUME NEW s \in Runs PROVE RunOK(runs[s])'
    OBVIOUS
  <2>2. PICK q \in Run : q = runs'[s] /\ RunOK(q)
    BY IdleIsARun DEF IInv, Types
  <2>3. RunOK(q)'
    BY <1>2, <2>2
  <2> QED
    BY <2>2, <2>3 DEF RunOK
<1>5. \A w \in strays' : StrayOK(w)'
  BY <1>3 DEF IInv, Types
<1> QED
  BY <1>1, <1>4, <1>5 DEF IInv

LEMMA StrayLandsStep == ASSUME IInv, NEW w \in strays, StrayLands(w) PROVE IInv'
<1>1. /\ w \in Stray /\ StrayOK(w) /\ runs' = runs /\ sent' = sent
      /\ strays' \subseteq strays
  BY DEF StrayLands, IInv, Types
<1>2. PICK c \in AttemptCalls : c = w.call
  BY <1>1 DEF Stray
<1>3. PICK v \in Verdict : v = w.verdict
  BY <1>1 DEF Stray
<1>4. c[1] \in Operations
  BY DEF AttemptCalls
<1>5. LedgerStep /\ SentInv'
  <2>1. CASE w.start /\ Ledger!Start(w.call, w.call[1], Price)
    <3>1. GoneBefore(c[1], c[2]) /\ Ledger!Start(c, c[1], Price)
      BY <1>1, <1>2, <2>1 DEF StrayOK
    <3> QED
      BY <1>1, <1>4, <3>1, StartSends
  <2>2. CASE ~ w.start /\ Ledger!Finish(w.call, w.verdict.status, w.verdict.error)
    <3>1. VerdictOK(c, v) /\ Ledger!Finish(c, v.status, v.error)
      BY <1>1, <1>2, <1>3, <2>2 DEF StrayOK
    <3> QED
      BY <1>1, <3>1, FinishLedger
  <2>3. CASE UNCHANGED ledger
    BY <1>1, <2>3, SentStays DEF LedgerStep
  <2> QED
    BY <2>1, <2>2, <2>3 DEF StrayLands
<1> QED
  BY <1>1, <1>5, OtherStep

LEMMA CrashStep == ASSUME IInv, Crash PROVE IInv'
<1>1. UNCHANGED ledger /\ sent' = sent /\ strays' = {} /\ runs' = [r \in Runs |-> Idle]
  BY DEF Crash
<1>2. LedgerStep /\ SentInv'
  BY <1>1, SentStays DEF LedgerStep
<1> QED
  BY <1>1, <1>2, OtherStep

\* What is stale goes under review, which keeps its money.
LEMMA ReopenStep == ASSUME IInv, Reopen PROVE IInv'
<1>1. Ledger!Reconcile /\ UNCHANGED <<runs, strays, sent>>
  BY DEF Reopen
<1>2. LedgerStep
  BY <1>1 DEF LedgerStep, Ledger!Next
<1>3. \A d \in AttemptCalls : Known(d) => Known(d)'
  BY <1>2, LedgerGrows DEF IInv
<1>4. \A d \in AttemptCalls : Known(d)' => Known(d)
  BY <1>1 DEF Ledger!Reconcile, Ledger!Stale, Known
<1>5. \A d \in AttemptCalls :
        reservations[d].state \in {"reserved", "captured", "review_required"} =>
          reservations'[d].state \in {"reserved", "captured", "review_required"}
  <2>1. SUFFICES ASSUME NEW d \in AttemptCalls,
                        reservations[d].state \in {"reserved", "captured", "review_required"}
                 PROVE  reservations'[d].state \in {"reserved", "captured", "review_required"}
    OBVIOUS
  <2>2. reservations'[d] = reservations[d]
        \/ reservations'[d] = [reservations[d] EXCEPT !.state = "review_required"]
    BY <1>1 DEF Ledger!Reconcile
  <2>3. reservations[d] \in Ledger!Reservation
    BY DEF IInv, Types
  <2> QED
    BY <2>1, <2>2, <2>3 DEF Ledger!Reservation
<1>6. SentInv'
  <2>1. \A d \in sent' : Known(d)' /\ reservations'[d].state \in {"reserved", "captured",
                                                                    "review_required"}
    BY <1>1, <1>3, <1>5 DEF IInv, SentInv
  <2>2. \A o \in Operations : \A n \in 1..Len(Order) :
          Known(<<o, n>>)' => Known(<<o, n>>) \/ GoneBefore(o, n)
    BY <1>4 DEF AttemptCalls
  <2> QED
    BY <1>1, <1>2, <2>1, <2>2, SentStep
<1> QED
  BY <1>1, <1>2, <1>6, OtherStep

\* A step of the ledger that closes and opens nothing.
LEMMA QuietStep ==
  ASSUME IInv, LedgerStep, UNCHANGED <<reservations, runs, strays, sent>>,
         \A d \in AttemptCalls : Known(d)' <=> Known(d)
  PROVE  IInv'
<1>1. \A d \in sent' : Known(d)' /\ reservations'[d].state \in {"reserved", "captured",
                                                                  "review_required"}
  BY DEF IInv, SentInv
<1>2. \A o \in Operations : \A n \in 1..Len(Order) :
        Known(<<o, n>>)' => Known(<<o, n>>) \/ GoneBefore(o, n)
  BY DEF AttemptCalls
<1>3. SentInv'
  BY <1>1, <1>2, SentStep
<1> QED
  BY <1>3, OtherStep

LEMMA AgeStep == ASSUME IInv, NEW c \in AttemptCalls, Age(c) PROVE IInv'
<1>1. calls' = [calls EXCEPT ![c].old = TRUE] /\ UNCHANGED <<reservations, runs, strays, sent>>
  BY DEF Age, Ledger!Age
<1>2. LedgerStep
  BY DEF Age, LedgerStep, Ledger!Next
<1>3. \A d \in AttemptCalls : Known(d)' <=> Known(d)
  BY <1>1 DEF Known, IInv, Types, Ledger!Call
<1> QED
  BY <1>1, <1>2, <1>3, QuietStep

LEMMA FundStep ==
  ASSUME IInv, NEW f \in Fundings, NEW a \in Amounts, Fund(f, a) PROVE IInv'
<1>1. UNCHANGED <<calls, reservations, runs, strays, sent>>
  BY DEF Fund, Ledger!Fund
<1>2. LedgerStep
  BY DEF Fund, LedgerStep, Ledger!Next
<1>3. \A d \in AttemptCalls : Known(d)' <=> Known(d)
  BY <1>1 DEF Known
<1> QED
  BY <1>1, <1>2, <1>3, QuietStep

LEMMA RestStep == ASSUME IInv, UNCHANGED <<ledger, runs, strays, sent>> PROVE IInv'
<1>1. LedgerStep /\ SentInv'
  BY SentStays DEF LedgerStep
<1> QED
  BY <1>1, OtherStep

LEMMA NextInv == IInv /\ [Next]_vars => IInv'
<1> SUFFICES ASSUME IInv, [Next]_vars PROVE IInv'
  OBVIOUS
<1>1. ASSUME NEW r \in Runs, Step(r) PROVE IInv'
  BY <1>1, SkipStep, GiveUpStep, PickStep, StartedStep, StartRefusedStep, StartedAbortedStep,
     AnsweredStep, UnconnectedStep, LostStep, FirstChunkStep, StreamEndsStep, StreamFailsStep,
     FinishedStep DEF Step
<1>2. ASSUME NEW r \in Runs, Disturbance(r) PROVE IInv'
  BY <1>2, CancelStartStep, LeaveStartStep, CancelCallStep, FinishFailsStep, CancelFinishStep,
     LeaveFinishStep DEF Disturbance
<1>3. ASSUME NEW r \in Runs, NEW o \in Operations, NEW stream \in BOOLEAN, Begin(r, o, stream)
      PROVE  IInv'
  BY <1>3, BeginStep
<1>4. ASSUME NEW w \in strays, StrayLands(w) PROVE IInv'
  BY <1>4, StrayLandsStep
<1>5. CASE Crash \/ Reopen
  BY <1>5, CrashStep, ReopenStep
<1>6. ASSUME NEW c \in AttemptCalls, Age(c) PROVE IInv'
  BY <1>6, AgeStep
<1>7. ASSUME NEW f \in Fundings, NEW a \in Amounts, Fund(f, a) PROVE IInv'
  BY <1>7, FundStep
<1>8. ASSUME NEW m \in Models, CooldownEnds(m) PROVE IInv'
  BY <1>8, RestStep DEF CooldownEnds
<1>9. CASE UNCHANGED vars
  BY <1>9, RestStep DEF vars
<1> QED
  BY <1>1, <1>2, <1>3, <1>4, <1>5, <1>6, <1>7, <1>8, <1>9 DEF Next

LEMMA InitInv == Init => IInv
<1> SUFFICES ASSUME Init PROVE IInv
  OBVIOUS
<1>1. calls = [c \in AttemptCalls |-> Ledger!NoCall]
      /\ reservations = [c \in AttemptCalls |-> Ledger!NoReservation]
      /\ runs = [r \in Runs |-> Idle] /\ strays = {} /\ sent = {}
  BY DEF Init, Ledger!Init
<1>2. Ledger!NoCall \in Ledger!Call /\ Ledger!NoReservation \in Ledger!Reservation
      /\ Ledger!NoCall.status = "none"
  <2>1. (CHOOSE o \in Operations : TRUE) \in Operations
    BY Constants
  <2> QED
    BY <2>1 DEF Ledger!NoCall, Ledger!Call, Ledger!NoReservation, Ledger!Reservation,
       Ledger!Errors
<1>3. Types
  BY <1>1, <1>2, IdleIsARun DEF Types
<1>4. SentInv
  BY <1>1, <1>2 DEF SentInv, Known, AttemptCalls
<1>5. \A r \in Runs : RunOK(runs[r])
  BY <1>1, IdleIsARun
<1> QED
  BY <1>1, <1>3, <1>4, <1>5 DEF IInv

-----------------------------------------------------------------------------
(* What is remembered of models. *)

QuotaInv ==
  /\ Quota!TypeOK
  /\ IsFiniteSet(Quota!Tracked) /\ Cardinality(Quota!Tracked) <= MaxTracked

Marked == [cooling: SUBSET Models, errors: [Models -> 0..ErrThreshold - 1]]
TrackedIn(s) == s.cooling \cup {m \in Models : s.errors[m] > 0}

LEMMA Limits == ErrThreshold \in Nat \ {0} /\ MaxTracked \in Nat \ {0}
BY FailoverAssumption DEF FailoverAssumption

LEMMA SameCardinality == ASSUME NEW S PROVE Quota!Cardinality(S) = Cardinality(S)
BY Zenon DEF Quota!Cardinality, Cardinality

\* Marking a model remembers no other, and this one only where there is room.
LEMMA MarkOneMore ==
  ASSUME NEW s \in Marked, NEW m \in Models
  PROVE  /\ Quota!AfterError(s, m) \in Marked
         /\ Quota!AfterExhausted(s, m) \in Marked
         /\ \A t \in {Quota!AfterError(s, m), Quota!AfterExhausted(s, m)} :
              \A x \in TrackedIn(t) : x \in TrackedIn(s) \/ (x = m /\ Quota!CanTrack(m))
<1>1. s.cooling \in SUBSET Models /\ s.errors \in [Models -> 0..ErrThreshold - 1]
      /\ s = [cooling |-> s.cooling, errors |-> s.errors]
  BY DEF Marked
<1>2. 0 \in 0..ErrThreshold - 1
  BY Limits
<1>3. /\ Quota!Cooled(s, m) \in Marked
      /\ \A x \in TrackedIn(Quota!Cooled(s, m)) : x \in TrackedIn(s) \/ x = m
  BY <1>1, <1>2 DEF Quota!Cooled, Marked, TrackedIn
<1>4. ASSUME ~ (s.errors[m] + 1 >= ErrThreshold)
      PROVE  /\ [s EXCEPT !.errors[m] = @ + 1] \in Marked
             /\ \A x \in TrackedIn([s EXCEPT !.errors[m] = @ + 1]) : x \in TrackedIn(s) \/ x = m
  <2>1. s.errors[m] + 1 \in 0..ErrThreshold - 1
    BY <1>1, <1>4, Limits
  <2> QED
    BY <1>1, <2>1 DEF Marked, TrackedIn
<1>5. CASE ~ Quota!CanTrack(m)
  BY <1>5 DEF Quota!AfterError, Quota!AfterExhausted
<1>6. CASE Quota!CanTrack(m)
  <2>1. Quota!AfterExhausted(s, m) = Quota!Cooled(s, m)
    BY <1>6 DEF Quota!AfterExhausted
  <2>2. CASE s.errors[m] + 1 >= ErrThreshold
    <3>1. Quota!AfterError(s, m) = Quota!Cooled(s, m)
      BY <1>6, <2>2 DEF Quota!AfterError
    <3> QED
      BY <1>3, <1>6, <2>1, <3>1
  <2>3. CASE ~ (s.errors[m] + 1 >= ErrThreshold)
    <3>1. Quota!AfterError(s, m) = [s EXCEPT !.errors[m] = @ + 1]
      BY <1>6, <2>3 DEF Quota!AfterError
    <3> QED
      BY <1>3, <1>4, <1>6, <2>1, <2>3, <3>1
  <2> QED
    BY <2>2, <2>3
<1> QED
  BY <1>5, <1>6

\* A step after which one more model is remembered, if there was room.
LEMMA OneMoreTracked ==
  ASSUME QuotaInv, Quota!TypeOK', NEW m,
         \A x \in Quota!Tracked' : x \in Quota!Tracked \/ (x = m /\ Quota!CanTrack(m))
  PROVE  QuotaInv'
<1> DEFINE T == Quota!Tracked
<1>1. IsFiniteSet(T) /\ Cardinality(T) <= MaxTracked /\ Cardinality(T) \in Nat
  BY FS_CardinalityType DEF QuotaInv
<1>2. PICK S : S = Quota!Tracked'
  OBVIOUS
<1>3. PICK R : R = T
  OBVIOUS
<1>4. IsFiniteSet(R) /\ Cardinality(R) <= MaxTracked /\ Cardinality(R) \in Nat
  BY <1>1, <1>3
<1>5. IsFiniteSet(S) /\ Cardinality(S) <= MaxTracked
  <2>1. CASE S \subseteq R
    BY <1>4, <2>1, FS_Subset, FS_CardinalityType, Limits
  <2>2. CASE ~ (S \subseteq R)
    <3>1. m \notin R /\ Quota!CanTrack(m) /\ S \subseteq R \cup {m}
      <4>1. PICK x \in S : x \notin R
        BY <2>2
      <4>2. x = m /\ Quota!CanTrack(m)
        BY <1>2, <1>3, <4>1
      <4>3. \A y \in S : y \in R \/ y = m
        BY <1>2, <1>3
      <4>4. m \notin R
        BY <4>1, <4>2, Zenon
      <4>5. S \subseteq R \cup {m}
        BY <4>3
      <4> QED
        BY <4>2, <4>4, <4>5, Zenon
    <3>2. Cardinality(R) < MaxTracked
      BY <1>3, <3>1, SameCardinality DEF Quota!CanTrack
    <3>3. IsFiniteSet(R \cup {m}) /\ Cardinality(R \cup {m}) = Cardinality(R) + 1
      BY <1>4, <3>1, FS_AddElement
    <3>4. IsFiniteSet(S) /\ Cardinality(S) <= Cardinality(R \cup {m})
      BY <3>1, <3>3, FS_Subset
    <3>5. Cardinality(S) \in Nat
      BY <3>4, FS_CardinalityType
    <3> QED
      BY <1>4, <3>2, <3>3, <3>4, <3>5, Limits
  <2> QED
    BY <2>1, <2>2
<1>6. (IsFiniteSet(Quota!Tracked) /\ Cardinality(Quota!Tracked) <= MaxTracked)'
  BY <1>2, <1>5
<1> QED
  BY <1>6 DEF QuotaInv

\* A mark of one model, twice even.
LEMMA NoteStep ==
  ASSUME QuotaInv, NEW m \in Models, NEW mark, Note(m, mark) PROVE QuotaInv'
<1>1. Quota!State \in Marked /\ TrackedIn(Quota!State) = Quota!Tracked
  BY DEF QuotaInv, Quota!TypeOK, Quota!State, Marked, TrackedIn, Quota!Tracked
<1>2. ASSUME NEW t \in Marked, Quota!Becomes(t),
             \A x \in TrackedIn(t) : x \in TrackedIn(Quota!State) \/ (x = m /\ Quota!CanTrack(m))
      PROVE  QuotaInv'
  <2>1. cooling' = t.cooling /\ errors' = t.errors
    BY <1>2 DEF Quota!Becomes
  <2>2. Quota!TypeOK'
    BY <2>1 DEF Marked, Quota!TypeOK
  <2>3. Quota!Tracked' = TrackedIn(t)
    BY <2>1 DEF Quota!Tracked, TrackedIn
  <2> QED
    BY <1>1, <1>2, <2>2, <2>3, OneMoreTracked
<1> DEFINE s == Quota!State
           e == Quota!AfterError(s, m)
           q == Quota!AfterExhausted(s, m)
<1>3. /\ e \in Marked /\ q \in Marked
      /\ \A x \in TrackedIn(e) : x \in TrackedIn(s) \/ (x = m /\ Quota!CanTrack(m))
      /\ \A x \in TrackedIn(q) : x \in TrackedIn(s) \/ (x = m /\ Quota!CanTrack(m))
  BY <1>1, MarkOneMore
<1>4. CASE mark = "ok"
  <2>1. cooling' = cooling /\ errors' = [errors EXCEPT ![m] = 0]
    BY <1>4 DEF Note, Quota!MarkOk, Quota!Forgiven
  <2>2. Quota!TypeOK' /\ \A x \in Quota!Tracked' : x \in Quota!Tracked
    BY <2>1, Limits DEF QuotaInv, Quota!TypeOK, Quota!Tracked
  <2> QED
    BY <2>2, OneMoreTracked
<1>5. CASE mark = "error"
  BY <1>2, <1>3, <1>5 DEF Note, Quota!MarkError
<1>6. CASE mark = "quota"
  BY <1>2, <1>3, <1>6 DEF Note, Quota!MarkExhausted
<1>7. CASE mark = "quota and error"
  <2> DEFINE t == Quota!AfterError(q, m)
  <2>1. /\ t \in Marked
        /\ \A x \in TrackedIn(t) : x \in TrackedIn(q) \/ (x = m /\ Quota!CanTrack(m))
    <3> HIDE DEF q
    <3> QED
      BY <1>3, MarkOneMore
  <2>2. Quota!Becomes(t)
    BY <1>7 DEF Note
  <2> HIDE DEF t, q, s, e
  <2> QED
    BY <1>2, <1>3, <2>1, <2>2 DEF s
<1>8. CASE mark = "twice"
  <2> DEFINE t == Quota!AfterError(e, m)
  <2>1. /\ t \in Marked
        /\ \A x \in TrackedIn(t) : x \in TrackedIn(e) \/ (x = m /\ Quota!CanTrack(m))
    <3> HIDE DEF e
    <3> QED
      BY <1>3, MarkOneMore
  <2>2. Quota!Becomes(t)
    BY <1>8 DEF Note
  <2> HIDE DEF t, q, s, e
  <2> QED
    BY <1>2, <1>3, <2>1, <2>2 DEF s
<1>9. CASE mark \notin {"ok", "error", "quota", "quota and error", "twice"}
  <2>1. UNCHANGED quota
    BY <1>9 DEF Note
  <2> QED
    BY <2>1 DEF quota, QuotaInv, Quota!TypeOK, Quota!Tracked
<1> QED
  BY <1>4, <1>5, <1>6, <1>7, <1>8, <1>9

LEMMA QuotaStep == IInv /\ QuotaInv /\ [Next]_vars => QuotaInv'
<1> SUFFICES ASSUME IInv, QuotaInv, [Next]_vars PROVE QuotaInv'
  OBVIOUS
<1>1. ASSUME UNCHANGED quota PROVE QuotaInv'
  BY <1>1 DEF quota, QuotaInv, Quota!TypeOK, Quota!Tracked
<1>2. ASSUME NEW r \in Runs, FirstChunk(r) \/ Finished(r) PROVE QuotaInv'
  <2>1. runs[r].model \in Models
    BY OneRun
  <2>2. PICK m \in Models : m = runs[r].model
    BY <2>1
  <2>3. CASE FirstChunk(r)
    <3>1. Note(m, "ok")
      BY <2>2, <2>3 DEF FirstChunk, Note
    <3> QED
      BY <3>1, NoteStep
  <2>4. CASE Finished(r)
    <3>1. PICK mark : mark = runs[r].verdict.mark
      OBVIOUS
    <3>2. Note(m, mark)
      BY <2>2, <2>4, <3>1 DEF Finished, Continues
    <3> QED
      BY <3>2, NoteStep
  <2> QED
    BY <1>2, <2>3, <2>4
<1>3. ASSUME NEW r \in Runs, Step(r) PROVE QuotaInv'
  <2>1. CASE FirstChunk(r) \/ Finished(r)
    BY <1>2, <2>1
  <2>2. CASE ~ (FirstChunk(r) \/ Finished(r))
    <3>1. UNCHANGED quota
      BY <1>3, <2>2 DEF Step, Skip, GiveUp, Pick, Started, StartRefused, StartedAborted, Answered,
         Unconnected, Lost, StreamEnds, StreamFails
    <3> QED
      BY <1>1, <3>1
  <2> QED
    BY <2>1, <2>2
<1>4. ASSUME NEW r \in Runs, Disturbance(r) PROVE UNCHANGED quota
  BY <1>4 DEF Disturbance, CancelStart, LeaveStart, CancelCall, FinishFails, CancelFinish,
     LeaveFinish
<1>5. ASSUME NEW r \in Runs, NEW o \in Operations, NEW stream \in BOOLEAN, Begin(r, o, stream)
      PROVE  UNCHANGED quota
  BY <1>5 DEF Begin
<1>6. ASSUME NEW w \in strays, StrayLands(w) PROVE UNCHANGED quota
  BY <1>6 DEF StrayLands
<1>7. CASE Crash
  <2>1. cooling' = {} /\ errors' = [m \in Models |-> 0]
    BY <1>7 DEF Crash, Quota!Clear
  <2>2. Quota!TypeOK' /\ \A x \in Quota!Tracked' : x \in Quota!Tracked
    BY <2>1, Limits DEF Quota!TypeOK, Quota!Tracked
  <2> QED
    BY <2>2, OneMoreTracked
<1>8. ASSUME NEW m \in Models, CooldownEnds(m) PROVE QuotaInv'
  <2>1. \/ cooling' = cooling \ {m} /\ errors' = errors
        \/ cooling' = cooling /\ errors' = [errors EXCEPT ![m] = 0]
    BY <1>8 DEF CooldownEnds, Quota!CooldownEnds, Quota!ErrorIsForgotten, Quota!Forgiven
  <2>2. Quota!TypeOK' /\ \A x \in Quota!Tracked' : x \in Quota!Tracked
    BY <2>1, Limits DEF QuotaInv, Quota!TypeOK, Quota!Tracked
  <2> QED
    BY <2>2, OneMoreTracked
<1>9. ASSUME \/ Reopen \/ UNCHANGED vars
             \/ \E c \in AttemptCalls : Age(c)
             \/ \E f \in Fundings, a \in Amounts : Fund(f, a)
      PROVE  UNCHANGED quota
  BY <1>9 DEF Reopen, Age, Fund, vars
<1> QED
  BY <1>1, <1>3, <1>4, <1>5, <1>6, <1>7, <1>8, <1>9 DEF Next

LEMMA QuotaInit == Init => QuotaInv
<1> SUFFICES ASSUME Init PROVE QuotaInv
  OBVIOUS
<1>1. cooling = {} /\ errors = [m \in Models |-> 0]
  BY DEF Init, Quota!Init
<1>2. Quota!TypeOK /\ Quota!Tracked = {}
  BY <1>1, Limits DEF Quota!TypeOK, Quota!Tracked
<1>3. IsFiniteSet({}) /\ Cardinality({}) = 0
  BY FS_EmptySet
<1> QED
  BY <1>2, <1>3, Limits DEF QuotaInv

-----------------------------------------------------------------------------
(* The theorems. *)

\* What is at a provider of one operation is one attempt.
LEMMA OneIsSent == IInv => SentOnce
<1> SUFFICES ASSUME IInv, NEW o \in Operations PROVE Cardinality({c \in sent : c[1] = o}) <= 1
  BY DEF SentOnce
<1> DEFINE S == {c \in sent : c[1] = o}
<1>1. ASSUME NEW c \in S, NEW d \in S PROVE c = d
  <2>1. PICK i \in 1..Len(Order) : c = <<o, i>>
    BY <1>1 DEF IInv, SentInv, AttemptCalls
  <2>2. PICK j \in 1..Len(Order) : d = <<o, j>>
    BY <1>1 DEF IInv, SentInv, AttemptCalls
  <2>3. c \in sent /\ d \in sent /\ Known(c) /\ Known(d)
    BY <1>1 DEF IInv, SentInv
  <2>4. GoneBefore(o, i) /\ GoneBefore(o, j)
    BY <2>1, <2>2, <2>3 DEF IInv, SentInv
  <2>5. ~ (i < j) /\ ~ (j < i)
    BY <2>1, <2>2, <2>3, <2>4 DEF GoneBefore, Gone
  <2>6. i = j
    BY <2>5, Constants
  <2> QED
    BY <2>1, <2>2, <2>6
<1>2. CASE S = {}
  <2>1. Cardinality({}) = 0
    BY FS_EmptySet
  <2> QED
    BY <1>2, <2>1
<1>3. CASE S # {}
  <2>1. PICK c : c \in S
    BY <1>3
  <2>2. S = {c}
    BY <1>1, <2>1
  <2>3. Cardinality({c}) = 1
    BY FS_Singleton
  <2> QED
    BY <2>2, <2>3
<1> QED
  BY <1>2, <1>3

\* The types of the whole state.
LEMMA TypesHold == IInv /\ QuotaInv => TypeOK
BY DEF IInv, QuotaInv, Types, SentInv, RunOK, Stray, TypeOK

\* Whatever is repeated, cancelled, lost or crashed, at most one attempt of an
\* operation reaches a provider, it is on record with its money, and what is
\* remembered of models is bounded.
THEOREM CallsAccounted == Spec => [](TypeOK /\ CallsAreAccounted)
<1>1. Init => IInv /\ QuotaInv
  BY InitInv, QuotaInit
<1>2. IInv /\ QuotaInv /\ [Next]_vars => IInv' /\ QuotaInv'
  BY NextInv, QuotaStep
<1>3. IInv /\ QuotaInv => TypeOK /\ CallsAreAccounted
  <2>1. IInv => SentIsAccounted
    BY DEF IInv, SentInv, SentIsAccounted
  <2>2. QuotaInv => TrackingIsBounded
    BY SameCardinality DEF QuotaInv, TrackingIsBounded, Quota!TrackingIsBounded
  <2> QED
    BY <2>1, <2>2, OneIsSent, TypesHold DEF CallsAreAccounted
<1> QED
  BY <1>1, <1>2, <1>3, PTL DEF Spec

\* A step of the runs does to the ledger what a caller of it may do.
LEMMA StepUsesLedger == IInv /\ [Next]_vars => LedgerStep
<1> SUFFICES ASSUME IInv, [Next]_vars PROVE LedgerStep
  OBVIOUS
<1>1. ASSUME UNCHANGED ledger PROVE LedgerStep
  BY <1>1 DEF LedgerStep
<1>2. ASSUME NEW c \in AttemptCalls, NEW t \in Operations, Ledger!Start(c, t, Price)
      PROVE  LedgerStep
  BY <1>2, StartLedger DEF IInv
<1>3. ASSUME NEW c \in AttemptCalls, NEW v \in Verdict, v.status \in Ledger!Terminal,
             Ledger!Finish(c, v.status, v.error)
      PROVE  LedgerStep
  <2>1. v.error \in Ledger!Errors \ {"stale"}
    BY DEF Verdict
  <2> QED
    BY <1>3, <2>1 DEF LedgerStep, Ledger!Next
<1>4. ASSUME NEW r \in Runs, Started(r) \/ StartedAborted(r) PROVE LedgerStep
  <2>1. runs[r].at \in {"starting", "aborted"} /\ Ledger!Start(C(r), runs[r].op, Price)
    BY <1>4 DEF Started, StartedAborted, At
  <2>2. C(r) \in AttemptCalls /\ runs[r].op \in Operations
    BY <2>1, AttemptOfRun, OneRun
  <2> QED
    BY <1>2, <2>1, <2>2
<1>5. ASSUME NEW r \in Runs, Finished(r) PROVE LedgerStep
  <2>1. runs[r].at = "closing" /\ RunOK(runs[r]) /\ runs[r].verdict \in Verdict
    BY <1>5, OneRun DEF Finished, At
  <2>2. C(r) \in AttemptCalls /\ runs[r].verdict.status \in Ledger!Terminal
    BY <2>1, AttemptOfRun DEF RunOK, VerdictOK
  <2>3. CASE Open(C(r))
    <3>1. Ledger!Finish(C(r), runs[r].verdict.status, runs[r].verdict.error)
      BY <1>5, <2>3 DEF Finished
    <3> QED
      BY <1>3, <2>1, <2>2, <3>1
  <2>4. CASE ~ Open(C(r))
    BY <1>1, <1>5, <2>4 DEF Finished
  <2> QED
    BY <2>3, <2>4
<1>6. ASSUME NEW r \in Runs, Step(r) PROVE LedgerStep
  <2>1. CASE Started(r) \/ StartedAborted(r) \/ Finished(r)
    BY <1>4, <1>5, <2>1
  <2>2. CASE ~ (Started(r) \/ StartedAborted(r) \/ Finished(r))
    BY <1>1, <1>6, <2>2 DEF Step, Skip, GiveUp, Pick, StartRefused, Answered, Unconnected,
       Lost, FirstChunk, StreamEnds, StreamFails
  <2> QED
    BY <2>1, <2>2
<1>7. ASSUME NEW r \in Runs, Disturbance(r) PROVE UNCHANGED ledger
  BY <1>7 DEF Disturbance, CancelStart, LeaveStart, CancelCall, FinishFails, CancelFinish,
     LeaveFinish
<1>8. ASSUME NEW r \in Runs, NEW o \in Operations, NEW stream \in BOOLEAN, Begin(r, o, stream)
      PROVE  UNCHANGED ledger
  BY <1>8 DEF Begin
<1>9. ASSUME NEW w \in strays, StrayLands(w) PROVE LedgerStep
  <2>1. w.call \in AttemptCalls /\ w.verdict \in Verdict /\ w.call[1] \in Operations
        /\ StrayOK(w)
    BY DEF IInv, Types, Stray, AttemptCalls
  <2>2. CASE w.start /\ Ledger!Start(w.call, w.call[1], Price)
    BY <1>2, <2>1, <2>2
  <2>3. CASE ~ w.start /\ Ledger!Finish(w.call, w.verdict.status, w.verdict.error)
    <3>1. w.verdict.status \in Ledger!Terminal
      BY <2>1, <2>3 DEF StrayOK, VerdictOK
    <3> QED
      BY <1>3, <2>1, <2>3, <3>1
  <2> QED
    BY <1>1, <1>9, <2>2, <2>3 DEF StrayLands
<1>10. ASSUME \/ Reopen
              \/ \E c \in AttemptCalls : Age(c)
              \/ \E f \in Fundings, a \in Amounts : Fund(f, a)
       PROVE  LedgerStep
  BY <1>10 DEF Reopen, Age, Fund, LedgerStep, Ledger!Next
<1>11. ASSUME Crash \/ (\E m \in Models : CooldownEnds(m)) \/ UNCHANGED vars
       PROVE  UNCHANGED ledger
  BY <1>11 DEF Crash, CooldownEnds, vars
<1> QED
  BY <1>1, <1>6, <1>7, <1>8, <1>9, <1>10, <1>11 DEF Next

\* The runs use the ledger of calls as any caller may: what is proved of it
\* holds of theirs.
THEOREM LedgerIsUsed == Spec => UsesLedger
<1>1. Init => Ledger!Init
  BY DEF Init
<1>2. IInv /\ [Next]_vars => [Ledger!Next]_(Ledger!lvars)
  BY StepUsesLedger DEF LedgerStep, ledger, Ledger!lvars
<1>3. Init => IInv
  BY InitInv
<1>4. IInv /\ [Next]_vars => IInv'
  BY NextInv
<1> QED
  BY <1>1, <1>2, <1>3, <1>4, PTL DEF Spec, UsesLedger, Ledger!Spec
=============================================================================
