---------------------- MODULE CapabilityKernelProofs -----------------------
(***************************************************************************)
(* Theorems about CapabilityKernel, for any submissions and events, any    *)
(* number of steps, attempts and crashes, with or without failing disks.   *)
(***************************************************************************)
EXTENDS CapabilityKernel, SequenceTheorems, TLAPS

Begun == <<"received", "normalized", "matched", "planned", "running">>

Whole == <<"received", "normalized", "matched", "planned", "running",
           "validating", "completed">>

(* The lives of runs that end before their handlers ... *)
Unexecuted ==
  {<<"received", "rejected">>,
   <<"received", "normalized", "rejected">>,
   <<"received", "normalized", "ignored">>,
   <<"received", "normalized", "matched", "approval_required">>,
   <<"received", "normalized", "matched", "rejected">>}

(* ... and of those that end with or after them. *)
Ended ==
  {<<"received", "normalized", "matched", "planned", "running", "failed">>,
   <<"received", "normalized", "matched", "planned", "running",
     "validating", "failed">>,
   Whole}

Lives == Unexecuted \cup Ended

Duplicate == <<"received", "normalized", "ignored">>

(* What holds of run r while its record is n: its transitions are those of *)
(* its phase; what it saw, or came after, is in the journal; and it has    *)
(* its output before it queues for its append.                             *)
RunInv(r, n) ==
  /\ n.at = "absent" => n.trace = <<>>
  /\ n.at = "reading" \/ n.at = "checking" => n.trace = <<"received">>
  /\ n.at = "handling" => n.trace = Begun
  /\ n.at = "saving" => n.trace = Whole
  /\ n.at = "appending" \/ n.at = "answered" => n.trace \in Lives
  /\ n.at = "refused" \/ n.at = "lost" =>
       n.trace \in Lives \cup {<<"received">>, Begun}
  /\ n.seen => ExecutedAlready(n.event)
  /\ n.late => /\ ExecutedAlready(n.event)
               /\ n.at = "checking" => n.seen
               /\ n.trace \in Unexecuted \cup {<<>>, <<"received">>}
  /\ n.at = "appending" \/ n.at = "answered" =>
       /\ n.verdict = "runnable" /\ n.trace = Duplicate => ExecutedAlready(n.event)
       /\ n.trace = Whole => r \in outputs

ChainInv ==
  /\ \A i \in 1..Len(chain) : run[chain[i]].at = "appending"
  /\ \A i, j \in 1..Len(chain) : chain[i] = chain[j] => i = j

JournalInv ==
  \A rec \in journal :
    /\ run[rec.run].at = "answered"
    /\ rec.event = run[rec.run].event
    /\ rec.trace = run[rec.run].trace

(* The inductive invariant. *)
KernelInv ==
  /\ TypeOK
  /\ \A r \in Runs : RunInv(r, run[r])
  /\ ChainInv
  /\ JournalInv
  /\ \A r \in Runs : run[r].at = "answered" => \E rec \in journal : rec.run = r

-----------------------------------------------------------------------------
(* The lives of a run *)

LEMMA StatesAre ==
  States = {"received", "normalized", "matched", "planned", "running", "validating",
            "completed", "ignored", "rejected", "approval_required", "failed"}
BY DEF States, AllowedTransitions, TerminalStates

LEMMA LivesTyped ==
  /\ Lives \subseteq Seq(States)
  /\ Begun \in Seq(States)
  /\ <<"received">> \in Seq(States)
  /\ <<>> \in Seq(States)
BY StatesAre DEF Lives, Unexecuted, Ended, Begun, Whole

LEMMA Joined ==
  ASSUME NEW S, NEW s \in Seq(S), NEW u \in Seq(S), NEW t \in Seq(S),
         Len(t) = Len(s) + Len(u),
         \A i \in 1..Len(s) : t[i] = s[i],
         \A i \in 1..Len(u) : t[Len(s) + i] = u[i]
  PROVE  s \o u = t
<1>1. /\ s \o u \in Seq(S)
      /\ Len(s \o u) = Len(s) + Len(u)
      /\ \A i \in 1..(Len(s) + Len(u)) :
           (s \o u)[i] = IF i <= Len(s) THEN s[i] ELSE u[i - Len(s)]
  BY ConcatProperties
<1>2. ASSUME NEW i \in 1..Len(s \o u)
      PROVE  (s \o u)[i] = t[i]
  <2>1. Len(s) \in Nat /\ Len(u) \in Nat
    BY LenProperties
  <2>2. CASE i <= Len(s)
    BY <1>1, <2>1, <2>2
  <2>3. CASE i > Len(s)
    <3>1. i - Len(s) \in 1..Len(u) /\ Len(s) + (i - Len(s)) = i
      BY <1>1, <2>1, <2>3
    <3>2. t[Len(s) + (i - Len(s))] = u[i - Len(s)]
      BY <3>1
    <3>3. QED
      BY <1>1, <2>1, <2>3, <3>1, <3>2
  <2>4. QED
    BY <2>1, <2>2, <2>3
<1>3. Len(s \o u) = Len(t)
  BY <1>1
<1>4. QED
  BY <1>1, <1>2, <1>3, SeqEqual, Zenon

LEMMA OneAndOne ==
  ASSUME NEW S, NEW a \in S, NEW b \in S
  PROVE  <<a>> \o <<b>> = <<a, b>>
<1> DEFINE s == <<a>>  u == <<b>>  t == <<a, b>>
<1>1. s \in Seq(S) /\ u \in Seq(S) /\ t \in Seq(S)
  OBVIOUS
<1>2. Len(s) = 1 /\ Len(u) = 1 /\ Len(t) = 2
  OBVIOUS
<1>3. t[1] = s[1] /\ t[2] = u[1]
  OBVIOUS
<1> HIDE DEF s, u, t
<1>4. /\ \A i \in 1..Len(s) : i = 1
      /\ \A i \in 1..Len(u) : i = 1 /\ Len(s) + i = 2
  BY <1>2
<1>5. /\ Len(t) = Len(s) + Len(u)
      /\ \A i \in 1..Len(s) : t[i] = s[i]
      /\ \A i \in 1..Len(u) : t[Len(s) + i] = u[i]
  BY <1>2, <1>3, <1>4
<1>6. s \o u = t
  BY <1>1, <1>5, Joined
<1>7. QED
  BY <1>6 DEF s, u, t

LEMMA OneAndTwo ==
  ASSUME NEW S, NEW a \in S, NEW b \in S, NEW c \in S
  PROVE  <<a>> \o <<b, c>> = <<a, b, c>>
<1> DEFINE s == <<a>>  u == <<b, c>>  t == <<a, b, c>>
<1>1. s \in Seq(S) /\ u \in Seq(S) /\ t \in Seq(S)
  OBVIOUS
<1>2. /\ Len(t) = Len(s) + Len(u)
      /\ \A i \in 1..Len(s) : t[i] = s[i]
      /\ \A i \in 1..Len(u) : t[Len(s) + i] = u[i]
  OBVIOUS
<1> HIDE DEF s, u, t
<1>3. s \o u = t
  BY <1>1, <1>2, Joined
<1>4. QED
  BY <1>3 DEF s, u, t

LEMMA OneAndThree ==
  ASSUME NEW S, NEW a \in S, NEW b \in S, NEW c \in S, NEW d \in S
  PROVE  <<a>> \o <<b, c, d>> = <<a, b, c, d>>
<1> DEFINE s == <<a>>  u == <<b, c, d>>  t == <<a, b, c, d>>
<1>1. s \in Seq(S) /\ u \in Seq(S) /\ t \in Seq(S)
  OBVIOUS
<1>2. /\ Len(t) = Len(s) + Len(u)
      /\ \A i \in 1..Len(s) : t[i] = s[i]
      /\ \A i \in 1..Len(u) : t[Len(s) + i] = u[i]
  OBVIOUS
<1> HIDE DEF s, u, t
<1>3. s \o u = t
  BY <1>1, <1>2, Joined
<1>4. QED
  BY <1>3 DEF s, u, t

LEMMA OneAndFour ==
  ASSUME NEW S, NEW a \in S, NEW b \in S, NEW c \in S, NEW d \in S, NEW e \in S
  PROVE  <<a>> \o <<b, c, d, e>> = <<a, b, c, d, e>>
<1> DEFINE s == <<a>>  u == <<b, c, d, e>>  t == <<a, b, c, d, e>>
<1>1. s \in Seq(S) /\ u \in Seq(S) /\ t \in Seq(S)
  OBVIOUS
<1>2. /\ Len(t) = Len(s) + Len(u)
      /\ \A i \in 1..Len(s) : t[i] = s[i]
      /\ \A i \in 1..Len(u) : t[Len(s) + i] = u[i]
  OBVIOUS
<1> HIDE DEF s, u, t
<1>3. s \o u = t
  BY <1>1, <1>2, Joined
<1>4. QED
  BY <1>3 DEF s, u, t

LEMMA FiveAndOne ==
  ASSUME NEW S, NEW a \in S, NEW b \in S, NEW c \in S, NEW d \in S, NEW e \in S, NEW f \in S
  PROVE  <<a, b, c, d, e>> \o <<f>> = <<a, b, c, d, e, f>>
<1> DEFINE s == <<a, b, c, d, e>>  u == <<f>>  t == <<a, b, c, d, e, f>>
<1>1. s \in Seq(S) /\ u \in Seq(S) /\ t \in Seq(S)
  OBVIOUS
<1>2. /\ Len(t) = Len(s) + Len(u)
      /\ \A i \in 1..Len(s) : t[i] = s[i]
      /\ \A i \in 1..Len(u) : t[Len(s) + i] = u[i]
  OBVIOUS
<1> HIDE DEF s, u, t
<1>3. s \o u = t
  BY <1>1, <1>2, Joined
<1>4. QED
  BY <1>3 DEF s, u, t

LEMMA FiveAndTwo ==
  ASSUME NEW S, NEW a \in S, NEW b \in S, NEW c \in S, NEW d \in S, NEW e \in S, NEW f \in S, NEW g \in S
  PROVE  <<a, b, c, d, e>> \o <<f, g>> = <<a, b, c, d, e, f, g>>
<1> DEFINE s == <<a, b, c, d, e>>  u == <<f, g>>  t == <<a, b, c, d, e, f, g>>
<1>1. s \in Seq(S) /\ u \in Seq(S) /\ t \in Seq(S)
  OBVIOUS
<1>2. /\ Len(t) = Len(s) + Len(u)
      /\ \A i \in 1..Len(s) : t[i] = s[i]
      /\ \A i \in 1..Len(u) : t[Len(s) + i] = u[i]
  OBVIOUS
<1> HIDE DEF s, u, t
<1>3. s \o u = t
  BY <1>1, <1>2, Joined
<1>4. QED
  BY <1>3 DEF s, u, t

(* What the verdict adds to a fresh record. *)
LEMMA Paths ==
  /\ \A v \in Verdicts : v # "runnable" => <<"received">> \o Path(v) \in Unexecuted
  /\ <<"received">> \o Path("runnable") = Begun
  /\ <<"received">> \o <<"normalized", "ignored">> = Duplicate
  /\ \A v \in {"invalid", "untrusted"} : <<"received">> \o Path(v) # Duplicate
<1> USE StatesAre
<1>1. <<"received">> \o <<"rejected">> = <<"received", "rejected">>
  BY OneAndOne
<1>2. /\ <<"received">> \o <<"normalized", "rejected">> =
           <<"received", "normalized", "rejected">>
      /\ <<"received">> \o <<"normalized", "ignored">> = Duplicate
  BY OneAndTwo DEF Duplicate
<1>3. /\ <<"received">> \o <<"normalized", "matched", "approval_required">> =
           <<"received", "normalized", "matched", "approval_required">>
      /\ <<"received">> \o <<"normalized", "matched", "rejected">> =
           <<"received", "normalized", "matched", "rejected">>
  BY OneAndThree
<1>4. <<"received">> \o <<"normalized", "matched", "planned", "running">> = Begun
  BY OneAndFour DEF Begun
<1>5. /\ Path("invalid") = <<"rejected">>
      /\ Path("untrusted") = <<"normalized", "rejected">>
      /\ Path("unmatched") = <<"normalized", "ignored">>
      /\ Path("ambiguous") = <<"normalized", "rejected">>
      /\ Path("approval") = <<"normalized", "matched", "approval_required">>
      /\ Path("ineligible") = <<"normalized", "matched", "rejected">>
      /\ Path("unplannable") = <<"normalized", "matched", "rejected">>
      /\ Path("runnable") = <<"normalized", "matched", "planned", "running">>
  BY DEF Path
<1>6. /\ <<"received", "rejected">> # Duplicate
      /\ <<"received", "normalized", "rejected">> # Duplicate
  BY DEF Duplicate
<1>7. QED
  BY <1>1, <1>2, <1>3, <1>4, <1>5, <1>6, Zenon DEF Unexecuted, Duplicate, Verdicts

LEMMA Endings ==
  /\ Begun \o <<"failed">> \in Ended
  /\ Begun \o <<"failed">> # Whole
  /\ Begun \o <<"validating", "failed">> \in Ended
  /\ Begun \o <<"validating", "failed">> # Whole
  /\ Begun \o <<"validating", "completed">> = Whole
<1>1. /\ "received" \in States /\ "normalized" \in States /\ "matched" \in States
      /\ "planned" \in States /\ "running" \in States /\ "validating" \in States
      /\ "completed" \in States /\ "failed" \in States
  BY StatesAre
<1>2. Begun \o <<"failed">> =
        <<"received", "normalized", "matched", "planned", "running", "failed">>
  BY ONLY <1>1, FiveAndOne DEF Begun
<1>3. Begun \o <<"validating", "failed">> =
        <<"received", "normalized", "matched", "planned", "running",
          "validating", "failed">>
  BY ONLY <1>1, FiveAndTwo DEF Begun
<1>4. Begun \o <<"validating", "completed">> = Whole
  BY ONLY <1>1, FiveAndTwo DEF Begun, Whole
<1>5. QED
  BY <1>2, <1>3, <1>4 DEF Ended, Whole

(* Only the lives that go through running are executions. *)
LEMMA WhichExecuted ==
  /\ \A t \in Unexecuted \cup {<<>>, <<"received">>} : ~Executed(t)
  /\ \A t \in Ended \cup {Begun} : Executed(t)
<1>1. \A t \in Unexecuted \cup {<<>>, <<"received">>} : ~Executed(t)
  BY DEF Unexecuted, Executed, ToSet
<1>2. ASSUME NEW t \in Ended \cup {Begun}
      PROVE  Executed(t)
  <2>1. 5 \in DOMAIN t /\ t[5] = "running"
    BY DEF Ended, Begun, Whole
  <2>2. QED
    BY <2>1 DEF Executed, ToSet
<1>3. QED
  BY <1>1, <1>2

LEMMA LastOf ==
  \A t \in Lives : /\ Last(t) \in TerminalStates
                   /\ Last(t) = "completed" => t = Whole
                   /\ Last(t) = "ignored" => t = Duplicate
<1>1. /\ Last(<<"received", "rejected">>) = "rejected"
      /\ Last(<<"received", "normalized", "rejected">>) = "rejected"
      /\ Last(Duplicate) = "ignored"
      /\ Last(<<"received", "normalized", "matched", "approval_required">>) =
           "approval_required"
      /\ Last(<<"received", "normalized", "matched", "rejected">>) = "rejected"
  BY DEF Last, Duplicate
<1>2. /\ Last(<<"received", "normalized", "matched", "planned", "running",
                "failed">>) = "failed"
      /\ Last(<<"received", "normalized", "matched", "planned", "running",
                "validating", "failed">>) = "failed"
      /\ Last(Whole) = "completed"
  BY DEF Last, Whole
<1>3. ASSUME NEW t \in Unexecuted
      PROVE  /\ Last(t) \in TerminalStates /\ Last(t) # "completed"
             /\ Last(t) = "ignored" => t = Duplicate
  BY <1>1, Zenon DEF Unexecuted, Duplicate, TerminalStates
<1>4. ASSUME NEW t \in Ended
      PROVE  /\ Last(t) \in TerminalStates /\ Last(t) # "ignored"
             /\ Last(t) = "completed" => t = Whole
  BY <1>2, Zenon DEF Ended, TerminalStates
<1>5. QED
  BY <1>3, <1>4 DEF Lives

-----------------------------------------------------------------------------
(* The steps *)

(* Submission r changes its record to n, outside the journal. *)
LEMMA RunChanges ==
  ASSUME KernelInv, NEW r \in Runs, NEW n \in RunRecord,
         run[r].at # "appending", run[r].at # "answered", n.at # "answered",
         run' = [run EXCEPT ![r] = n],
         \/ n.at # "appending" /\ chain' = chain
         \/ n.at = "appending" /\ chain' = Append(chain, r),
         journal' = journal,
         outputs \subseteq outputs', outputs' \subseteq Runs,
         crashes' = crashes,
         RunInv(r, n)'
  PROVE  KernelInv'
<1> USE DEF KernelInv
<1>1. chain' \in Seq(Runs)
  BY AppendProperties DEF TypeOK
<1>2. TypeOK'
  BY <1>1 DEF TypeOK
<1>3. run'[r] = n /\ \A q \in Runs : q # r => run'[q] = run[q]
  BY DEF TypeOK
<1>4. ASSUME NEW q \in Runs
      PROVE  RunInv(q, run[q])'
  <2>1. CASE q = r
    BY <1>3, <2>1
  <2>2. CASE q # r
    <3>1. RunInv(q, run[q])
      OBVIOUS
    <3>2. run'[q] = run[q]
      BY <1>3, <2>2
    <3>3. QED
      BY <3>1, <3>2 DEF RunInv, ExecutedAlready
  <2>3. QED
    BY <2>1, <2>2
<1>5. ChainInv'
  <2>1. \A i \in 1..Len(chain) : chain[i] # r /\ chain[i] \in Runs
    BY ElementOfSeq DEF ChainInv, TypeOK
  <2>2. \A i \in 1..Len(chain) : run'[chain[i]].at = "appending"
    BY <1>3, <2>1 DEF ChainInv
  <2>3. CASE n.at # "appending" /\ chain' = chain
    BY <2>2, <2>3 DEF ChainInv
  <2>4. CASE n.at = "appending" /\ chain' = Append(chain, r)
    <3>1. /\ Len(chain) \in Nat /\ Len(chain') = Len(chain) + 1
          /\ \A i \in 1..Len(chain) : chain'[i] = chain[i]
          /\ chain'[Len(chain) + 1] = r
      BY <2>4, AppendProperties, LenProperties DEF TypeOK
    <3>2. \A i \in 1..Len(chain') : i \in 1..Len(chain) \/ i = Len(chain) + 1
      BY <3>1
    <3>3. \A i \in 1..Len(chain') : run'[chain'[i]].at = "appending"
      BY <1>3, <2>2, <2>4, <3>1, <3>2
    <3>4. \A i, j \in 1..Len(chain') : chain'[i] = chain'[j] => i = j
      BY <2>1, <3>1, <3>2 DEF ChainInv
    <3>5. QED
      BY <3>3, <3>4 DEF ChainInv
  <2>5. QED
    BY <2>3, <2>4
<1>6. JournalInv'
  <2>1. \A rec \in journal : rec.run \in Runs /\ rec.run # r
    BY DEF JournalInv, TypeOK
  <2>2. QED
    BY <1>3, <2>1 DEF JournalInv
<1>7. (\A q \in Runs : run[q].at = "answered" => \E rec \in journal : rec.run = q)'
  BY <1>3
<1>8. QED
  BY <1>2, <1>4, <1>5, <1>6, <1>7

LEMMA InitHolds == Init => KernelInv
<1> SUFFICES ASSUME Init
             PROVE  KernelInv
  OBVIOUS
<1>1. PICK e \in Events :
        run = [r \in Runs |->
                 [at |-> "absent", event |-> e, verdict |-> "invalid",
                  seen |-> FALSE, late |-> FALSE, step |-> 0, attempt |-> 0,
                  trace |-> <<>>]]
  BY DEF Init
<1>2. \A r \in Runs : run[r] \in RunRecord
  BY <1>1, KernelConstants, LivesTyped DEF RunRecord, Phases, Verdicts
<1>3. TypeOK
  BY <1>1, <1>2, EmptySeq DEF Init, TypeOK
<1>4. \A r \in Runs : RunInv(r, run[r])
  BY <1>1 DEF RunInv
<1>5. ChainInv /\ JournalInv
  BY EmptySeq DEF Init, ChainInv, JournalInv
<1>6. QED
  BY <1>1, <1>3, <1>4, <1>5 DEF KernelInv

(* A late submission finds an execution of its event in the journal. *)
LEMMA AnsweredExecutions ==
  ASSUME KernelInv, NEW q \in Runs, run[q].at = "answered", Executed(run[q].trace)
  PROVE  ExecutedAlready(run[q].event)
<1>1. PICK rec \in journal : rec.run = q
  BY DEF KernelInv
<1>2. rec.event = run[q].event /\ rec.trace = run[q].trace
  BY <1>1 DEF KernelInv, JournalInv
<1>3. QED
  BY <1>2 DEF ExecutedAlready

LEMMA SubmitKeeps ==
  ASSUME KernelInv, NEW r \in Runs, NEW e \in Events, NEW v \in Verdicts,
         Submit(r, e, v)
  PROVE  KernelInv'
<1> DEFINE late == \E q \in Runs : /\ run[q].at = "answered" /\ run[q].event = e
                                   /\ Executed(run[q].trace)
           fresh == [at |-> "reading", event |-> e, verdict |-> v, seen |-> FALSE,
                     late |-> late, step |-> 0, attempt |-> 0,
                     trace |-> <<"received">>]
<1>1. late \in BOOLEAN /\ (late => ExecutedAlready(e))
  BY AnsweredExecutions
<1>2. /\ run[r].at # "appending" /\ run[r].at # "answered"
      /\ journal' = journal /\ outputs' = outputs /\ crashes' = crashes
      /\ IF v \in {"invalid", "untrusted"}
         THEN Finish(r, [fresh EXCEPT !.trace = @ \o Path(v)])
         ELSE run' = [run EXCEPT ![r] = fresh] /\ chain' = chain
  BY DEF Submit
<1>3. PICK b \in BOOLEAN : b = late
  BY <1>1
<1>4. b => ExecutedAlready(e)'
  BY <1>1, <1>2, <1>3 DEF ExecutedAlready
<1>5. outputs \subseteq Runs
  BY DEF KernelInv, TypeOK
<1>6. CASE v \in {"invalid", "untrusted"}
  <2>1. PICK t : t = <<"received">> \o Path(v)
    OBVIOUS
  <2>2. t \in Unexecuted /\ t # Duplicate /\ t # Whole /\ t \in Seq(States)
    BY <1>6, <2>1, Paths, LivesTyped, WhichExecuted DEF Lives, Ended
  <2>3. PICK n : n = [at |-> "appending", event |-> e, verdict |-> v, seen |-> FALSE,
                      late |-> b, step |-> 0, attempt |-> 0, trace |-> t]
    OBVIOUS
  <2>4. n \in RunRecord
    BY <2>2, <2>3, KernelConstants DEF RunRecord, Phases
  <2>5. run' = [run EXCEPT ![r] = n] /\ chain' = Append(chain, r)
    BY <1>2, <1>3, <1>6, <2>1, <2>3 DEF Finish
  <2>6. RunInv(r, n)'
    BY <1>4, <2>2, <2>3 DEF RunInv, Lives
  <2>7. QED
    BY <1>2, <1>5, <2>3, <2>4, <2>5, <2>6, RunChanges
<1>7. CASE v \notin {"invalid", "untrusted"}
  <2>1. PICK n : n = [at |-> "reading", event |-> e, verdict |-> v, seen |-> FALSE,
                      late |-> b, step |-> 0, attempt |-> 0,
                      trace |-> <<"received">>]
    OBVIOUS
  <2>2. n \in RunRecord
    BY <2>1, KernelConstants, LivesTyped DEF RunRecord, Phases
  <2>3. run' = [run EXCEPT ![r] = n] /\ chain' = chain
    BY <1>2, <1>3, <1>7, <2>1
  <2>4. RunInv(r, n)'
    BY <1>4, <2>1 DEF RunInv
  <2>5. QED
    BY <1>2, <1>5, <2>1, <2>2, <2>3, <2>4, RunChanges
<1>8. QED
  BY <1>6, <1>7

LEMMA JournalReadKeeps ==
  ASSUME KernelInv, NEW r \in Runs, JournalRead(r)
  PROVE  KernelInv'
<1>1. PICK b \in BOOLEAN : b = ExecutedAlready(run[r].event)
  BY DEF ExecutedAlready
<1>2. PICK n : n = [run[r] EXCEPT !.at = "checking", !.seen = b]
  OBVIOUS
<1>3. run[r] \in RunRecord /\ outputs \subseteq Runs /\ RunInv(r, run[r])
  BY DEF KernelInv, TypeOK
<1>4. n \in RunRecord /\ n.at = "checking"
  BY <1>2, <1>3 DEF RunRecord, Phases
<1>5. /\ run[r].at = "reading" /\ run' = [run EXCEPT ![r] = n]
      /\ journal' = journal /\ outputs' = outputs /\ chain' = chain
      /\ crashes' = crashes
  BY <1>1, <1>2, <1>3 DEF JournalRead, KernelInv, TypeOK, RunRecord
<1>6. RunInv(r, n)'
  <2>1. /\ n.event = run[r].event /\ n.late = run[r].late /\ n.seen = b
        /\ n.trace = <<"received">>
    BY <1>2, <1>3, <1>5 DEF RunRecord, RunInv
  <2>2. ExecutedAlready(run[r].event) => ExecutedAlready(n.event)'
    BY <1>5, <2>1 DEF ExecutedAlready
  <2>3. n.late => ExecutedAlready(run[r].event)
    BY <1>3, <2>1 DEF RunInv
  <2>4. QED
    BY <1>1, <1>4, <2>1, <2>2, <2>3 DEF RunInv
<1>7. QED
  BY <1>3, <1>4, <1>5, <1>6, RunChanges

(* Submission r joins the append chain with the life t. *)
LEMMA FinishKeeps ==
  ASSUME KernelInv, NEW r \in Runs, NEW t \in Lives,
         run[r].at # "appending", run[r].at # "answered",
         Finish(r, [run[r] EXCEPT !.trace = t]),
         journal' = journal, crashes' = crashes,
         outputs \subseteq outputs', outputs' \subseteq Runs,
         run[r].late => t \in Unexecuted,
         run[r].verdict = "runnable" /\ t = Duplicate =>
           ExecutedAlready(run[r].event),
         t = Whole => r \in outputs'
  PROVE  KernelInv'
<1>1. run[r] \in RunRecord /\ RunInv(r, run[r]) /\ t \in Seq(States)
  BY LivesTyped DEF KernelInv, TypeOK
<1>2. PICK n : n = [run[r] EXCEPT !.at = "appending", !.trace = t]
  OBVIOUS
<1>3. n \in RunRecord /\ n.at = "appending" /\ n.trace = t
  BY <1>1, <1>2 DEF RunRecord, Phases
<1>4. run' = [run EXCEPT ![r] = n] /\ chain' = Append(chain, r)
  BY <1>1, <1>2 DEF Finish, RunRecord
<1>5. RunInv(r, n)'
  <2>1. /\ n.event = run[r].event /\ n.late = run[r].late
        /\ n.seen = run[r].seen /\ n.verdict = run[r].verdict
    BY <1>1, <1>2 DEF RunRecord
  <2>2. ExecutedAlready(run[r].event) => ExecutedAlready(n.event)'
    BY <2>1 DEF ExecutedAlready
  <2>3. n.seen \/ n.late => ExecutedAlready(run[r].event)
    BY <1>1, <2>1 DEF RunInv
  <2>4. QED
    BY <1>3, <2>1, <2>2, <2>3 DEF RunInv
<1>6. QED
  BY <1>3, <1>4, <1>5, RunChanges

(* Submission r stays out of the chain and goes on from phase p with a     *)
(* trace that phase allows.                                                *)
LEMMA GoesOnKeeps ==
  ASSUME KernelInv, NEW r \in Runs, NEW p \in {"handling", "saving", "refused"},
         NEW t \in {Begun, Whole}, NEW i \in 0..StepCount, NEW k \in 0..MaxAttempts,
         run[r].at # "appending", run[r].at # "answered", ~run[r].late,
         p = "handling" => t = Begun, p = "saving" => t = Whole,
         run' = [run EXCEPT ![r] =
                   [@ EXCEPT !.at = p, !.step = i, !.attempt = k, !.trace = t]],
         journal' = journal, chain' = chain, outputs' = outputs, crashes' = crashes
  PROVE  KernelInv'
<1>1. /\ run[r] \in RunRecord /\ RunInv(r, run[r]) /\ t \in Seq(States)
      /\ t \in Lives \cup {Begun} /\ outputs \subseteq Runs
  BY LivesTyped DEF KernelInv, TypeOK, Lives, Ended
<1>2. PICK n : n = [run[r] EXCEPT !.at = p, !.step = i, !.attempt = k, !.trace = t]
  OBVIOUS
<1>3. n \in RunRecord /\ n.at = p /\ n.trace = t
  BY <1>1, <1>2 DEF RunRecord, Phases
<1>4. run' = [run EXCEPT ![r] = n]
  BY <1>1, <1>2 DEF RunRecord
<1>5. RunInv(r, n)'
  <2>1. n.event = run[r].event /\ ~n.late /\ n.seen = run[r].seen
    BY <1>1, <1>2 DEF RunRecord
  <2>2. n.seen => ExecutedAlready(n.event)'
    BY <1>1, <2>1 DEF RunInv, ExecutedAlready
  <2>3. QED
    BY <1>1, <1>3, <2>1, <2>2 DEF RunInv
<1>6. QED
  BY <1>1, <1>3, <1>4, <1>5, RunChanges

(* Who reaches the handlers was not late. *)
LEMMA HandlersNotLate ==
  ASSUME KernelInv, NEW r \in Runs, run[r].at = "handling" \/ run[r].at = "saving"
  PROVE  /\ ~run[r].late
         /\ run[r].at = "handling" => run[r].trace = Begun
         /\ run[r].at = "saving" => run[r].trace = Whole
<1>1. RunInv(r, run[r])
  BY DEF KernelInv
<1>2. run[r].trace = Begun \/ run[r].trace = Whole
  BY <1>1 DEF RunInv
<1>3. Executed(run[r].trace)
  BY <1>2, WhichExecuted DEF Ended
<1>4. QED
  BY <1>1, <1>3, WhichExecuted DEF RunInv

LEMMA CheckEndsKeeps ==
  ASSUME KernelInv, NEW r \in Runs, CheckEnds(r)
  PROVE  KernelInv'
<1>1. /\ run[r].at = "checking" /\ run[r].trace = <<"received">>
      /\ run[r] \in RunRecord /\ RunInv(r, run[r])
      /\ journal' = journal /\ outputs' = outputs /\ crashes' = crashes
      /\ outputs \subseteq Runs
  BY DEF CheckEnds, KernelInv, RunInv, TypeOK
<1>2. CASE run[r].seen /\ Finish(r, [run[r] EXCEPT !.trace =
                                       @ \o <<"normalized", "ignored">>])
  <2>1. Finish(r, [run[r] EXCEPT !.trace = Duplicate])
    BY <1>1, <1>2, Paths DEF RunRecord
  <2>2. Duplicate \in Unexecuted /\ Duplicate \in Lives /\ Duplicate # Whole
    BY WhichExecuted DEF Duplicate, Unexecuted, Lives, Ended, Whole
  <2>3. ExecutedAlready(run[r].event)
    BY <1>1, <1>2 DEF RunInv
  <2>4. QED
    BY <1>1, <2>1, <2>2, <2>3, FinishKeeps
<1>3. CASE /\ ~run[r].seen /\ run[r].verdict # "runnable"
           /\ Finish(r, [run[r] EXCEPT !.trace = @ \o Path(run[r].verdict)])
  <2>1. PICK t : t = <<"received">> \o Path(run[r].verdict)
    OBVIOUS
  <2>2. Finish(r, [run[r] EXCEPT !.trace = t])
    BY <1>1, <1>3, <2>1 DEF RunRecord
  <2>3. t \in Unexecuted
    BY <1>1, <1>3, <2>1, Paths DEF RunRecord
  <2>4. t \in Lives /\ t # Whole
    BY <2>3, WhichExecuted DEF Lives, Ended
  <2>5. QED
    BY <1>1, <1>3, <2>2, <2>3, <2>4, FinishKeeps
<1>4. CASE ~run[r].seen /\ run[r].verdict = "runnable"
  <2>1. ~run[r].late
    BY <1>1, <1>4 DEF RunInv
  <2>2. CASE /\ run' = [run EXCEPT ![r] =
                          [run[r] EXCEPT !.at = "handling", !.step = 1, !.attempt = 1,
                                         !.trace = @ \o Path("runnable")]]
             /\ chain' = chain
    <3>1. run' = [run EXCEPT ![r] =
                    [@ EXCEPT !.at = "handling", !.step = 1, !.attempt = 1,
                              !.trace = Begun]]
      BY <1>1, <2>2, Paths
    <3>2. 1 \in 0..StepCount /\ 1 \in 0..MaxAttempts
      BY KernelConstants
    <3>3. QED
      BY <1>1, <2>1, <2>2, <3>1, <3>2, GoesOnKeeps
  <2>3. CASE Finish(r, [run[r] EXCEPT !.trace = @ \o Path("runnable") \o <<"failed">>])
    <3>1. PICK t : t = Begun \o <<"failed">>
      OBVIOUS
    <3>2. Finish(r, [run[r] EXCEPT !.trace = t])
      BY <1>1, <2>3, <3>1, Paths DEF RunRecord
    <3>3. t \in Lives /\ t # Whole /\ t # Duplicate
      BY <3>1, Endings, WhichExecuted DEF Lives, Unexecuted, Duplicate
    <3>4. QED
      BY <1>1, <2>1, <3>2, <3>3, FinishKeeps
  <2>4. QED
    BY <1>4, <2>2, <2>3 DEF CheckEnds
<1>5. QED
  BY <1>2, <1>3, <1>4 DEF CheckEnds

LEMMA FailKeeps ==
  ASSUME KernelInv, NEW r \in Runs, run[r].at = "handling", Fail(r),
         journal' = journal, outputs' = outputs, crashes' = crashes
  PROVE  KernelInv'
<1>1. run[r].trace = Begun /\ ~run[r].late /\ outputs \subseteq Runs
  BY HandlersNotLate DEF KernelInv, TypeOK
<1>2. PICK t : t = Begun \o <<"failed">>
  OBVIOUS
<1>3. Finish(r, [run[r] EXCEPT !.trace = t])
  BY <1>1, <1>2 DEF Fail
<1>4. t \in Lives /\ t # Whole /\ t # Duplicate
  BY <1>2, Endings, WhichExecuted DEF Lives, Unexecuted, Duplicate
<1>5. QED
  BY <1>1, <1>3, <1>4, FinishKeeps

LEMMA RetryKeeps ==
  ASSUME KernelInv, NEW r \in Runs, NEW retryable \in BOOLEAN, Retry(r, retryable)
  PROVE  KernelInv'
<1>1. /\ run[r].at = "handling" /\ run[r].trace = Begun /\ ~run[r].late
      /\ run[r] \in RunRecord
      /\ journal' = journal /\ outputs' = outputs /\ crashes' = crashes
  BY HandlersNotLate DEF Retry, KernelInv, TypeOK
<1>2. CASE /\ MayRetry(r, retryable)
           /\ run' = [run EXCEPT ![r].attempt = @ + 1]
           /\ chain' = chain
  <2>1. PICK k : k = run[r].attempt + 1
    OBVIOUS
  <2>2. k \in 0..MaxAttempts /\ run[r].step \in 0..StepCount
    BY <1>1, <1>2, <2>1, KernelConstants DEF MayRetry, RunRecord
  <2>3. run' = [run EXCEPT ![r] =
                  [@ EXCEPT !.at = "handling", !.step = run[r].step, !.attempt = k,
                            !.trace = Begun]]
    BY <1>1, <1>2, <2>1 DEF RunRecord
  <2>4. QED
    BY <1>1, <1>2, <2>2, <2>3, GoesOnKeeps
<1>3. CASE ~MayRetry(r, retryable) /\ Fail(r)
  BY <1>1, <1>3, FailKeeps
<1>4. QED
  BY <1>2, <1>3 DEF Retry

LEMMA StepSucceedsKeeps ==
  ASSUME KernelInv, NEW r \in Runs, NEW valid \in BOOLEAN, StepSucceeds(r, valid)
  PROVE  KernelInv'
<1>1. /\ run[r].at = "handling" /\ run[r].trace = Begun /\ ~run[r].late
      /\ run[r] \in RunRecord /\ outputs \subseteq Runs
      /\ journal' = journal /\ outputs' = outputs /\ crashes' = crashes
  BY HandlersNotLate DEF StepSucceeds, KernelInv, TypeOK
<1>2. CASE /\ run[r].step < StepCount
           /\ run' = [run EXCEPT ![r].step = @ + 1, ![r].attempt = 1]
           /\ chain' = chain
  <2>1. PICK i : i = run[r].step + 1
    OBVIOUS
  <2>2. i \in 0..StepCount /\ 1 \in 0..MaxAttempts
    BY <1>1, <1>2, <2>1, KernelConstants DEF RunRecord
  <2>3. run' = [run EXCEPT ![r] =
                  [@ EXCEPT !.at = "handling", !.step = i, !.attempt = 1,
                            !.trace = Begun]]
    <3>1. [run[r] EXCEPT !.step = i, !.attempt = 1] =
          [run[r] EXCEPT !.at = "handling", !.step = i, !.attempt = 1,
                         !.trace = Begun]
      BY <1>1 DEF RunRecord
    <3>2. run' = [run EXCEPT ![r] = [run[r] EXCEPT !.step = i, !.attempt = 1]]
      BY <1>1, <1>2, <2>1 DEF RunRecord, KernelInv, TypeOK
    <3>3. QED
      BY <3>1, <3>2
  <2>4. QED
    BY <1>1, <1>2, <2>2, <2>3, GoesOnKeeps
<1>3. CASE Fail(r)
  BY <1>1, <1>3, FailKeeps
<1>4. CASE /\ run' = [run EXCEPT ![r].at = "saving",
                                 ![r].trace = @ \o <<"validating", "completed">>]
           /\ chain' = chain
  <2>1. run[r].step \in 0..StepCount /\ run[r].attempt \in 0..MaxAttempts
    BY <1>1 DEF RunRecord
  <2>2. run[r].trace \o <<"validating", "completed">> = Whole
    BY <1>1, Endings
  <2>3. run' = [run EXCEPT ![r] =
                  [@ EXCEPT !.at = "saving", !.step = run[r].step,
                            !.attempt = run[r].attempt, !.trace = Whole]]
    BY <1>1, <1>4, <2>2 DEF RunRecord, KernelInv, TypeOK
  <2>4. QED
    BY <1>1, <1>4, <2>1, <2>3, GoesOnKeeps
<1>5. CASE Finish(r, [run[r] EXCEPT !.trace = @ \o <<"validating", "failed">>])
  <2>1. PICK t : t = Begun \o <<"validating", "failed">>
    OBVIOUS
  <2>2. Finish(r, [run[r] EXCEPT !.trace = t])
    BY <1>1, <1>5, <2>1
  <2>3. t \in Lives /\ t # Whole /\ t # Duplicate
    BY <2>1, Endings, WhichExecuted DEF Lives, Unexecuted, Duplicate
  <2>4. QED
    BY <1>1, <2>2, <2>3, FinishKeeps
<1>6. QED
  BY <1>2, <1>3, <1>4, <1>5 DEF StepSucceeds

LEMMA SavingKeeps ==
  ASSUME KernelInv, NEW r \in Runs, Saving(r)
  PROVE  KernelInv'
<1>1. /\ run[r].at = "saving" /\ run[r].trace = Whole /\ ~run[r].late
      /\ run[r] \in RunRecord /\ outputs \subseteq Runs
      /\ journal' = journal /\ crashes' = crashes
  BY HandlersNotLate DEF Saving, SaveOutput, SaveFails, KernelInv, TypeOK
<1>2. CASE SaveOutput(r)
  <2>1. Finish(r, [run[r] EXCEPT !.trace = Whole])
    BY <1>1, <1>2 DEF SaveOutput, RunRecord
  <2>2. Whole \in Lives /\ Whole # Duplicate
    BY WhichExecuted DEF Lives, Ended, Unexecuted, Duplicate
  <2>3. outputs' = outputs \cup {r}
    BY <1>2 DEF SaveOutput
  <2>4. QED
    BY <1>1, <2>1, <2>2, <2>3, FinishKeeps
<1>3. CASE SaveFails(r)
  <2>1. run[r].step \in 0..StepCount /\ run[r].attempt \in 0..MaxAttempts
    BY <1>1 DEF RunRecord
  <2>2. run' = [run EXCEPT ![r] =
                  [@ EXCEPT !.at = "refused", !.step = run[r].step,
                            !.attempt = run[r].attempt, !.trace = Whole]]
    BY <1>1, <1>3 DEF SaveFails, RunRecord
  <2>3. QED
    BY <1>1, <1>3, <2>1, <2>2, GoesOnKeeps DEF SaveFails
<1>4. QED
  BY <1>2, <1>3 DEF Saving

(* The head of the chain leaves it, and nobody else changes.               *)
LEMMA HeadLeaves ==
  ASSUME KernelInv, chain # <<>>, NEW r, r = Head(chain), NEW p,
         run' = [run EXCEPT ![r].at = p], chain' = Tail(chain)
  PROVE  /\ r \in Runs /\ run[r].at = "appending"
         /\ run'[r] = [run[r] EXCEPT !.at = p]
         /\ \A q \in Runs : q # r => run'[q] = run[q]
         /\ chain' \in Seq(Runs)
         /\ ChainInv'
<1>1. /\ chain \in Seq(Runs) /\ ChainInv /\ run \in [Runs -> RunRecord]
  BY DEF KernelInv, TypeOK
<1>2. /\ Len(chain) \in Nat \ {0} /\ Head(chain) = chain[1]
      /\ Tail(chain) \in Seq(Runs) /\ Len(Tail(chain)) = Len(chain) - 1
      /\ \A i \in 1..Len(Tail(chain)) : Tail(chain)[i] = chain[i + 1]
  BY <1>1, HeadTailProperties, EmptySeq, LenProperties
<1>3. 1 \in 1..Len(chain) /\ r = chain[1] /\ r \in Runs /\ run[r].at = "appending"
  BY <1>1, <1>2, ElementOfSeq DEF ChainInv
<1>4. /\ run'[r] = [run[r] EXCEPT !.at = p]
      /\ \A q \in Runs : q # r => run'[q] = run[q]
  BY <1>1, <1>3
<1>5. \A i \in 1..Len(chain') :
        /\ i + 1 \in 1..Len(chain) /\ i + 1 # 1 /\ chain'[i] = chain[i + 1]
        /\ chain[i + 1] \in Runs /\ chain[i + 1] # r
  BY <1>1, <1>2, <1>3, ElementOfSeq DEF ChainInv
<1>6. \A i \in 1..Len(chain') : run'[chain'[i]].at = "appending"
  BY <1>1, <1>4, <1>5 DEF ChainInv
<1>7. \A i, j \in 1..Len(chain') : chain'[i] = chain'[j] => i = j
  <2>1. ASSUME NEW i \in 1..Len(chain'), NEW j \in 1..Len(chain'),
               chain'[i] = chain'[j]
        PROVE  i = j
    <3>1. i + 1 = j + 1
      BY <1>1, <1>5, <2>1 DEF ChainInv
    <3>2. QED
      BY <3>1
  <2>2. QED
    BY <2>1
<1>8. QED
  BY <1>2, <1>3, <1>4, <1>6, <1>7 DEF ChainInv

LEMMA AppendEndsKeeps ==
  ASSUME KernelInv, AppendEnds
  PROVE  KernelInv'
<1>1. PICK r : r = Head(chain)
  OBVIOUS
<1>2. PICK rec : rec = [run |-> r, event |-> run[r].event, trace |-> run[r].trace]
  OBVIOUS
<1>3. /\ chain # <<>> /\ run' = [run EXCEPT ![r].at = "answered"]
      /\ chain' = Tail(chain) /\ journal' = journal \cup {rec}
      /\ outputs' = outputs /\ crashes' = crashes
  BY <1>1, <1>2 DEF AppendEnds
<1>4. /\ r \in Runs /\ run[r].at = "appending"
      /\ run'[r] = [run[r] EXCEPT !.at = "answered"]
      /\ \A q \in Runs : q # r => run'[q] = run[q]
      /\ chain' \in Seq(Runs)
      /\ ChainInv'
  BY <1>1, <1>3, HeadLeaves, ZenonT(60)
<1>5. run[r] \in RunRecord /\ RunInv(r, run[r])
  BY <1>4 DEF KernelInv, TypeOK
<1>6. /\ run'[r].at = "answered" /\ run'[r].event = run[r].event
      /\ run'[r].trace = run[r].trace /\ run'[r].seen = run[r].seen
      /\ run'[r].late = run[r].late /\ run'[r].verdict = run[r].verdict
  BY <1>4, <1>5 DEF RunRecord
<1>7. run'[r] \in RunRecord
  BY <1>4, <1>5 DEF RunRecord, Phases
<1>8. TypeOK'
  <2>1. rec \in [run: Runs, event: Events, trace: Seq(States)]
    BY <1>2, <1>4, <1>5 DEF RunRecord
  <2>2. run' \in [Runs -> RunRecord]
    BY <1>3, <1>4, <1>7 DEF KernelInv, TypeOK
  <2>3. QED
    BY <1>3, <1>4, <2>1, <2>2 DEF KernelInv, TypeOK
<1>9. \A q \in Runs : RunInv(q, run[q])'
  <2>1. \A e : ExecutedAlready(e) => ExecutedAlready(e)'
    BY <1>3 DEF ExecutedAlready
  <2>2. RunInv(r, run[r])'
    BY <1>3, <1>4, <1>5, <1>6, <2>1 DEF RunInv
  <2>3. ASSUME NEW q \in Runs, q # r
        PROVE  RunInv(q, run[q])'
    <3>1. run'[q] = run[q] /\ RunInv(q, run[q])
      BY <1>4, <2>3 DEF KernelInv
    <3>2. QED
      BY <1>3, <2>1, <3>1 DEF RunInv
  <2>4. QED
    BY <2>2, <2>3
<1>10. JournalInv'
  <2>1. \A old \in journal : old.run # r /\ old.run \in Runs
    BY <1>4 DEF KernelInv, JournalInv, TypeOK
  <2>2. QED
    BY <1>2, <1>3, <1>4, <1>6, <2>1 DEF KernelInv, JournalInv
<1>11. (\A q \in Runs : run[q].at = "answered" => \E old \in journal : old.run = q)'
  BY <1>2, <1>3, <1>4 DEF KernelInv
<1>12. QED
  BY <1>4, <1>8, <1>9, <1>10, <1>11 DEF KernelInv

LEMMA AppendFailsKeeps ==
  ASSUME KernelInv, AppendFails
  PROVE  KernelInv'
<1>1. PICK r : r = Head(chain)
  OBVIOUS
<1>2. /\ chain # <<>> /\ run' = [run EXCEPT ![r].at = "refused"]
      /\ chain' = Tail(chain)
      /\ journal' = journal /\ outputs' = outputs /\ crashes' = crashes
  BY <1>1 DEF AppendFails
<1>3. /\ r \in Runs /\ run[r].at = "appending"
      /\ run'[r] = [run[r] EXCEPT !.at = "refused"]
      /\ \A q \in Runs : q # r => run'[q] = run[q]
      /\ chain' \in Seq(Runs)
      /\ ChainInv'
  BY <1>1, <1>2, HeadLeaves, ZenonT(60)
<1>4. run[r] \in RunRecord /\ RunInv(r, run[r])
  BY <1>3 DEF KernelInv, TypeOK
<1>5. /\ run'[r].at = "refused" /\ run'[r].event = run[r].event
      /\ run'[r].trace = run[r].trace /\ run'[r].seen = run[r].seen
      /\ run'[r].late = run[r].late
  BY <1>3, <1>4 DEF RunRecord
<1>6. run'[r] \in RunRecord
  BY <1>3, <1>4 DEF RunRecord, Phases
<1>7. TypeOK'
  BY <1>2, <1>3, <1>6 DEF KernelInv, TypeOK
<1>8. \A q \in Runs : RunInv(q, run[q])'
  <2>1. \A e : ExecutedAlready(e) => ExecutedAlready(e)'
    BY <1>2 DEF ExecutedAlready
  <2>2. RunInv(r, run[r])'
    BY <1>3, <1>4, <1>5, <2>1 DEF RunInv
  <2>3. ASSUME NEW q \in Runs, q # r
        PROVE  RunInv(q, run[q])'
    <3>1. run'[q] = run[q] /\ RunInv(q, run[q])
      BY <1>3, <2>3 DEF KernelInv
    <3>2. QED
      BY <1>2, <2>1, <3>1 DEF RunInv
  <2>4. QED
    BY <2>2, <2>3
<1>9. JournalInv'
  <2>1. \A old \in journal : old.run # r /\ old.run \in Runs
    BY <1>3 DEF KernelInv, JournalInv, TypeOK
  <2>2. QED
    BY <1>2, <1>3, <2>1 DEF KernelInv, JournalInv
<1>10. (\A q \in Runs : run[q].at = "answered" => \E old \in journal : old.run = q)'
  BY <1>2, <1>3, <1>5 DEF KernelInv
<1>11. QED
  BY <1>3, <1>7, <1>8, <1>9, <1>10 DEF KernelInv

LEMMA CrashKeeps ==
  ASSUME KernelInv, Crash
  PROVE  KernelInv'
<1>1. /\ chain' = <<>> /\ journal' = journal /\ outputs' = outputs
      /\ crashes' = crashes + 1
      /\ run' = [r \in Runs |-> IF run[r].at \in Settled \cup {"absent"} THEN run[r]
                                ELSE [run[r] EXCEPT !.at = "lost"]]
  BY DEF Crash
<1>2. ASSUME NEW r \in Runs
      PROVE  /\ run'[r] \in RunRecord
             /\ RunInv(r, run[r])'
             /\ run[r].at = "answered" <=> run'[r].at = "answered"
             /\ run'[r].event = run[r].event /\ run'[r].trace = run[r].trace
  <2>1. run[r] \in RunRecord /\ RunInv(r, run[r])
    BY DEF KernelInv, TypeOK
  <2>2. \A e : ExecutedAlready(e) => ExecutedAlready(e)'
    BY <1>1 DEF ExecutedAlready
  <2>3. CASE run[r].at \in Settled \cup {"absent"}
    <3>1. run'[r] = run[r]
      BY <1>1, <2>3
    <3>2. QED
      BY <1>1, <2>1, <2>2, <3>1 DEF RunInv
  <2>4. CASE ~(run[r].at \in Settled \cup {"absent"})
    <3>1. run'[r] = [run[r] EXCEPT !.at = "lost"]
      BY <1>1, <2>4
    <3>2. /\ run'[r].at = "lost" /\ run'[r].event = run[r].event
          /\ run'[r].trace = run[r].trace /\ run'[r].seen = run[r].seen
          /\ run'[r].late = run[r].late
      BY <2>1, <3>1 DEF RunRecord
    <3>3. run'[r] \in RunRecord
      BY <2>1, <3>1 DEF RunRecord, Phases
    <3>4. run[r].trace \in Lives \cup {<<"received">>, Begun}
      BY <2>1, <2>4 DEF RunInv, RunRecord, Phases, Settled, Lives, Ended
    <3>5. RunInv(r, run[r])'
      BY <2>1, <2>2, <3>2, <3>4 DEF RunInv
    <3>6. QED
      BY <2>4, <3>2, <3>3, <3>5 DEF Settled
  <2>5. QED
    BY <2>3, <2>4
<1>3. TypeOK'
  <2>1. crashes + 1 \in Nat
    BY DEF KernelInv, TypeOK
  <2>2. QED
    BY <1>1, <1>2, <2>1, EmptySeq DEF KernelInv, TypeOK
<1>4. ChainInv'
  BY <1>1, EmptySeq DEF ChainInv
<1>5. JournalInv'
  <2>1. \A rec \in journal : rec.run \in Runs
    BY DEF KernelInv, TypeOK
  <2>2. QED
    BY <1>1, <1>2, <2>1 DEF KernelInv, JournalInv
<1>6. QED
  BY <1>1, <1>2, <1>3, <1>4, <1>5 DEF KernelInv

LEMMA KernelStep == KernelInv /\ [Next]_vars => KernelInv'
<1> SUFFICES ASSUME KernelInv, [Next]_vars
             PROVE  KernelInv'
  OBVIOUS
<1>1. ASSUME NEW r \in Runs, NEW e \in Events, NEW v \in Verdicts, Submit(r, e, v)
      PROVE  KernelInv'
  BY <1>1, SubmitKeeps
<1>2. ASSUME NEW r \in Runs, JournalRead(r)
      PROVE  KernelInv'
  BY <1>2, JournalReadKeeps
<1>3. ASSUME NEW r \in Runs, CheckEnds(r)
      PROVE  KernelInv'
  BY <1>3, CheckEndsKeeps
<1>4. ASSUME NEW r \in Runs, NEW valid \in BOOLEAN, StepSucceeds(r, valid)
      PROVE  KernelInv'
  BY <1>4, StepSucceedsKeeps
<1>5. ASSUME NEW r \in Runs, OutputInvalid(r)
      PROVE  KernelInv'
  BY <1>5, FailKeeps DEF OutputInvalid
<1>6. ASSUME NEW r \in Runs, HandlerThrows(r)
      PROVE  KernelInv'
  BY <1>6, RetryKeeps DEF HandlerThrows
<1>7. ASSUME NEW r \in Runs, HandlerTimesOut(r)
      PROVE  KernelInv'
  BY <1>7, RetryKeeps, KernelConstants DEF HandlerTimesOut
<1>8. ASSUME NEW r \in Runs, Saving(r)
      PROVE  KernelInv'
  BY <1>8, SavingKeeps
<1>9. CASE Appending
  BY <1>9, AppendEndsKeeps, AppendFailsKeeps DEF Appending
<1>10. CASE Crash
  BY <1>10, CrashKeeps
<1>11. CASE UNCHANGED vars
  BY <1>11 DEF vars, KernelInv, TypeOK, RunInv, ExecutedAlready, ChainInv, JournalInv
<1>12. QED
  BY <1>1, <1>2, <1>3, <1>4, <1>5, <1>6, <1>7, <1>8, <1>9, <1>10, <1>11
     DEF Next, Handling

LEMMA InvariantHolds == Spec => []KernelInv
BY InitHolds, KernelStep, PTL DEF Spec

-----------------------------------------------------------------------------
(* The theorems *)

(* The kernel, its journal and its append chain stay well typed.           *)
THEOREM TypeCorrect == Spec => []TypeOK
<1>1. KernelInv => TypeOK
  BY DEF KernelInv
<1>2. QED
  BY <1>1, InvariantHolds, PTL

(* appendRunRecord before finish returns: an answered submission has its   *)
(* one record, with the transitions that were answered, after any crash.   *)
THEOREM AnswersAreRecorded == Spec => []AnsweredIsRecorded
<1>1. KernelInv => AnsweredIsRecorded
  <2> SUFFICES ASSUME KernelInv, NEW r \in Runs
               PROVE  /\ {rec \in journal : rec.run = r} \subseteq
                           {[run |-> r, event |-> run[r].event,
                             trace |-> run[r].trace]}
                      /\ run[r].at = "answered" => \E rec \in journal : rec.run = r
    BY DEF AnsweredIsRecorded
  <2>1. ASSUME NEW rec \in journal, rec.run = r
        PROVE  rec = [run |-> r, event |-> run[r].event, trace |-> run[r].trace]
    <3>1. rec \in [run: Runs, event: Events, trace: Seq(States)]
      BY DEF KernelInv, TypeOK
    <3>2. rec.event = run[r].event /\ rec.trace = run[r].trace
      BY <2>1 DEF KernelInv, JournalInv
    <3>3. QED
      BY <2>1, <3>1, <3>2
  <2>2. QED
    BY <2>1 DEF KernelInv
<1>2. QED
  BY <1>1, InvariantHolds, PTL

(* writeOutput before appendRunRecord: whatever fails and whenever the     *)
(* process dies, the output of a run recorded as completed exists.         *)
THEOREM OutputsExist == Spec => []CompletedHasOutput
<1>1. KernelInv => CompletedHasOutput
  <2> SUFFICES ASSUME KernelInv, NEW rec \in journal, Last(rec.trace) = "completed"
               PROVE  rec.run \in outputs
    BY DEF CompletedHasOutput
  <2>1. /\ rec.run \in Runs /\ RunInv(rec.run, run[rec.run])
        /\ run[rec.run].at = "answered" /\ rec.trace = run[rec.run].trace
    BY DEF KernelInv, TypeOK, JournalInv
  <2>2. rec.trace \in Lives
    BY <2>1 DEF RunInv
  <2>3. rec.trace = Whole
    BY <2>2, LastOf
  <2>4. QED
    BY <2>1, <2>3 DEF RunInv
<1>2. QED
  BY <1>1, InvariantHolds, PTL

(* hasExecutedEvent: once an execution of an event was answered, no later  *)
(* submission of that event reaches a handler, not even after a crash.     *)
THEOREM NoSecondExecution == Spec => []NeverRunAgain
<1>1. KernelInv => NeverRunAgain
  BY WhichExecuted DEF KernelInv, RunInv, NeverRunAgain
<1>2. QED
  BY <1>1, InvariantHolds, PTL

(* hasExecutedEvent: a runnable event is recorded as ignored only if some  *)
(* record of the same event tells an execution.                            *)
THEOREM DuplicatesOnly == Spec => []IgnoredForAReason
<1>1. KernelInv => IgnoredForAReason
  <2> SUFFICES ASSUME KernelInv, NEW rec \in journal,
                      run[rec.run].verdict = "runnable", Last(rec.trace) = "ignored"
               PROVE  ExecutedAlready(rec.event)
    BY DEF IgnoredForAReason, ExecutedAlready
  <2>1. /\ rec.run \in Runs /\ RunInv(rec.run, run[rec.run])
        /\ run[rec.run].at = "answered" /\ rec.trace = run[rec.run].trace
        /\ rec.event = run[rec.run].event
    BY DEF KernelInv, TypeOK, JournalInv
  <2>2. rec.trace \in Lives
    BY <2>1 DEF RunInv
  <2>3. rec.trace = Duplicate
    BY <2>2, LastOf
  <2>4. QED
    BY <2>1, <2>3 DEF RunInv
<1>2. QED
  BY <1>1, InvariantHolds, PTL

(* Every life follows the table of the kernel. *)
LEMMA LivesLegal ==
  ASSUME NEW t \in Lives \cup {<<"received">>, Begun}
  PROVE  /\ t[1] = "received"
         /\ \A i \in 1..(Len(t) - 1) : /\ t[i] \notin TerminalStates
                                       /\ t[i + 1] \in AllowedTransitions[t[i]]
<1>1. /\ t[1] = "received" /\ Len(t) \in 1..7
      /\ Len(t) >= 2 => t[2] \in {"normalized", "rejected"}
      /\ Len(t) >= 3 => /\ t[2] = "normalized"
                        /\ t[3] \in {"matched", "ignored", "rejected"}
      /\ Len(t) >= 4 => /\ t[3] = "matched"
                        /\ t[4] \in {"planned", "approval_required", "rejected"}
      /\ Len(t) >= 5 => t[4] = "planned" /\ t[5] = "running"
      /\ Len(t) >= 6 => t[6] \in {"validating", "failed"}
      /\ Len(t) >= 7 => t[6] = "validating" /\ t[7] \in {"completed", "failed"}
  <2>1. CASE t \in Unexecuted
    <3>1. CASE t = <<"received", "rejected">>
      BY <3>1
    <3>2. CASE t = <<"received", "normalized", "rejected">>
      BY <3>2
    <3>3. CASE t = <<"received", "normalized", "ignored">>
      BY <3>3
    <3>4. CASE t = <<"received", "normalized", "matched", "approval_required">>
      BY <3>4
    <3>5. CASE t = <<"received", "normalized", "matched", "rejected">>
      BY <3>5
    <3>6. QED
      BY <2>1, <3>1, <3>2, <3>3, <3>4, <3>5 DEF Unexecuted
  <2>2. CASE t \in Ended
    <3>1. CASE t = <<"received", "normalized", "matched", "planned", "running",
                   "failed">>
      BY <3>1
    <3>2. CASE t = <<"received", "normalized", "matched", "planned", "running",
                   "validating", "failed">>
      BY <3>2
    <3>3. CASE t = Whole
      BY <3>3 DEF Whole
    <3>4. QED
      BY <2>2, <3>1, <3>2, <3>3 DEF Ended
  <2>3. CASE t \in {<<"received">>, Begun}
    BY <2>3 DEF Begun
  <2>4. QED
    BY <2>1, <2>2, <2>3 DEF Lives
<1>2. ASSUME NEW i \in 1..(Len(t) - 1)
      PROVE  t[i] \notin TerminalStates /\ t[i + 1] \in AllowedTransitions[t[i]]
  <2>1. i \in 1..6 /\ Len(t) >= i + 1
    <3>1. PICK n \in 1..7 : n = Len(t)
      BY <1>1
    <3>2. i \in 1..(n - 1)
      BY <3>1
    <3>3. i \in 1..6 /\ n >= i + 1
      BY <3>2
    <3>4. QED
      BY <3>1, <3>3
  <2>2. CASE i = 1
    BY <1>1, <2>1, <2>2 DEF TerminalStates, AllowedTransitions
  <2>3. CASE i = 2
    BY <1>1, <2>1, <2>3 DEF TerminalStates, AllowedTransitions
  <2>4. CASE i = 3
    BY <1>1, <2>1, <2>4 DEF TerminalStates, AllowedTransitions
  <2>5. CASE i = 4
    BY <1>1, <2>1, <2>5 DEF TerminalStates, AllowedTransitions
  <2>6. CASE i = 5
    BY <1>1, <2>1, <2>6 DEF TerminalStates, AllowedTransitions
  <2>7. CASE i = 6
    BY <1>1, <2>1, <2>7 DEF TerminalStates, AllowedTransitions
  <2>8. QED
    BY <2>1, <2>2, <2>3, <2>4, <2>5, <2>6, <2>7
<1>3. QED
  BY <1>1, <1>2

(* transition and finish: no submission ever leaves the table of allowed   *)
(* transitions, and only a terminal state is recorded.                     *)
THEOREM LivesAreLegal == Spec => []LegalLife
<1>1. KernelInv => LegalLife
  <2> SUFFICES ASSUME KernelInv, NEW r \in Runs, run[r].at # "absent"
               PROVE  LET trace == run[r].trace
                      IN  /\ trace[1] = "received"
                          /\ \A i \in 1..(Len(trace) - 1) :
                               /\ trace[i] \notin TerminalStates
                               /\ trace[i + 1] \in AllowedTransitions[trace[i]]
                          /\ run[r].at \in {"appending", "answered"} =>
                               Last(trace) \in TerminalStates
    BY DEF LegalLife
  <2>1. PICK t : t = run[r].trace
    OBVIOUS
  <2>2. RunInv(r, run[r]) /\ run[r] \in RunRecord
    BY DEF KernelInv, TypeOK
  <2>3. t \in Lives \cup {<<"received">>, Begun}
    BY <2>1, <2>2 DEF RunInv, RunRecord, Phases, Lives, Ended
  <2>4. run[r].at \in {"appending", "answered"} => Last(t) \in TerminalStates
    BY <2>1, <2>2, LastOf DEF RunInv
  <2>5. QED
    BY <2>1, <2>3, <2>4, LivesLegal
<1>2. QED
  BY <1>1, InvariantHolds, PTL

-----------------------------------------------------------------------------
(* What the settling of every submission rests on.  That all are settled   *)
(* is a liveness property; its safety part is that no submission goes back *)
(* or stands in line without an append that will come to it.               *)

Rank == [absent |-> 0, reading |-> 1, checking |-> 2, handling |-> 3, saving |-> 4,
         appending |-> 5, answered |-> 6, refused |-> 6, lost |-> 6]

(* From record m to record n a submission gets further: to a later phase,  *)
(* or within its handlers to a later step or to a later attempt at one.    *)
Later(m, n) ==
  \/ Rank[m.at] < Rank[n.at]
  \/ /\ m.at = "handling" /\ n.at = "handling"
     /\ \/ m.step < n.step
        \/ m.step = n.step /\ m.attempt < n.attempt

Onward == \A r \in Runs : run'[r] = run[r] \/ Later(run[r], run'[r])

(* Every submission whose record is complete is in the append chain.       *)
Queued == \A r \in Runs : run[r].at = "appending" => \E i \in 1..Len(chain) : chain[i] = r

LEMMA LaterPhases ==
  ASSUME NEW m, NEW n, m.at \in Phases, n.at \in Phases,
         \/ m.at = "absent" /\ n.at \in {"reading", "appending"}
         \/ m.at = "reading" /\ n.at = "checking"
         \/ m.at = "checking" /\ n.at \in {"handling", "appending"}
         \/ m.at = "handling" /\ n.at \in {"saving", "appending"}
         \/ m.at = "saving" /\ n.at \in {"appending", "refused"}
         \/ m.at = "appending" /\ n.at \in {"answered", "refused"}
         \/ m.at \notin Settled \cup {"absent"} /\ n.at = "lost"
  PROVE  Later(m, n)
BY DEF Later, Rank, Phases, Settled

(* What a turn of submission r does to it, to the others and to the chain. *)
Turned(r) ==
  /\ Later(run[r], run'[r])
  /\ \A q \in Runs : q # r => run'[q] = run[q]
  /\ \/ run'[r].at # "appending" /\ chain' = chain
     \/ run'[r].at = "appending" /\ chain' = Append(chain, r)

LEMMA FinishTurns ==
  ASSUME TypeOK, NEW r \in Runs, NEW t,
         run[r].at \in {"absent", "checking", "handling", "saving"},
         Finish(r, [run[r] EXCEPT !.trace = t])
  PROVE  Turned(r)
<1>1. /\ run[r] \in RunRecord /\ run \in [Runs -> RunRecord]
  BY DEF TypeOK
<1>2. /\ run'[r].at = "appending" /\ chain' = Append(chain, r)
      /\ \A q \in Runs : q # r => run'[q] = run[q]
  BY <1>1 DEF Finish, RunRecord
<1>3. Later(run[r], run'[r])
  BY <1>2, LaterPhases DEF Phases
<1>. QED  BY <1>2, <1>3 DEF Turned

LEMMA SubmitTurns ==
  ASSUME TypeOK, NEW r \in Runs, NEW e \in Events, NEW v \in Verdicts, Submit(r, e, v)
  PROVE  Turned(r)
<1>1. run \in [Runs -> RunRecord]
  BY DEF TypeOK
<1>2. PICK fresh :
        /\ \E late : fresh = [at |-> "reading", event |-> e, verdict |-> v, seen |-> FALSE,
                             late |-> late, step |-> 0, attempt |-> 0,
                             trace |-> <<"received">>]
        /\ \/ run' = [run EXCEPT ![r] = fresh] /\ chain' = chain
           \/ Finish(r, [fresh EXCEPT !.trace = @ \o Path(v)])
  BY DEF Submit
<1>3. /\ \/ run'[r].at = "reading" /\ chain' = chain
         \/ run'[r].at = "appending" /\ chain' = Append(chain, r)
      /\ \A q \in Runs : q # r => run'[q] = run[q]
  <2>1. fresh.at = "reading" /\ DOMAIN fresh = {"at", "event", "verdict", "seen", "late",
                                                "step", "attempt", "trace"}
    BY <1>2
  <2>2. CASE run' = [run EXCEPT ![r] = fresh] /\ chain' = chain
    BY <1>1, <2>1, <2>2
  <2>3. CASE Finish(r, [fresh EXCEPT !.trace = @ \o Path(v)])
    <3>1. [[fresh EXCEPT !.trace = @ \o Path(v)] EXCEPT !.at = "appending"].at = "appending"
      BY <2>1
    <3>. QED  BY <1>1, <2>3, <3>1 DEF Finish
  <2>. QED  BY <1>2, <2>2, <2>3
<1>4. run[r].at = "absent"
  BY DEF Submit
<1>5. Later(run[r], run'[r])
  BY <1>3, <1>4, LaterPhases DEF Phases
<1>. QED  BY <1>3, <1>5 DEF Turned

LEMMA CheckTurns ==
  ASSUME TypeOK, NEW r \in Runs, JournalRead(r) \/ CheckEnds(r)
  PROVE  Turned(r)
<1>1. /\ run[r] \in RunRecord /\ run \in [Runs -> RunRecord]
  BY DEF TypeOK
<1>2. CASE \E t : Finish(r, [run[r] EXCEPT !.trace = t]) /\ run[r].at = "checking"
  BY <1>2, FinishTurns
<1>3. CASE /\ \/ run[r].at = "reading" /\ run'[r].at = "checking"
              \/ run[r].at = "checking" /\ run'[r].at = "handling"
           /\ \A q \in Runs : q # r => run'[q] = run[q]
           /\ chain' = chain
  <2>1. Later(run[r], run'[r])
    BY <1>3, LaterPhases DEF Phases
  <2>. QED  BY <1>3, <2>1 DEF Turned
<1>4. CASE JournalRead(r)
  <2>1. /\ run[r].at = "reading" /\ run'[r].at = "checking" /\ chain' = chain
        /\ \A q \in Runs : q # r => run'[q] = run[q]
    BY <1>1, <1>4 DEF JournalRead, RunRecord
  <2>. QED  BY <1>3, <2>1
<1>5. CASE CheckEnds(r)
  <2>1. \/ \E t : Finish(r, [run[r] EXCEPT !.trace = t]) /\ run[r].at = "checking"
        \/ /\ run[r].at = "checking" /\ chain' = chain
           /\ run' = [run EXCEPT ![r] =
                     [run[r] EXCEPT !.at = "handling", !.step = 1, !.attempt = 1,
                                    !.trace = @ \o Path("runnable")]]
    BY <1>5 DEF CheckEnds
  <2>2. ASSUME run' = [run EXCEPT ![r] =
                     [run[r] EXCEPT !.at = "handling", !.step = 1, !.attempt = 1,
                                    !.trace = @ \o Path("runnable")]]
        PROVE  run'[r].at = "handling" /\ \A q \in Runs : q # r => run'[q] = run[q]
    BY <1>1, <2>2 DEF RunRecord
  <2>. QED  BY <1>2, <1>3, <2>1, <2>2
<1>. QED  BY <1>4, <1>5

LEMMA HandlingTurns ==
  ASSUME TypeOK, NEW r \in Runs, Handling(r)
  PROVE  Turned(r)
<1>1. /\ run[r] \in RunRecord /\ run \in [Runs -> RunRecord]
      /\ run[r].step \in Nat /\ run[r].attempt \in Nat
  BY DEF TypeOK, RunRecord
<1>2. run[r].at = "handling"
  BY DEF Handling, StepSucceeds, OutputInvalid, HandlerThrows, HandlerTimesOut, Retry
<1>3. \/ \E t : Finish(r, [run[r] EXCEPT !.trace = t])
      \/ chain' = chain /\ run' = [run EXCEPT ![r].step = @ + 1, ![r].attempt = 1]
      \/ chain' = chain /\ run' = [run EXCEPT ![r].at = "saving",
                              ![r].trace = @ \o <<"validating", "completed">>]
      \/ chain' = chain /\ run' = [run EXCEPT ![r].attempt = @ + 1]
  BY DEF Handling, StepSucceeds, OutputInvalid, HandlerThrows, HandlerTimesOut, Retry, Fail
<1>4. CASE \E t : Finish(r, [run[r] EXCEPT !.trace = t])
  BY <1>2, <1>4, FinishTurns
<1>5. CASE chain' = chain /\ run' = [run EXCEPT ![r].step = @ + 1, ![r].attempt = 1]
  <2>1. /\ run'[r].at = "handling" /\ run'[r].step = run[r].step + 1
        /\ \A q \in Runs : q # r => run'[q] = run[q]
    BY <1>1, <1>2, <1>5 DEF RunRecord
  <2>. QED  BY <1>1, <1>2, <1>5, <2>1 DEF Turned, Later
<1>6. CASE chain' = chain /\ run' = [run EXCEPT ![r].at = "saving",
                              ![r].trace = @ \o <<"validating", "completed">>]
  <2>1. /\ run'[r].at = "saving"
        /\ \A q \in Runs : q # r => run'[q] = run[q]
    BY <1>1, <1>6 DEF RunRecord
  <2>2. Later(run[r], run'[r])
    BY <1>2, <2>1, LaterPhases DEF Phases
  <2>. QED  BY <1>6, <2>1, <2>2 DEF Turned
<1>7. CASE chain' = chain /\ run' = [run EXCEPT ![r].attempt = @ + 1]
  <2>1. /\ run'[r].at = "handling" /\ run'[r].step = run[r].step
        /\ run'[r].attempt = run[r].attempt + 1
        /\ \A q \in Runs : q # r => run'[q] = run[q]
    BY <1>1, <1>2, <1>7 DEF RunRecord
  <2>. QED  BY <1>1, <1>2, <1>7, <2>1 DEF Turned, Later
<1>. QED  BY <1>3, <1>4, <1>5, <1>6, <1>7

LEMMA SavingTurns ==
  ASSUME TypeOK, NEW r \in Runs, Saving(r)
  PROVE  Turned(r)
<1>1. /\ run[r] \in RunRecord /\ run \in [Runs -> RunRecord] /\ run[r].at = "saving"
  BY DEF TypeOK, Saving, SaveOutput, SaveFails
<1>2. \/ run'[r].at = "refused" /\ chain' = chain
      \/ run'[r].at = "appending" /\ chain' = Append(chain, r)
  BY <1>1 DEF Saving, SaveOutput, SaveFails, Finish, RunRecord
<1>3. \A q \in Runs : q # r => run'[q] = run[q]
  BY <1>1 DEF Saving, SaveOutput, SaveFails, Finish
<1>4. Later(run[r], run'[r])
  BY <1>1, <1>2, LaterPhases DEF Phases
<1>. QED  BY <1>2, <1>3, <1>4 DEF Turned

(* A turn puts a complete record at the end of the chain.                  *)
LEMMA TurnQueues ==
  ASSUME TypeOK, Queued, NEW r \in Runs, Turned(r)
  PROVE  Queued' /\ Onward
<1>1. Onward
  BY DEF Turned, Onward
<1>2. ASSUME NEW q \in Runs, run'[q].at = "appending"
      PROVE  \E i \in 1..Len(chain') : chain'[i] = q
  <2>1. CASE chain' = chain
    <3>1. run[q].at = "appending"
      BY <1>2, <2>1 DEF Turned
    <3>. QED  BY <2>1, <3>1 DEF Queued
  <2>2. CASE chain' = Append(chain, r)
    <3>1. /\ Len(chain) \in Nat /\ Len(chain') = Len(chain) + 1
          /\ \A i \in 1..Len(chain) : chain'[i] = chain[i]
          /\ chain'[Len(chain) + 1] = r
      BY <2>2, AppendProperties, LenProperties DEF TypeOK
    <3>2. CASE q = r
      BY <3>1, <3>2
    <3>3. CASE q # r
      <4>1. PICK i \in 1..Len(chain) : chain[i] = q
        BY <1>2, <3>3 DEF Turned, Queued
      <4>. QED  BY <3>1, <4>1
    <3>. QED  BY <3>2, <3>3
  <2>. QED  BY <2>1, <2>2 DEF Turned
<1>. QED  BY <1>1, <1>2 DEF Queued

(* An append that ends, or fails, leaves the others in the chain.          *)
LEMMA AppendingQueues ==
  ASSUME KernelInv, Queued, Appending
  PROVE  Queued' /\ Onward
<1>1. /\ chain # <<>> /\ chain' = Tail(chain)
      /\ \E p \in {"answered", "refused"} : run' = [run EXCEPT ![Head(chain)].at = p]
  BY DEF Appending, AppendEnds, AppendFails
<1>2. PICK p \in {"answered", "refused"} : run' = [run EXCEPT ![Head(chain)].at = p]
  BY <1>1
<1>. DEFINE r == Head(chain)
<1>3. /\ r \in Runs /\ run[r].at = "appending"
      /\ run'[r] = [run[r] EXCEPT !.at = p]
      /\ \A q \in Runs : q # r => run'[q] = run[q]
  BY <1>1, <1>2, HeadLeaves
<1>4. /\ Len(chain) \in Nat \ {0} /\ r = chain[1]
      /\ Len(chain') = Len(chain) - 1
      /\ \A i \in 1..Len(chain') : chain'[i] = chain[i + 1]
  BY <1>1, HeadTailProperties, EmptySeq, LenProperties DEF KernelInv, TypeOK
<1>. HIDE DEF r
<1>5. run'[r].at = p
  BY <1>3 DEF KernelInv, TypeOK, RunRecord
<1>6. Later(run[r], run'[r])
  <2>1. run[r].at = "appending" /\ run'[r].at \in {"answered", "refused"}
    BY <1>2, <1>3, <1>5
  <2>. QED  BY <2>1, LaterPhases DEF Phases
<1>7. Onward
  BY <1>3, <1>6 DEF Onward
<1>8. ASSUME NEW q \in Runs, run'[q].at = "appending"
      PROVE  \E i \in 1..Len(chain') : chain'[i] = q
  <2>1. q # r /\ run[q].at = "appending"
    BY <1>3, <1>5, <1>8
  <2>2. PICK i \in 1..Len(chain) : chain[i] = q
    BY <2>1 DEF Queued
  <2>3. i - 1 \in 1..Len(chain') /\ (i - 1) + 1 = i
    BY <1>4, <2>1, <2>2
  <2>. QED  BY <1>4, <2>2, <2>3
<1>. QED  BY <1>7, <1>8 DEF Queued

LEMMA CrashMoves ==
  ASSUME TypeOK, Crash
  PROVE  Queued' /\ Onward
<1>1. ASSUME NEW r \in Runs
      PROVE  /\ run'[r].at # "appending"
             /\ run'[r] = run[r] \/ Later(run[r], run'[r])
  <2>1. run[r] \in RunRecord /\ run[r].at \in Phases
    BY DEF TypeOK, RunRecord
  <2>2. CASE run[r].at \in Settled \cup {"absent"}
    BY <2>2 DEF Crash, Settled
  <2>3. CASE run[r].at \notin Settled \cup {"absent"}
    <3>1. run'[r].at = "lost"
      BY <2>1, <2>3 DEF Crash, RunRecord
    <3>2. Later(run[r], run'[r])
      BY <2>1, <2>3, <3>1, LaterPhases DEF Phases
    <3>. QED  BY <3>1, <3>2
  <2>. QED  BY <2>2, <2>3
<1>. QED  BY <1>1 DEF Queued, Onward

LEMMA QueueStep ==
  KernelInv /\ Queued /\ [Next]_vars => Queued' /\ [Onward]_vars
<1>. SUFFICES ASSUME KernelInv, Queued, [Next]_vars PROVE Queued' /\ [Onward]_vars
  OBVIOUS
<1>0. TypeOK
  BY DEF KernelInv
<1>1. ASSUME NEW r \in Runs,
             \/ \E e \in Events, v \in Verdicts : Submit(r, e, v)
             \/ JournalRead(r) \/ CheckEnds(r) \/ Handling(r) \/ Saving(r)
      PROVE  Queued' /\ Onward
  <2>1. Turned(r)
    BY <1>0, <1>1, SubmitTurns, CheckTurns, HandlingTurns, SavingTurns
  <2>. QED  BY <1>0, <2>1, TurnQueues
<1>2. CASE UNCHANGED vars
  BY <1>2 DEF vars, Queued
<1>. QED  BY <1>0, <1>1, <1>2, AppendingQueues, CrashMoves DEF Next

(* appendChain forgets nobody: a submission that waits for its append is   *)
(* in the chain, whatever appends before it failed.                        *)
THEOREM AppendsAreQueued == Spec => []Queued
<1>1. Init => Queued
  BY DEF Init, Queued
<1>. QED  BY <1>1, InvariantHolds, QueueStep, PTL DEF Spec

(* No submission ever goes back: it moves to later phases, and within its  *)
(* handlers to later steps and attempts, of which there are finitely many; *)
(* one that was answered, refused or lost is never touched again.          *)
THEOREM SubmissionsMoveForward == Spec => [][Onward]_vars
<1>1. Init => Queued
  BY DEF Init, Queued
<1>. QED  BY <1>1, InvariantHolds, QueueStep, PTL DEF Spec
=============================================================================
