--------------------------- MODULE WorkerShellProofs ---------------------------
(***************************************************************************)
(* Theorems about the worker loops of a process and what they use, for any *)
(* loops, resources and tenants.                                           *)
(***************************************************************************)
EXTENDS WorkerShell, TLAPS
--------------------------------------------------------------------------------
(***************************************************************************)
(* Sequences                                                               *)
(***************************************************************************)
\* The same elements come last ones first.
LEMMA Reversed ==
  ASSUME NEW S, NEW s \in Seq(S)
  PROVE  Reverse(s) \in Seq(S) /\ Range(Reverse(s)) = Range(s)
<1>1. Len(s) \in Nat /\ DOMAIN s = 1..Len(s)
  OBVIOUS
<1>2. Reverse(s) = [i \in 1..Len(s) |-> s[(Len(s) - i) + 1]]
  BY DEF Reverse
<1>3. \A i \in 1..Len(s) : /\ Len(s) - i + 1 \in 1..Len(s)
                           /\ Len(s) - (Len(s) - i + 1) + 1 = i
  BY <1>1
<1>4. Reverse(s) \in Seq(S)
  BY <1>1, <1>2, <1>3
<1>5. ASSUME NEW x \in Range(Reverse(s)) PROVE x \in Range(s)
  BY <1>1, <1>2, <1>3, <1>5 DEF Range
<1>6. ASSUME NEW x \in Range(s) PROVE x \in Range(Reverse(s))
  <2>1. PICK i \in 1..Len(s) : x = s[i]
    BY <1>1 DEF Range
  <2>2. x = Reverse(s)[Len(s) - i + 1] /\ Len(s) - i + 1 \in DOMAIN Reverse(s)
    BY <1>2, <1>3, <2>1
  <2> QED
    BY <2>2 DEF Range
<1> QED
  BY <1>4, <1>5, <1>6

\* The elements of two sequences, one after the other.
LEMMA Joining ==
  ASSUME NEW S, NEW s \in Seq(S), NEW t \in Seq(S)
  PROVE  /\ s \o t \in Seq(S)
         /\ \A i \in 1..Len(s \o t) :
               \/ i \in 1..Len(s) /\ (s \o t)[i] = s[i]
               \/ i > Len(s) /\ i - Len(s) \in 1..Len(t) /\ (s \o t)[i] = t[i - Len(s)]
         /\ Range(s \o t) = Range(s) \cup Range(t)
<1>1. /\ s \o t \in Seq(S) /\ Len(s \o t) = Len(s) + Len(t)
      /\ Len(s) \in Nat /\ Len(t) \in Nat
      /\ DOMAIN s = 1..Len(s) /\ DOMAIN t = 1..Len(t)
      /\ DOMAIN (s \o t) = 1..(Len(s) + Len(t))
  OBVIOUS
<1>2. \A i \in 1..Len(s \o t) :
         \/ i \in 1..Len(s) /\ (s \o t)[i] = s[i]
         \/ i > Len(s) /\ i - Len(s) \in 1..Len(t) /\ (s \o t)[i] = t[i - Len(s)]
  BY <1>1
<1>3. Range(s \o t) \subseteq Range(s) \cup Range(t)
  BY <1>1, <1>2 DEF Range
<1>4. Range(s) \subseteq Range(s \o t)
  <2> SUFFICES ASSUME NEW i \in 1..Len(s)
               PROVE  s[i] \in Range(s \o t)
      BY <1>1 DEF Range
  <2>1. i \in DOMAIN (s \o t) /\ (s \o t)[i] = s[i]
    BY <1>1
  <2> QED
    BY <2>1 DEF Range
<1>5. Range(t) \subseteq Range(s \o t)
  <2> SUFFICES ASSUME NEW i \in 1..Len(t)
               PROVE  t[i] \in Range(s \o t)
      BY <1>1 DEF Range
  <2>1. Len(s) + i \in DOMAIN (s \o t) /\ (s \o t)[Len(s) + i] = t[i]
    BY <1>1
  <2> QED
    BY <2>1 DEF Range
<1> QED
  BY <1>1, <1>2, <1>3, <1>4, <1>5

\* The first element and the others.
LEMMA HeadAndTail ==
  ASSUME NEW S, NEW s \in Seq(S), s # << >>
  PROVE  /\ Head(s) \in S /\ Head(s) = s[1] /\ Tail(s) \in Seq(S)
         /\ Len(s) \in Nat /\ 1 \in 1..Len(s) /\ Len(Tail(s)) = Len(s) - 1
         /\ \A i \in 1..Len(Tail(s)) : i + 1 \in 1..Len(s) /\ Tail(s)[i] = s[i + 1]
         /\ Range(s) = {Head(s)} \cup Range(Tail(s))
<1>1. /\ Head(s) \in S /\ Head(s) = s[1] /\ Tail(s) \in Seq(S)
      /\ Len(s) \in Nat /\ 1 \in 1..Len(s) /\ Len(Tail(s)) = Len(s) - 1
      /\ DOMAIN s = 1..Len(s) /\ DOMAIN Tail(s) = 1..Len(Tail(s))
  OBVIOUS
<1>2. \A i \in 1..Len(Tail(s)) : i + 1 \in 1..Len(s) /\ Tail(s)[i] = s[i + 1]
  BY <1>1
<1>3. Range(Tail(s)) \subseteq Range(s) /\ Head(s) \in Range(s)
  BY <1>1, <1>2 DEF Range
<1>4. ASSUME NEW i \in 1..Len(s), i # 1
      PROVE  s[i] \in Range(Tail(s))
  <2>1. i - 1 \in 1..Len(Tail(s)) /\ Tail(s)[i - 1] = s[i]
    BY <1>1, <1>2, <1>4
  <2> QED
    BY <1>1, <2>1 DEF Range
<1>5. Range(s) \subseteq {Head(s)} \cup Range(Tail(s))
  BY <1>1, <1>4 DEF Range
<1> QED
  BY <1>1, <1>2, <1>3, <1>5
--------------------------------------------------------------------------------
(***************************************************************************)
(* Types                                                                   *)
(***************************************************************************)
LEMMA AgendaType == Agenda \in Seq(Loops \cup Resources)
<1> DEFINE S == Loops \cup Resources
<1>1. QualityLoops \in Seq(S) /\ <<EmbeddingLoop>> \in Seq(S)
  BY WorkerShellAssumption DEF Loops
<1>2. QualityOwned \in Seq(S) /\ RetrievalOwned \in Seq(S)
  BY WorkerShellAssumption
<1>3. /\ Reverse(QualityLoops) \in Seq(S) /\ Reverse(QualityOwned) \in Seq(S)
      /\ Reverse(RetrievalOwned) \in Seq(S)
  BY <1>1, <1>2, Reversed
<1> HIDE DEF S
<1>4. Agenda \in Seq(S)
  BY <1>1, <1>3 DEF Agenda
<1> QED
  BY <1>4 DEF S

LEMMA TypeStep == TypeOK /\ [Next]_vars => TypeOK'
<1> SUFFICES ASSUME TypeOK, [Next]_vars
             PROVE  TypeOK'
    OBVIOUS
<1>1. CASE Build
  <2>1. BuildOrder[built + 1] \in Resources
    BY <1>1, WorkerShellAssumption DEF TypeOK, Build
  <2> QED
    BY <1>1, <2>1, WorkerShellAssumption DEF TypeOK, Build
<1>2. CASE BuildFails
  <2>1. AbandonOrder \in Seq(Loops \cup Resources)
    BY WorkerShellAssumption
  <2> QED
    BY <1>2, <2>1 DEF TypeOK, BuildFails
<1>3. CASE Start
  BY <1>3 DEF TypeOK, Start, TaskStates
<1>4. CASE Shutdown
  BY <1>4, AgendaType DEF TypeOK, Shutdown
<1>5. CASE Cancel
  BY <1>5 DEF TypeOK, Cancel
<1>6. CASE Joined
  BY <1>6, HeadAndTail DEF TypeOK, Joined, Ending
<1>7. CASE Close
  BY <1>7, HeadAndTail DEF TypeOK, Close, Ending
<1>8. CASE Exit
  BY <1>8 DEF TypeOK, Exit
<1>9. ASSUME NEW l \in Loops, LoopStep(l)
      PROVE  TypeOK'
  <2>1. task' \in [Loops -> TaskStates]
    BY <1>9 DEF TypeOK, TaskStates, LoopStep, RunOnce, RunEnds, Wake, Deliver, Unwind
  <2>2. turn' \in [Loops -> Nat \ {0}]
    BY <1>9 DEF TypeOK, LoopStep, RunOnce, RunEnds, Wake, Deliver, Unwind
  <2>3. cancelled' \subseteq Loops /\ UNCHANGED <<phase, built, open, stop, agenda>>
    BY <1>9 DEF TypeOK, LoopStep, RunOnce, RunEnds, Wake, Deliver, Unwind
  <2> QED
    BY <2>1, <2>2, <2>3 DEF TypeOK
<1>10. CASE UNCHANGED vars
  BY <1>10 DEF TypeOK, vars
<1> QED
  BY <1>1, <1>2, <1>3, <1>4, <1>5, <1>6, <1>7, <1>8, <1>9, <1>10 DEF Next, Ends

(***************************************************************************)
(* The states of a process have their types at all times (WorkerShell).    *)
(***************************************************************************)
THEOREM TypeCorrect == Spec => []TypeOK
<1>1. Init => TypeOK
  BY WorkerShellAssumption DEF Init, TypeOK, TaskStates
<1> QED
  BY <1>1, TypeStep, PTL DEF Spec
--------------------------------------------------------------------------------
(***************************************************************************)
(* Closing                                                                 *)
(***************************************************************************)
\* Nothing is to be closed before a loop that uses it.
LoopsFirst(s) ==
    \A i, j \in 1..Len(s) :
        i < j /\ s[i] \in Resources /\ s[j] \in Loops => s[i] \notin Uses[s[j]]

(***************************************************************************)
(* What makes closing safe: until a loop has ended, what it uses is open,  *)
(* and while the process ends the loop is still on the agenda, before all  *)
(* that it uses.  A loop that has not started uses nothing.                *)
(***************************************************************************)
Sound ==
    /\ phase \in {"building", "abandoning"} => \A l \in Loops : task[l] \in {"none", "ended"}
    /\ phase = "building" => open = {BuildOrder[i] : i \in 1..built}
    /\ phase \in {"serving", "closing"} =>
          \A l \in Loops : task[l] = "ended" \/ Uses[l] \subseteq open
    /\ phase = "closing" =>
          /\ \A l \in Loops : task[l] = "ended" \/ l \in Range(agenda)
          /\ LoopsFirst(agenda)
    /\ phase = "down" => \A l \in Loops : task[l] \in {"none", "ended"}

\* The orders of the two lifecycles, one after the other, have the loops first.
LEMMA AgendaInOrder ==
    Loops \subseteq Range(Agenda) /\ LoopsFirst(Agenda)
<1> DEFINE S == Loops \cup Resources
           QL == Reverse(QualityLoops)
           QO == Reverse(QualityOwned)
           EL == <<EmbeddingLoop>>
           RO == Reverse(RetrievalOwned)
<1>1. /\ QL \in Seq(Range(QualityLoops)) /\ Range(QL) = Range(QualityLoops)
      /\ QO \in Seq(Resources) /\ Range(QO) = Range(QualityOwned)
      /\ RO \in Seq(Resources)
  BY WorkerShellAssumption, Reversed
<1>2. QL \in Seq(S) /\ QO \in Seq(S) /\ EL \in Seq(S) /\ RO \in Seq(S)
  <2>1. Range(QualityLoops) \subseteq S /\ EmbeddingLoop \in S /\ Resources \subseteq S
    BY DEF Loops
  <2> QED
    BY <1>1, <2>1
<1>3. /\ \A i \in 1..Len(QL) : QL[i] \in Range(QualityLoops)
      /\ \A i \in 1..Len(QO) : QO[i] \in Range(QualityOwned) /\ QO[i] \in Resources
      /\ Len(EL) = 1 /\ EL[1] = EmbeddingLoop /\ Range(EL) = {EmbeddingLoop}
      /\ \A i \in 1..Len(RO) : RO[i] \in Resources
  <2> HIDE DEF QL, QO, RO
  <2>1. \A i \in 1..Len(QL) : QL[i] \in Range(QualityLoops)
    BY <1>1
  <2>2. \A i \in 1..Len(QO) : QO[i] \in Range(QO) /\ QO[i] \in Resources
    BY <1>1 DEF Range
  <2>3. Len(EL) = 1 /\ EL[1] = EmbeddingLoop
    OBVIOUS
  <2>4. Range(EL) = {EmbeddingLoop}
    BY DEF Range
  <2>5. \A i \in 1..Len(RO) : RO[i] \in Resources
    BY <1>1
  <2> QED
    BY <1>1, <2>1, <2>2, <2>3, <2>4, <2>5
<1>4. Loops \cap Resources = {} /\ Uses[EmbeddingLoop] \cap Range(QualityOwned) = {}
  BY WorkerShellAssumption
<1> DEFINE First == QL \o QO
           Second == First \o EL
<1>5. Agenda = Second \o RO
  BY DEF Agenda
<1> HIDE DEF S, QL, QO, EL, RO
<1>6. /\ First \in Seq(S) /\ Range(First) = Range(QL) \cup Range(QO)
      /\ \A i \in 1..Len(First) :
            \/ First[i] \in Range(QualityLoops) /\ i \in 1..Len(QL)
            \/ First[i] \in Resources /\ First[i] \in Range(QualityOwned) /\ i > Len(QL)
  BY <1>2, <1>3, Joining
<1> HIDE DEF First
<1>7. /\ Second \in Seq(S) /\ Range(Second) = Range(First) \cup Range(EL)
      /\ \A i \in 1..Len(Second) :
            \/ Second[i] \in Range(QualityLoops) /\ i \in 1..Len(QL)
            \/ /\ Second[i] \in Resources /\ Second[i] \in Range(QualityOwned)
               /\ i > Len(QL)
            \/ Second[i] = EmbeddingLoop /\ i > Len(QL)
  <2>1. /\ Second \in Seq(S) /\ Range(Second) = Range(First) \cup Range(EL)
        /\ \A i \in 1..Len(Second) :
              \/ i \in 1..Len(First) /\ Second[i] = First[i]
              \/ i > Len(First) /\ i - Len(First) \in 1..Len(EL) /\ Second[i] = EL[i - Len(First)]
    BY <1>2, <1>6, Joining
  <2>2. Len(QL) \in Nat /\ Len(First) \in Nat /\ Len(QL) <= Len(First)
    BY <1>2 DEF First
  <2> QED
    BY <1>3, <1>6, <2>1, <2>2
<1> HIDE DEF Second
<1>8. /\ Agenda \in Seq(S) /\ Range(Agenda) = Range(Second) \cup Range(RO)
      /\ \A i \in 1..Len(Agenda) :
            \/ i \in 1..Len(Second) /\ Agenda[i] = Second[i]
            \/ i > Len(Second) /\ Agenda[i] \in Resources
  BY <1>2, <1>3, <1>5, <1>7, Joining
<1>9. Loops \subseteq Range(Agenda)
  BY <1>1, <1>3, <1>6, <1>7, <1>8 DEF Loops, QL
<1>10. LoopsFirst(Agenda)
  <2> SUFFICES ASSUME NEW i \in 1..Len(Agenda), NEW j \in 1..Len(Agenda), i < j,
                      Agenda[i] \in Resources, Agenda[j] \in Loops
               PROVE  Agenda[i] \notin Uses[Agenda[j]]
      BY DEF LoopsFirst
  <2>1. Len(Second) \in Nat /\ Len(QL) \in Nat /\ Len(Agenda) \in Nat
    BY <1>2, <1>7, <1>8
  <2>2. j \in 1..Len(Second) /\ Agenda[j] = Second[j]
    BY <1>4, <1>8
  <2>3. i \in 1..Len(Second) /\ Agenda[i] = Second[i]
    BY <1>8, <2>1, <2>2
  <2>4. Range(QualityLoops) \subseteq Loops /\ EmbeddingLoop \in Loops
    BY DEF Loops
  <2>5. Second[i] \in Range(QualityOwned) /\ i > Len(QL)
    BY <1>4, <1>7, <2>3, <2>4
  <2>6. Second[j] = EmbeddingLoop
    BY <1>4, <1>7, <2>1, <2>2, <2>5
  <2> QED
    BY <1>4, <2>2, <2>3, <2>5, <2>6
<1> QED
  BY <1>9, <1>10

\* What remains of an order with the loops first has them first.
LEMMA OrderRemains ==
  ASSUME NEW s \in Seq(Loops \cup Resources), s # << >>, LoopsFirst(s)
  PROVE  /\ LoopsFirst(Tail(s))
         /\ Head(s) \in Resources =>
               \A l \in Loops : l \in Range(s) => l \in Range(Tail(s)) /\ Head(s) \notin Uses[l]
<1>1. /\ Head(s) = s[1] /\ Len(s) \in Nat /\ 1 \in 1..Len(s) /\ Len(Tail(s)) = Len(s) - 1
      /\ \A i \in 1..Len(Tail(s)) : i + 1 \in 1..Len(s) /\ Tail(s)[i] = s[i + 1]
      /\ Range(s) = {Head(s)} \cup Range(Tail(s)) /\ Tail(s) \in Seq(Loops \cup Resources)
  BY HeadAndTail
<1>2. LoopsFirst(Tail(s))
  <2> SUFFICES ASSUME NEW i \in 1..Len(Tail(s)), NEW j \in 1..Len(Tail(s)), i < j,
                      Tail(s)[i] \in Resources, Tail(s)[j] \in Loops
               PROVE  Tail(s)[i] \notin Uses[Tail(s)[j]]
      BY DEF LoopsFirst
  <2>1. i + 1 < j + 1
    BY <1>1
  <2> QED
    BY <1>1, <2>1 DEF LoopsFirst
<1>3. ASSUME Head(s) \in Resources, NEW l \in Loops, l \in Range(s)
      PROVE  l \in Range(Tail(s)) /\ Head(s) \notin Uses[l]
  <2>1. l # Head(s)
    BY <1>3, WorkerShellAssumption
  <2>2. l \in Range(Tail(s))
    BY <1>1, <1>3, <2>1
  <2>3. PICK i \in 1..Len(Tail(s)) : l = Tail(s)[i]
    BY <1>1, <2>2 DEF Range
  <2>4. l = s[i + 1] /\ i + 1 \in 1..Len(s) /\ 1 < i + 1
    BY <1>1, <2>3
  <2> QED
    BY <1>1, <1>3, <2>2, <2>4 DEF LoopsFirst
<1> QED
  BY <1>2, <1>3

LEMMA SoundStep == TypeOK /\ Sound /\ [Next]_vars => Sound'
<1> SUFFICES ASSUME TypeOK, Sound, [Next]_vars
             PROVE  Sound'
    OBVIOUS
<1>1. CASE Build
  <2>1. open' = {BuildOrder[i] : i \in 1..built'}
    <3>1. open = {BuildOrder[i] : i \in 1..built}
      BY <1>1 DEF Build, Sound
    <3>2. 1..built' = 1..built \cup {built + 1}
      BY <1>1, WorkerShellAssumption DEF Build, TypeOK
    <3> QED
      BY <1>1, <3>1, <3>2 DEF Build
  <2> QED
    BY <1>1, <2>1 DEF Build, Sound
<1>2. CASE BuildFails
  BY <1>2 DEF BuildFails, Sound
<1>3. CASE Start
  <2>1. open = Range(BuildOrder)
    <3>1. DOMAIN BuildOrder = 1..Len(BuildOrder)
      BY WorkerShellAssumption
    <3> QED
      BY <1>3, <3>1 DEF Start, Sound, Range
  <2>2. \A l \in Loops : Uses[l] \subseteq open
    BY <2>1, WorkerShellAssumption
  <2> QED
    BY <1>3, <2>2 DEF Start, Sound
<1>4. CASE Shutdown
  BY <1>4, AgendaInOrder DEF Shutdown, Sound
<1>5. CASE Cancel
  BY <1>5 DEF Cancel, Sound
<1>6. CASE Joined
  <2>1. agenda \in Seq(Loops \cup Resources) /\ agenda # << >>
    BY <1>6 DEF TypeOK, Joined, Ending
  <2>2. Range(agenda) = {Head(agenda)} \cup Range(Tail(agenda))
    BY <2>1, HeadAndTail
  <2>3. LoopsFirst(agenda) => LoopsFirst(Tail(agenda))
    BY <2>1, OrderRemains
  <2>4. /\ task[Head(agenda)] = "ended" /\ agenda' = Tail(agenda)
        /\ UNCHANGED <<phase, built, open, task>>
    BY <1>6 DEF Joined
  <2> QED
    BY <2>2, <2>3, <2>4 DEF Sound
<1>7. CASE Close
  <2>1. /\ agenda \in Seq(Loops \cup Resources) /\ agenda # << >>
        /\ Head(agenda) \in Resources /\ agenda' = Tail(agenda)
        /\ open' = open \ {Head(agenda)} /\ UNCHANGED <<phase, task>>
        /\ phase \in {"closing", "abandoning"}
    BY <1>7 DEF TypeOK, Close, Ending
  <2>2. CASE phase = "abandoning"
    BY <2>1, <2>2 DEF Sound
  <2>3. CASE phase = "closing"
    <3>1. LoopsFirst(agenda)
      BY <2>3 DEF Sound
    <3>2. LoopsFirst(agenda')
      BY <2>1, <3>1, OrderRemains
    <3>3. ASSUME NEW l \in Loops, task[l] # "ended"
          PROVE  l \in Range(agenda') /\ Uses[l] \subseteq open'
      <4>1. l \in Range(agenda) /\ Uses[l] \subseteq open
        BY <2>3, <3>3 DEF Sound
      <4> QED
        BY <2>1, <3>1, <4>1, OrderRemains
    <3> QED
      BY <2>1, <2>3, <3>2, <3>3 DEF Sound
  <2> QED
    BY <2>1, <2>2, <2>3
<1>8. CASE Exit
  <2>1. Range(<< >>) = {}
    BY DEF Range
  <2> QED
    BY <1>8, <2>1 DEF Exit, Sound
<1>9. ASSUME NEW l \in Loops, LoopStep(l)
      PROVE  Sound'
  <2>1. UNCHANGED <<phase, built, open, agenda>>
    BY <1>9 DEF LoopStep, RunOnce, RunEnds, Wake, Deliver, Unwind
  <2>2. \A k \in Loops : task[k] = "ended" => task'[k] = "ended"
    BY <1>9 DEF TypeOK, LoopStep, RunOnce, RunEnds, Wake, Deliver, Unwind
  <2>3. \A k \in Loops : task[k] = "none" => task'[k] \in {"none", "ended"}
    BY <1>9 DEF TypeOK, LoopStep, RunOnce, RunEnds, Wake, Deliver, Unwind
  <2> QED
    BY <2>1, <2>2, <2>3 DEF Sound, LoopsFirst
<1>10. CASE UNCHANGED vars
  BY <1>10 DEF vars, Sound, LoopsFirst
<1> QED
  BY <1>1, <1>2, <1>3, <1>4, <1>5, <1>6, <1>7, <1>8, <1>9, <1>10 DEF Next, Ends

(***************************************************************************)
(* Whatever the moment the process is told to end, no worker runs or rolls *)
(* back with what has been closed: the loops of a lifecycle end before     *)
(* what they use is closed (lifespan, QualityLifecycle.close,              *)
(* RetrievalLifecycle.close).                                              *)
(***************************************************************************)
THEOREM ClosedAfterUse == Spec => []NothingUsedAfterClose
<1>1. Init => Sound
  <2>1. {BuildOrder[i] : i \in 1..0} = {}
    OBVIOUS
  <2> QED
    BY <2>1 DEF Init, Sound
<1>2. TypeOK /\ Sound => NothingUsedAfterClose
  BY DEF TypeOK, Sound, NothingUsedAfterClose
<1> QED
  BY <1>1, <1>2, TypeCorrect, SoundStep, PTL DEF Spec
================================================================================
