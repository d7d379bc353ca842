----------------------- MODULE EngineSupervisorProofs -----------------------
(***************************************************************************)
(* Proofs about EngineSupervisor, for any number of pids, any limits and   *)
(* any number of faults.                                                   *)
(***************************************************************************)
EXTENDS EngineSupervisor, SequenceTheorems, TLAPS

USE SupervisorAssumption

-----------------------------------------------------------------------------
(* The limiter's queue.                                                    *)

LEMMA EmptyKept == <<>> \in Seq(Age) /\ Len(<<>>) = 0
  BY EmptySeq

\* What is kept is a suffix; whatever was dropped had left the window, and the
\* first restart that was kept has not.
LEMMA KeptProperties ==
    ASSUME NEW s \in Seq(Age), NEW k \in Kept(s)
    PROVE  /\ k \in Seq(Age)
           /\ Len(k) <= Len(s)
           /\ \A i \in 1..Len(k) : k[i] = s[i + Len(s) - Len(k)]
           /\ \A i \in 1..(Len(s) - Len(k)) : s[i] > Window
           /\ Len(k) > 0 => k[1] <= Window
  <1>1. PICK n \in 0..Len(s) : /\ k = SubSeq(s, n + 1, Len(s))
                               /\ \A i \in 1..n : s[i] > Window
                               /\ n < Len(s) => s[n + 1] <= Window
    BY DEF Kept
  <1>2. Len(s) \in Nat
    BY LenProperties
  <1>3. \A i \in (n + 1)..Len(s) : s[i] \in Age
    BY <1>2, ElementOfSeq
  <1>4. /\ k \in Seq(Age)
        /\ Len(k) = IF n + 1 <= Len(s) THEN Len(s) - (n + 1) + 1 ELSE 0
        /\ \A i \in 1..(Len(s) - (n + 1) + 1) : k[i] = s[(n + 1) + i - 1]
    BY <1>1, <1>2, <1>3, SubSeqProperties
  <1>5. Len(k) = Len(s) - n
    BY <1>2, <1>4
  <1>6. \A i \in 1..Len(k) : k[i] = s[i + Len(s) - Len(k)]
    <2> SUFFICES ASSUME NEW i \in 1..Len(k)
                 PROVE  k[i] = s[i + Len(s) - Len(k)]
      OBVIOUS
    <2>1. i \in 1..(Len(s) - (n + 1) + 1)
      BY <1>2, <1>5
    <2>2. k[i] = s[(n + 1) + i - 1]
      BY <2>1, <1>4
    <2>3. (n + 1) + i - 1 = i + Len(s) - Len(k)
      BY <1>2, <1>5
    <2> QED BY <2>2, <2>3
  <1>7. \A i \in 1..(Len(s) - Len(k)) : s[i] > Window
    BY <1>1, <1>2, <1>5
  <1>8. ASSUME Len(k) > 0
        PROVE  k[1] <= Window
    <2>1. 1 \in 1..Len(k) /\ 1 + Len(s) - Len(k) = n + 1 /\ n < Len(s)
      BY <1>2, <1>5, <1>8
    <2>2. k[1] = s[n + 1]
      BY <2>1, <1>6
    <2> QED BY <2>1, <2>2, <1>1
  <1>9. k \in Seq(Age) /\ Len(k) <= Len(s)
    BY <1>1, <1>2, <1>4, <1>5
  <1> QED BY <1>6, <1>7, <1>8, <1>9

LEMMA OlderProperties ==
    ASSUME NEW s \in Seq(Age)
    PROVE  /\ Older(s) \in Seq(Age)
           /\ Len(Older(s)) = Len(s)
           /\ \A i \in 1..Len(s) :
                 Older(s)[i] = IF s[i] <= Window THEN s[i] + 1 ELSE s[i]
  <1>1. Len(s) \in Nat
    BY LenProperties
  <1>2. \A i \in 1..Len(s) : s[i] \in Age
    BY ElementOfSeq
  <1>3. Older(s) \in [1..Len(s) -> Age]
    BY <1>1, <1>2 DEF Older, Age
  <1>4. Older(s) \in Seq(Age)
    BY <1>1, <1>3, SeqDef
  <1>5. Len(Older(s)) = Len(s)
    BY <1>1, <1>3, <1>4, LenProperties
  <1> QED BY <1>4, <1>5 DEF Older

LEMMA AppendNow ==
    ASSUME NEW s \in Seq(Age)
    PROVE  /\ Append(s, 0) \in Seq(Age)
           /\ Len(Append(s, 0)) = Len(s) + 1
           /\ \A i \in 1..Len(s) : Append(s, 0)[i] = s[i]
           /\ Append(s, 0)[Len(s) + 1] = 0
  <1>1. 0 \in Age
    BY DEF Age
  <1> QED BY <1>1, AppendProperties

-----------------------------------------------------------------------------
(* The inductive invariant behind TypeOK and RestartBudget.                *)

\* Which variables a place of the code may rely on.
Places ==
    /\ up /\ pc = "wait" => child \in Pids
    /\ up /\ pc = "poll" => engine \in Pids
    /\ up /\ pc = "reapWait" => pidFile \in Pids
    /\ up /\ pc \notin {"idle", "poll"} => engine = NoPid
    /\ up /\ engine # NoPid => failures < MaxFailures

\* Every start of the history is still in the limiter's queue, and at its end.
Suffix(a, r) ==
    /\ Len(a) <= Len(r)
    /\ \A i \in 1..Len(a) : a[i] = r[i + Len(r) - Len(a)]

Remembered ==
    /\ Suffix(attempts, restarts)
    /\ Len(attempts) > 0 => attempts[1] <= Window

Inv == TypeOK /\ Places /\ Remembered

LEMMA InitInv == Init => Inv
  BY EmptySeq DEF Init, Inv, TypeOK, Places, Remembered, Suffix, Kind, Live, Location, Age

\* The limiter keeps the history: a start is remembered until it leaves the
\* window, and there is room for one more whenever one more is started.
LEMMA StartRemembers ==
    ASSUME NEW h \in Seq(Age), NEW a \in Seq(Age), NEW k \in Kept(h),
           Len(h) <= MaxRestarts, Suffix(a, h), Len(a) > 0 => a[1] <= Window
    PROVE  /\ Suffix(a, k) /\ k \in Seq(Age) /\ Len(k) <= MaxRestarts
           /\ Len(k) < MaxRestarts =>
                 /\ Append(k, 0) \in Seq(Age) /\ Len(Append(k, 0)) <= MaxRestarts
                 /\ Append(a, 0) \in Seq(Age)
                 /\ Suffix(Append(a, 0), Append(k, 0))
                 /\ Append(a, 0)[1] <= Window
  <1>1. Len(h) \in Nat /\ Len(a) \in Nat /\ Len(k) \in Nat
    BY KeptProperties, LenProperties
  <1>2. Len(a) <= Len(k)
    <2>1. CASE Len(a) = 0
      BY <1>1, <2>1
    <2>2. CASE Len(a) > 0
      <3> DEFINE j == 1 + Len(h) - Len(a)
      <3>1. 1 \in 1..Len(a)
        BY <1>1, <2>2
      <3>2. a[1] = h[j]
        BY <3>1 DEF Suffix
      <3>3. ~(h[j] > Window)
        BY <3>1, <3>2, <2>2, ElementOfSeq DEF Age
      <3>4. j \notin 1..(Len(h) - Len(k))
        BY <3>3, KeptProperties
      <3>5. j \in Nat \ {0}
        BY <1>1 DEF Suffix
      <3> QED BY <1>1, <3>4, <3>5
    <2> QED BY <1>1, <2>1, <2>2
  <1>3. \A i \in 1..Len(a) : a[i] = k[i + Len(k) - Len(a)]
    <2> SUFFICES ASSUME NEW i \in 1..Len(a)
                 PROVE  a[i] = k[i + Len(k) - Len(a)]
      OBVIOUS
    <2> DEFINE m == i + Len(k) - Len(a)
    <2>1. m \in 1..Len(k)
      BY <1>1, <1>2
    <2>2. k[m] = h[m + Len(h) - Len(k)]
      BY <2>1, KeptProperties
    <2>3. m + Len(h) - Len(k) = i + Len(h) - Len(a)
      BY <1>1
    <2> QED BY <2>2, <2>3 DEF Suffix
  <1>4. Suffix(a, k)
    BY <1>2, <1>3 DEF Suffix
  <1>5. k \in Seq(Age) /\ Len(k) <= Len(h)
    BY KeptProperties
  <1>6. ASSUME Len(k) < MaxRestarts
        PROVE  /\ Append(k, 0) \in Seq(Age) /\ Len(Append(k, 0)) <= MaxRestarts
               /\ Append(a, 0) \in Seq(Age)
               /\ Suffix(Append(a, 0), Append(k, 0))
               /\ Append(a, 0)[1] <= Window
    <2>1. /\ Append(k, 0) \in Seq(Age) /\ Len(Append(k, 0)) = Len(k) + 1
          /\ Append(a, 0) \in Seq(Age) /\ Len(Append(a, 0)) = Len(a) + 1
          /\ \A i \in 1..Len(k) : Append(k, 0)[i] = k[i]
          /\ \A i \in 1..Len(a) : Append(a, 0)[i] = a[i]
          /\ Append(k, 0)[Len(k) + 1] = 0 /\ Append(a, 0)[Len(a) + 1] = 0
      BY <1>5, AppendNow
    <2>2. Suffix(Append(a, 0), Append(k, 0))
      <3>1. ASSUME NEW i \in 1..(Len(a) + 1)
            PROVE  Append(a, 0)[i] = Append(k, 0)[i + (Len(k) + 1) - (Len(a) + 1)]
        <4>1. CASE i = Len(a) + 1
          <5>1. i + (Len(k) + 1) - (Len(a) + 1) = Len(k) + 1
            BY <4>1, <1>1
          <5> QED BY <4>1, <5>1, <2>1
        <4>2. CASE i \in 1..Len(a)
          <5>1. i + (Len(k) + 1) - (Len(a) + 1) = i + Len(k) - Len(a)
            BY <1>1
          <5>2. i + Len(k) - Len(a) \in 1..Len(k)
            BY <1>1, <1>2, <4>2
          <5> QED BY <4>2, <5>1, <5>2, <2>1, <1>3
        <4>3. i = Len(a) + 1 \/ i \in 1..Len(a)
          BY <1>1
        <4> QED BY <4>1, <4>2, <4>3
      <3>2. \A i \in 1..Len(Append(a, 0)) :
               Append(a, 0)[i] = Append(k, 0)[i + Len(Append(k, 0)) - Len(Append(a, 0))]
        BY <3>1, <2>1
      <3>3. Len(Append(a, 0)) <= Len(Append(k, 0))
        BY <2>1, <1>1, <1>2
      <3> QED BY <3>2, <3>3 DEF Suffix
    <2>3. Append(a, 0)[1] <= Window
      <3>1. CASE Len(a) = 0
        BY <3>1, <2>1
      <3>2. CASE Len(a) > 0
        BY <3>2, <1>1, <2>1
      <3> QED BY <1>1, <3>1, <3>2
    <2> QED BY <2>1, <2>2, <2>3, <1>1, <1>6
  <1> QED BY <1>1, <1>4, <1>5, <1>6

\* Starting, or being refused a start, keeps the invariant.
LEMMA StartInv ==
    ASSUME Inv, NEW h \in Seq(Age), NEW a \in Seq(Age),
           up, pc = "idle", Len(h) <= MaxRestarts, Suffix(a, h), Len(a) > 0 => a[1] <= Window,
           Start(h, a), tries' = 0, caller' \in {"tick", "user"},
           UNCHANGED <<pidFile, up, child, failures, faults>>
    PROVE  Inv'
  <1>1. PICK k \in Kept(h) :
           IF Len(k) >= MaxRestarts
           THEN restarts' = k /\ attempts' = a /\ pc' = "idle"
           ELSE restarts' = Append(k, 0) /\ attempts' = Append(a, 0) /\ pc' = "reap"
    BY DEF Start
  <1>2. /\ Suffix(a, k) /\ k \in Seq(Age) /\ Len(k) <= MaxRestarts
        /\ Len(k) < MaxRestarts =>
              /\ Append(k, 0) \in Seq(Age) /\ Len(Append(k, 0)) <= MaxRestarts
              /\ Append(a, 0) \in Seq(Age)
              /\ Suffix(Append(a, 0), Append(k, 0))
              /\ Append(a, 0)[1] <= Window
    BY StartRemembers
  <1>3. Len(k) \in Nat
    BY <1>2, LenProperties
  <1>4. /\ restarts' \in Seq(Age) /\ Len(restarts') <= MaxRestarts
        /\ attempts' \in Seq(Age)
        /\ Suffix(attempts', restarts')
        /\ Len(attempts') > 0 => attempts'[1] <= Window
        /\ pc' \in {"idle", "reap"}
    <2>1. CASE Len(k) >= MaxRestarts
      <3>1. restarts' = k /\ attempts' = a /\ pc' = "idle"
        BY <1>1, <2>1
      <3> QED BY <3>1, <1>2
    <2>2. CASE Len(k) < MaxRestarts
      <3>1. restarts' = Append(k, 0) /\ attempts' = Append(a, 0) /\ pc' = "reap"
        BY <1>1, <1>3, <2>2
      <3> QED BY <3>1, <1>2, <2>2
    <2> QED BY <1>3, <2>1, <2>2
  <1>5. table' \in [Pids -> Kind]
    BY DEF Start, Waited, Inv, TypeOK, Kind
  <1>6. engine' = NoPid
    BY DEF Start
  <1>7. TypeOK'
    BY <1>4, <1>5, <1>6 DEF Inv, TypeOK, Location
  <1>8. Places'
    BY <1>4, <1>6 DEF Inv, Places
  <1>9. Remembered'
    BY <1>4 DEF Remembered, Suffix
  <1> QED BY <1>7, <1>8, <1>9 DEF Inv

\* Time passes.
LEMMA ElapseInv ==
    ASSUME Inv, Elapse
    PROVE  Inv'
  <1> DEFINE r == Older(restarts)
             a == Older(attempts)
  <1>1. restarts \in Seq(Age) /\ attempts \in Seq(Age) /\ Suffix(attempts, restarts)
    BY DEF Inv, TypeOK, Remembered
  <1>2. Len(restarts) \in Nat /\ Len(attempts) \in Nat
    BY <1>1, LenProperties
  <1>3. /\ r \in Seq(Age) /\ Len(r) = Len(restarts)
        /\ \A i \in 1..Len(restarts) : r[i] = IF restarts[i] <= Window THEN restarts[i] + 1 ELSE restarts[i]
        /\ a \in Seq(Age) /\ Len(a) = Len(attempts)
        /\ \A i \in 1..Len(attempts) : a[i] = IF attempts[i] <= Window THEN attempts[i] + 1 ELSE attempts[i]
    BY <1>1, OlderProperties
  <1> HIDE DEF r, a
  <1>4. restarts' = r /\ attempts' \in Kept(a)
    BY DEF Elapse, r, a
  <1>5. /\ attempts' \in Seq(Age) /\ Len(attempts') <= Len(a) /\ Len(attempts') \in Nat
        /\ \A i \in 1..Len(attempts') : attempts'[i] = a[i + Len(a) - Len(attempts')]
        /\ Len(attempts') > 0 => attempts'[1] <= Window
    BY <1>3, <1>4, KeptProperties, LenProperties
  <1>6. ASSUME NEW i \in 1..Len(attempts')
        PROVE  attempts'[i] = r[i + Len(r) - Len(attempts')]
    <2> DEFINE m == i + Len(a) - Len(attempts')
    <2>1. m \in 1..Len(attempts)
      BY <1>2, <1>3, <1>5
    <2>2. m + Len(restarts) - Len(attempts) \in 1..Len(restarts)
      BY <2>1, <1>1, <1>2 DEF Suffix
    <2>3. attempts[m] = restarts[m + Len(restarts) - Len(attempts)]
      BY <2>1, <1>1 DEF Suffix
    <2>4. a[m] = r[m + Len(restarts) - Len(attempts)]
      BY <2>1, <2>2, <2>3, <1>3
    <2>5. m + Len(restarts) - Len(attempts) = i + Len(r) - Len(attempts')
      BY <1>2, <1>3, <1>5
    <2> QED BY <2>4, <2>5, <1>5
  <1>7. Suffix(attempts', restarts')
    <2>1. Len(attempts') <= Len(r)
      BY <1>1, <1>2, <1>3, <1>5 DEF Suffix
    <2> QED BY <2>1, <1>4, <1>6 DEF Suffix
  <1>8. Remembered'
    BY <1>5, <1>7 DEF Remembered, Suffix
  <1>9. TypeOK'
    BY <1>3, <1>4, <1>5 DEF Elapse, Inv, TypeOK
  <1>10. Places'
    BY DEF Elapse, Inv, Places
  <1> QED BY <1>8, <1>9, <1>10 DEF Inv

LEMMA SameHistory ==
    ASSUME Inv, TypeOK', Places', UNCHANGED <<restarts, attempts>>
    PROVE  Inv'
  BY DEF Inv, Remembered, Suffix

LEMMA NextInv == Inv /\ [Next]_vars => Inv'
  <1> SUFFICES ASSUME Inv, [Next]_vars
               PROVE  Inv'
    OBVIOUS
  <1>0. TypeOK /\ Places
    BY DEF Inv
  <1> USE DEF TypeOK, Places, At, Location
  <1>1. CASE UNCHANGED vars
    BY <1>0, <1>1, SameHistory DEF vars
  <1>2. CASE Tick
    <2>1. CASE Alive
      <3>1. TypeOK' /\ Places'
        BY <1>0, <1>2, <2>1 DEF Tick, Alive
      <3> QED BY <1>2, <2>1, <3>1, SameHistory DEF Tick
    <2>2. CASE ~Alive
      <3>1. /\ Start(restarts, attempts) /\ Suffix(attempts, restarts)
            /\ Len(attempts) > 0 => attempts[1] <= Window
        BY <1>2, <2>2 DEF Tick, Remembered, Inv
      <3>2. UNCHANGED <<pidFile, up, child, failures, faults>> /\ tries' = 0 /\ caller' = "tick"
            /\ up /\ pc = "idle"
        BY <1>2 DEF Tick
      <3> QED BY <1>0, <3>1, <3>2, StartInv
    <2> QED BY <2>1, <2>2
  <1>3. CASE UserStart
    <2>1. CASE Alive
      <3>1. TypeOK' /\ Places'
        BY <1>0, <1>3, <2>1, EmptySeq DEF UserStart, Alive
      <3>2. Suffix(<<>>, restarts) /\ Len(<<>>) = 0
        BY <1>0, LenProperties, EmptySeq DEF Suffix
      <3>3. attempts' = <<>> /\ restarts' = restarts
        BY <1>3, <2>1 DEF UserStart
      <3> QED BY <3>1, <3>2, <3>3 DEF Inv, Remembered, Suffix
    <2>2. CASE ~Alive
      <3> DEFINE h == IF engine = NoPid THEN <<>> ELSE restarts
      <3>1. h \in Seq(Age) /\ Len(h) <= MaxRestarts /\ <<>> \in Seq(Age) /\ Len(<<>>) = 0
        BY <1>0, EmptySeq
      <3>2. Suffix(<<>>, h)
        BY <3>1, LenProperties DEF Suffix
      <3>3. Start(h, <<>>)
        BY <1>3, <2>2 DEF UserStart
      <3>4. UNCHANGED <<pidFile, up, child, failures, faults>> /\ tries' = 0 /\ caller' = "user"
            /\ up /\ pc = "idle"
        BY <1>3 DEF UserStart
      <3>5. Len(<<>>) > 0 => <<>>[1] <= Window
        BY <3>1
      <3> HIDE DEF h
      <3> QED BY <3>1, <3>2, <3>3, <3>4, <3>5, StartInv
    <2> QED BY <2>1, <2>2
  <1>4. CASE Shutdown
    <2>1. TypeOK' /\ Places'
      BY <1>0, <1>4 DEF Shutdown
    <2> QED BY <1>4, <2>1, SameHistory DEF Shutdown
  <1>5. CASE ReapTerm \/ ReapNothing \/ ReapDone
    <2>1. TypeOK' /\ Places'
      BY <1>0, <1>5 DEF ReapTerm, ReapNothing, ReapDone, IsOurs, Fault, Kind, Live
    <2> QED BY <1>5, <2>1, SameHistory DEF ReapTerm, ReapNothing, ReapDone
  <1>6. CASE \E p \in Pids : Fork(p)
    <2>1. TypeOK' /\ Places'
      BY <1>0, <1>6 DEF Fork, Kind, Live
    <2> QED BY <1>6, <2>1, SameHistory DEF Fork
  <1>7. CASE Ready
    <2>1. TypeOK' /\ Places'
      BY <1>0, <1>7 DEF Ready, Fault
    <2> QED BY <1>7, <2>1, SameHistory DEF Ready
  <1>8. CASE NotReady
    <2>1. TypeOK' /\ Places'
      BY <1>0, <1>8 DEF NotReady, Fault, Kind
    <2> QED BY <1>8, <2>1, SameHistory DEF NotReady
  <1>9. CASE PollOk \/ PollFails
    <2>1. TypeOK' /\ Places'
      BY <1>0, <1>9 DEF PollOk, PollFails
    <2> QED BY <1>9, <2>1, SameHistory DEF PollOk, PollFails
  <1>10. CASE StopAsk \/ StopDone
    <2>1. CASE StopAsk
      <3>1. TypeOK' /\ Places'
        BY <1>0, <2>1 DEF StopAsk, IsOurs, Kind, Live
      <3> QED BY <2>1, <3>1, SameHistory DEF StopAsk
    <2>2. CASE StopDone
      <3>1. table' \in [Pids -> Kind] /\ faults' \in 0..MaxFaults
        BY <1>0, <2>2 DEF StopDone, Waited, Fault, Kind
      <3>2. up' \in BOOLEAN
        BY <2>2 DEF StopDone
      <3>3. /\ pc' = "idle" /\ child' = NoPid /\ engine = NoPid
            /\ UNCHANGED <<pidFile, caller, engine, restarts, tries, failures, attempts>>
        BY <1>0, <2>2 DEF StopDone
      <3>4. TypeOK' /\ Places'
        BY <1>0, <3>1, <3>2, <3>3
      <3> QED BY <3>3, <3>4, SameHistory
    <2> QED BY <1>10, <2>1, <2>2
  <1>11. CASE StartFails
    <2>1. TypeOK' /\ Places'
      BY <1>0, <1>11 DEF StartFails, Fault
    <2> QED BY <1>11, <2>1, SameHistory DEF StartFails
  <1>12. CASE \E p \in Pids : BecomeReady(p) \/ Hang(p) \/ Exit(p) \/ Foreign(p)
    <2>1. PICK p \in Pids : BecomeReady(p) \/ Hang(p) \/ Exit(p) \/ Foreign(p)
      BY <1>12
    <2>2. PICK k \in Kind : table' = [table EXCEPT ![p] = k]
      BY <2>1 DEF BecomeReady, Hang, Exit, Foreign, Gone, Kind, Live
    <2>3. table' \in [Pids -> Kind]
      BY <1>0, <2>2
    <2>4. faults' \in 0..MaxFaults
      BY <1>0, <2>1 DEF BecomeReady, Hang, Exit, Foreign, Fault
    <2>5. UNCHANGED <<pidFile, up, pc, caller, engine, child, restarts, tries, failures, attempts>>
      BY <2>1 DEF BecomeReady, Hang, Exit, Foreign
    <2>6. TypeOK' /\ Places'
      BY <1>0, <2>3, <2>4, <2>5
    <2> QED BY <2>5, <2>6, SameHistory
  <1>13. CASE BackendDies
    <2>1. TypeOK' /\ Places'
      <3>1. table' \in [Pids -> Kind] /\ faults' \in 0..MaxFaults
        BY <1>0, <1>13 DEF BackendDies, Fault, Kind
      <3> QED BY <1>0, <1>13, <3>1 DEF BackendDies
    <2> QED BY <1>13, <2>1, SameHistory DEF BackendDies
  <1>14. CASE BackendStart
    <2>1. TypeOK' /\ Places'
      BY <1>0, <1>14, EmptySeq DEF BackendStart
    <2>2. restarts' = <<>> /\ attempts' = <<>> /\ Len(<<>>) = 0
      BY <1>14, EmptySeq DEF BackendStart
    <2> QED BY <2>1, <2>2 DEF Inv, Remembered, Suffix
  <1>15. CASE Elapse
    BY <1>15, ElapseInv
  <1> QED BY <1>1, <1>2, <1>3, <1>4, <1>5, <1>6, <1>7, <1>8, <1>9, <1>10, <1>11, <1>12,
             <1>13, <1>14, <1>15 DEF Next, Supervise

\* The service's bookkeeping stays in range: the limiter's queue never holds
\* more than MaxRestarts starts, the failures never pass their limit, and no
\* place of the code uses a handle that is not there.
THEOREM SupervisorTypeCorrect == Spec => []TypeOK
  <1>1. Inv => TypeOK
    BY DEF Inv
  <1> QED BY <1>1, InitInv, NextInv, PTL DEF Spec

\* ensure_engine never starts aria2c more than MaxRestarts times in a window
\* unless the user asks, however often it dies and whatever is tried between.
THEOREM RestartsBounded == Spec => []RestartBudget
  <1>1. Inv => RestartBudget
    BY LenProperties DEF Inv, TypeOK, Remembered, Suffix, RestartBudget
  <1> QED BY <1>1, InitInv, NextInv, PTL DEF Spec

-----------------------------------------------------------------------------
(* One aria2c.                                                             *)

\* The only aria2c is the one the pid file names, except while a start waits
\* for it; and none is left when another one is about to be started.
Known ==
    /\ ~(up /\ pc = "wait") => Ours \subseteq {pidFile}
    /\ up /\ pc = "wait" => Ours \subseteq {child}
    /\ up /\ pc = "spawn" => Ours = {}

\* Known survives a step that adds no process and moves neither the pid file
\* nor the service in or out of a start.
LEMMA KnownKept ==
    ASSUME Known, Ours' \subseteq Ours, UNCHANGED <<pidFile, up, child>>,
           up => pc' = pc \/ (pc # "wait" /\ pc' \notin {"wait", "spawn"})
    PROVE  Known'
  BY DEF Known

LEMMA KnownNext ==
    ASSUME Inv, Known, Faults = {}, [Next]_vars
    PROVE  Known'
  <1>0. TypeOK /\ Places
    BY DEF Inv
  <1> USE DEF At
  <1>1. CASE UNCHANGED vars
    BY <1>1 DEF vars, Known, Ours
  <1>2. CASE Tick \/ UserStart
    <2>1. Ours' \subseteq Ours
      BY <1>0, <1>2 DEF Tick, UserStart, Start, Waited, Ours, Live, TypeOK
    <2>2. pc = "idle" /\ pc' \in {"idle", "poll", "reap"} /\ UNCHANGED <<pidFile, up, child>>
      BY <1>2 DEF Tick, UserStart, Start
    <2> QED BY <2>1, <2>2, KnownKept
  <1>3. CASE Shutdown \/ PollOk \/ PollFails \/ StartFails
    BY <1>0, <1>3 DEF Shutdown, PollOk, PollFails, StartFails, Known, Ours
  <1>4. CASE ReapTerm \/ StopAsk
    <2>1. Ours' \subseteq Ours
      BY <1>0, <1>4 DEF ReapTerm, StopAsk, IsOurs, Ours, Live, TypeOK
    <2>2. /\ pc \in {"reap", "stop"} /\ pc' \in {"reapWait", "stopWait"}
          /\ UNCHANGED <<pidFile, up, child>>
      BY <1>4 DEF ReapTerm, StopAsk
    <2> QED BY <2>1, <2>2, KnownKept
  <1>5. CASE ReapNothing \/ ReapDone
    <2>1. Ours = {}
      BY <1>0, <1>5 DEF ReapNothing, ReapDone, IsOurs, Known, Ours, TypeOK
    <2>2. Ours' = Ours /\ pc' = "spawn"
      BY <1>5 DEF ReapNothing, ReapDone, Ours
    <2> QED BY <2>1, <2>2 DEF Known
  <1>6. CASE \E p \in Pids : Fork(p)
    <2>1. PICK p \in Pids : Fork(p)
      BY <1>6
    <2>2. Ours' \subseteq {p}
      BY <1>0, <2>1 DEF Fork, Known, Ours, TypeOK
    <2> QED BY <2>1, <2>2 DEF Fork, Known
  <1>7. CASE Ready
    BY <1>7 DEF Ready, Known, Ours
  <1>8. CASE NotReady
    <2>1. Ours' = {}
      BY <1>0, <1>8 DEF NotReady, Known, Ours, Live, TypeOK
    <2> QED BY <2>1 DEF Known
  <1>9. CASE StopDone
    <2>1. Ours' \subseteq Ours
      BY <1>0, <1>9 DEF StopDone, Waited, Ours, Live, TypeOK
    <2>2. pc = "stopWait" /\ pc' = "idle" /\ UNCHANGED pidFile /\ up
      BY <1>9 DEF StopDone
    <2> QED BY <2>1, <2>2 DEF Known
  <1>10. CASE \E p \in Pids : BecomeReady(p) \/ Hang(p) \/ Exit(p) \/ Foreign(p)
    <2>1. Ours' \subseteq Ours
      BY <1>0, <1>10 DEF BecomeReady, Hang, Exit, Foreign, Gone, Ours, Live, TypeOK
    <2>2. UNCHANGED <<pidFile, up, child, pc>>
      BY <1>10 DEF BecomeReady, Hang, Exit, Foreign
    <2> QED BY <2>1, <2>2, KnownKept
  <1>11. CASE BackendDies
    <2>1. Ours' \subseteq Ours
      BY <1>0, <1>11 DEF BackendDies, Ours, Live, TypeOK
    <2>2. pc # "wait" /\ UNCHANGED pidFile /\ up' = FALSE
      BY <1>11 DEF BackendDies
    <2> QED BY <2>1, <2>2 DEF Known
  <1>12. CASE BackendStart
    BY <1>12 DEF BackendStart, Known, Ours
  <1>13. CASE Elapse
    BY <1>13 DEF Elapse, Known, Ours
  <1> QED BY <1>1, <1>2, <1>3, <1>4, <1>5, <1>6, <1>7, <1>8, <1>9, <1>10, <1>11, <1>12,
             <1>13 DEF Next, Supervise

\* Two aria2c never share the session, whatever dies, hangs or is stopped in
\* between, provided that a process that was told to end ends while it is
\* waited for, that the pid file can be written, and that the backend does not
\* die between a start and that write.
THEOREM OneEngineOnly == Faults = {} => (Spec => []OneEngine)
  <1> SUFFICES ASSUME Faults = {}
               PROVE  Spec => []OneEngine
    OBVIOUS
  <1>1. Init => Inv /\ Known
    BY InitInv DEF Init, Known, Ours, Live
  <1>2. Inv /\ Known /\ [Next]_vars => Inv' /\ Known'
    BY NextInv, KnownNext
  <1>3. Inv /\ Known => OneEngine
    BY DEF Known, OneEngine
  <1> QED BY <1>1, <1>2, <1>3, PTL DEF Spec

\* A process that is not an aria2c of ours is never told to end, whoever was
\* given the pid of the pid file or of a child meanwhile.
THEOREM ForeignSpared == Spec => OnlyOursKilled
  <1> DEFINE Spared == \A p \in Pids : table[p] = "foreign" => table'[p] \in {"foreign", "free"}
  <1>1. Inv /\ [Next]_vars => [Spared]_vars
    <2> SUFFICES ASSUME Inv, Next
                 PROVE  Spared
      OBVIOUS
    <2>0. table \in [Pids -> Kind] /\ Places
      BY DEF Inv, TypeOK
    <2>1. CASE Tick \/ UserStart
      BY <2>0, <2>1 DEF Tick, UserStart, Start, Waited
    <2>2. CASE Shutdown \/ StartFails \/ BackendStart \/ Elapse
      BY <2>0, <2>2 DEF Shutdown, StartFails, BackendStart, Elapse
    <2>3. CASE ReapTerm \/ ReapNothing \/ ReapDone \/ StopAsk \/ StopDone
      BY <2>0, <2>3 DEF ReapTerm, ReapNothing, ReapDone, StopAsk, StopDone, Waited, IsOurs, Live
    <2>4. CASE \E p \in Pids : Fork(p)
      BY <2>0, <2>4 DEF Fork
    <2>5. CASE Ready \/ NotReady \/ PollOk \/ PollFails
      BY <2>0, <2>5 DEF Ready, NotReady, PollOk, PollFails
    <2>6. CASE \E p \in Pids : BecomeReady(p) \/ Hang(p) \/ Exit(p) \/ Foreign(p)
      BY <2>0, <2>6 DEF BecomeReady, Hang, Exit, Foreign, Live
    <2>7. CASE BackendDies
      BY <2>0, <2>7 DEF BackendDies
    <2> QED BY <2>1, <2>2, <2>3, <2>4, <2>5, <2>6, <2>7 DEF Next, Supervise
  <1> QED BY <1>1, InitInv, NextInv, PTL DEF Spec, OnlyOursKilled

=============================================================================
