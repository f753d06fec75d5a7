--------------------------- MODULE RegistryProofs ---------------------------
(***************************************************************************)
(* Registry for any number of goroutines and any set of namespaces: what   *)
(* the mutex keeps apart, and that a registered name is never rebound.     *)
(***************************************************************************)
EXTENDS Registry, TLAPS

Labels == {"idle", "enter", "Lock", "drain", "make", "check", "insert", "unlock",
           "RLock", "wait", "read", "copy", "runlock", "return"}

Typed == /\ registry \in {"nil", "zero", "made"}
         /\ announced \in Goroutines \cup {Nobody}
         /\ reading \subseteq Goroutines
         /\ pc \in [Goroutines -> Labels]
         /\ call \in [Goroutines -> Calls \cup {NoCall}]

\* The holder of Lock is the one goroutine in Register's section, and by the
\* time it touches the map every reader has left; a goroutine that reads the
\* map holds RLock, and who holds RLock is reading or about to.
Excluding ==
  /\ \A g \in Goroutines :
        pc[g] \in {"drain", "make", "check", "insert", "unlock"} <=> announced = g
  /\ \A g \in Goroutines :
        pc[g] \in {"make", "check", "insert", "unlock"} => reading = {}
  /\ \A g \in Goroutines : pc[g] \in {"read", "copy", "runlock"} => g \in reading

\* In Register's section the map is made before it is used, and the name that
\* is about to be inserted is not in it.
Registering ==
  /\ \A g \in Goroutines : pc[g] \in {"check", "insert"} => registry = "made"
  /\ \A g \in Goroutines :
        pc[g] = "insert" => call[g].namespace.name \notin DOMAIN namespaces

IInv == Typed /\ Excluding /\ Registering

\* The invariant holds whatever NewRegistry, the zero value or a nil pointer
\* starts with.
LEMMA RegistryInit == Init => IInv
BY NobodyAssumption DEF Init, IInv, Typed, Labels, Excluding, Registering

\* Every step of every goroutine keeps it: the steps of the mutex are those
\* that hand the map over, the others move within one section.
LEMMA RegistryNext == IInv /\ [Next]_vars => IInv'
<1> SUFFICES ASSUME IInv, [Next]_vars PROVE IInv'
  OBVIOUS
<1> USE NobodyAssumption DEF IInv, Typed, Labels, Excluding, Registering, At, Goto, lock
<1>1. ASSUME NEW g \in Goroutines, Call(g) PROVE IInv'
  BY <1>1 DEF Call
<1>2. ASSUME NEW g \in Goroutines, Refuse(g) PROVE IInv'
  BY <1>2 DEF Refuse
<1>3. ASSUME NEW g \in Goroutines, Admit(g) PROVE IInv'
  BY <1>3 DEF Admit
<1>4. ASSUME NEW g \in Goroutines, Lock(g) PROVE IInv'
  BY <1>4 DEF Lock
<1>5. ASSUME NEW g \in Goroutines, Drained(g) PROVE IInv'
  BY <1>5 DEF Drained
<1>6. ASSUME NEW g \in Goroutines, MakeMap(g) PROVE IInv'
  BY <1>6 DEF MakeMap
<1>7. ASSUME NEW g \in Goroutines, Check(g) PROVE IInv'
  BY <1>7 DEF Check
<1>8. ASSUME NEW g \in Goroutines, Insert(g) PROVE IInv'
  BY <1>8 DEF Insert
<1>9. ASSUME NEW g \in Goroutines, Unlock(g) PROVE IInv'
  BY <1>9 DEF Unlock
<1>10. ASSUME NEW g \in Goroutines, RLock(g) PROVE IInv'
  BY <1>10 DEF RLock, Inside
<1>11. ASSUME NEW g \in Goroutines, Woken(g) PROVE IInv'
  BY <1>11 DEF Woken, Inside
<1>12. ASSUME NEW g \in Goroutines, Read(g) PROVE IInv'
  BY <1>12 DEF Read
<1>13. ASSUME NEW g \in Goroutines, Copy(g) PROVE IInv'
  BY <1>13 DEF Copy
<1>14. ASSUME NEW g \in Goroutines, Sort(g) PROVE IInv'
  BY <1>14 DEF Sort
<1>15. ASSUME NEW g \in Goroutines, RUnlock(g) PROVE IInv'
  BY <1>15 DEF RUnlock
<1>16. ASSUME NEW g \in Goroutines, Return(g) PROVE IInv'
  BY <1>16 DEF Return
<1>17. CASE UNCHANGED vars
  BY <1>17 DEF vars
<1> QED
  BY <1>1, <1>2, <1>3, <1>4, <1>5, <1>6, <1>7, <1>8, <1>9, <1>10, <1>11, <1>12,
     <1>13, <1>14, <1>15, <1>16, <1>17 DEF Next, Step

\* The invariant holds in every reachable state.
THEOREM RegistryInvariant == Spec => []IInv
BY RegistryInit, RegistryNext, PTL DEF Spec

\* No goroutine is at the map while another one changes it, and nothing is
\* inserted into a nil map, for any number of goroutines.
THEOREM RegistryMapIsSafe == Spec => []MapIsSafe
<1>1. IInv => MapIsSafe
  BY DEF IInv, Typed, Excluding, Registering, MapIsSafe, Writing, Accessing
<1> QED
  BY <1>1, RegistryInvariant, PTL

\* Whoever registers a name first keeps it.
THEOREM RegistryFirstStays == Spec => FirstRegistrationStays
<1> DEFINE Kept == \A n \in DOMAIN namespaces :
                      n \in DOMAIN namespaces' /\ namespaces'[n] = namespaces[n]
<1>1. IInv /\ [Next]_vars => [Kept]_vars
  <2> SUFFICES ASSUME IInv, Next PROVE Kept
    OBVIOUS
  <2>1. ASSUME NEW g \in Goroutines, Insert(g) PROVE Kept
    BY <2>1 DEF Insert, At, IInv, Registering
  <2>2. ASSUME NEW g \in Goroutines, Call(g) \/ Step(g), ~Insert(g) PROVE Kept
    <3>1. UNCHANGED namespaces
      BY <2>2 DEF Step, Call, Refuse, Admit, Lock, Drained, MakeMap, Check, Unlock,
                  RLock, Woken, Read, Copy, Sort, RUnlock, Return
    <3> QED
      BY <3>1
  <2> QED
    BY <2>1, <2>2 DEF Next, Step
<1>2. Spec => [][Kept]_vars
  BY <1>1, RegistryInvariant, PTL DEF Spec
<1> QED
  BY <1>2 DEF FirstRegistrationStays

-----------------------------------------------------------------------------
\* Linearizable: a call takes effect when its answer is computed, which is
\* under the mutex.

\* What the map holds, and that a nil Registry holds nothing.
Stored == /\ \A n \in DOMAIN namespaces :
                /\ namespaces[n] \in Offered
                /\ namespaces[n].name = n
                /\ Valid(namespaces[n])
          /\ registry = "nil" => DOMAIN namespaces = {}

\* A goroutine is where its call takes it, and past the early returns only
\* with a usable registry.
Underway ==
  \A g \in Goroutines :
     /\ pc[g] \notin {"idle", "return"} => call[g] \in Calls
     /\ pc[g] \in {"Lock", "drain", "make", "check", "insert"} =>
           call[g].op = "Register" /\ Valid(call[g].namespace)
     /\ pc[g] \in {"RLock", "wait"} => call[g].op \in {"Lookup", "Namespaces"}
     /\ pc[g] = "read" => call[g].op = "Lookup"
     /\ pc[g] = "copy" => call[g].op = "Namespaces"
     /\ pc[g] \notin {"idle", "enter", "return"} => registry # "nil"

\* A copy in progress holds registered namespaces and nothing else: the map
\* does not change under it.
Copying ==
  /\ result = [g \in Goroutines |-> result[g]]
  /\ \A g \in Goroutines :
        pc[g] \in {"idle", "enter", "Lock", "drain", "make", "check", "insert",
                  "RLock", "wait", "read"} => result[g] = NoAnswer
  /\ \A g \in Goroutines :
        pc[g] = "copy" =>
           /\ result[g] \in Seq(Offered)
           /\ \A i \in DOMAIN result[g] :
                 \E n \in DOMAIN namespaces : result[g][i] = namespaces[n]

LInv == Stored /\ Underway /\ Copying

\* What NewRegistry leaves is stored under its name.
LEMMA LInvInit == Init => LInv
<1> SUFFICES ASSUME Init PROVE LInv
  OBVIOUS
<1>1. Stored
  BY DEF Init, Stored, Registered
<1>2. Underway /\ Copying
  BY DEF Init, Underway, Copying
<1> QED
  BY <1>1, <1>2 DEF LInv

\* Every step keeps what is stored: only Insert changes it.
LEMMA StoredNext == IInv /\ LInv /\ [Next]_vars => Stored'
<1> SUFFICES ASSUME IInv, LInv, [Next]_vars PROVE Stored'
  OBVIOUS
<1> USE DEF LInv, Stored
<1>1. ASSUME NEW g \in Goroutines, Insert(g) PROVE Stored'
  <2>1. /\ call[g] \in Calls /\ call[g].op = "Register"
        /\ Valid(call[g].namespace) /\ registry # "nil"
    BY <1>1 DEF Insert, At, Underway
  <2>2. call[g].namespace \in Offered
    BY <2>1 DEF Calls
  <2> QED
    BY <1>1, <2>1, <2>2 DEF Insert, Valid
<1>2. ASSUME NEW g \in Goroutines, Call(g) \/ Step(g), ~Insert(g) PROVE Stored'
  <2>1. UNCHANGED namespaces /\ (registry' = registry \/ registry' = "made")
    BY <1>2 DEF Step, Call, Refuse, Admit, Lock, Drained, MakeMap, Check, Unlock,
                RLock, Woken, Read, Copy, Sort, RUnlock, Return
  <2> QED
    BY <2>1 DEF Valid
<1>3. CASE UNCHANGED vars
  BY <1>3 DEF vars, Valid
<1> QED
  BY <1>1, <1>2, <1>3 DEF Next, Step

\* Every step takes its goroutine where its call goes.
LEMMA UnderwayNext == IInv /\ LInv /\ [Next]_vars => Underway'
<1> SUFFICES ASSUME IInv, LInv, [Next]_vars PROVE Underway'
  OBVIOUS
<1> USE DEF LInv, Underway, IInv, Typed, Labels, At, Goto, Calls
<1>1. ASSUME NEW g \in Goroutines, Call(g) PROVE Underway'
  BY <1>1 DEF Call, Valid
<1>2. ASSUME NEW g \in Goroutines, Admit(g) PROVE Underway'
  BY <1>2 DEF Admit, Valid
<1>3. ASSUME NEW g \in Goroutines, RLock(g) \/ Woken(g) PROVE Underway'
  BY <1>3 DEF RLock, Woken, Inside, Valid
<1>4. ASSUME NEW g \in Goroutines, MakeMap(g) PROVE Underway'
  BY <1>4 DEF MakeMap, Valid
<1>5. ASSUME NEW g \in Goroutines, Refuse(g) \/ Return(g) PROVE Underway'
  BY <1>5 DEF Refuse, Return, Valid
<1>6. ASSUME NEW g \in Goroutines, Lock(g) \/ Drained(g) \/ Unlock(g) \/ RUnlock(g)
      PROVE Underway'
  BY <1>6 DEF Lock, Drained, Unlock, RUnlock, Valid
<1>7. ASSUME NEW g \in Goroutines, Check(g) \/ Insert(g) PROVE Underway'
  BY <1>7 DEF Check, Insert, Valid
<1>8. ASSUME NEW g \in Goroutines, Read(g) \/ Copy(g) \/ Sort(g) PROVE Underway'
  BY <1>8 DEF Read, Copy, Sort, Valid
<1>9. CASE UNCHANGED vars
  BY <1>9 DEF vars, Valid
<1> QED
  BY <1>1, <1>2, <1>3, <1>4, <1>5, <1>6, <1>7, <1>8, <1>9 DEF Next, Step

\* No step spoils a copy in progress: Insert finds no reader at the map.
LEMMA CopyingNext == IInv /\ LInv /\ [Next]_vars => Copying'
<1> SUFFICES ASSUME IInv, LInv, [Next]_vars PROVE Copying'
  OBVIOUS
<1> USE DEF LInv, Copying, IInv, Typed, Labels, At, Goto, Yields
<1>1. ASSUME NEW g \in Goroutines, Call(g) \/ Admit(g) PROVE Copying'
  BY <1>1 DEF Call, Admit
<1>2. ASSUME NEW g \in Goroutines, Refuse(g) PROVE Copying'
  BY <1>2 DEF Refuse
<1>3. ASSUME NEW g \in Goroutines, RLock(g) \/ Woken(g) PROVE Copying'
  <2>1. NoAnswer \in Seq(Offered) /\ DOMAIN NoAnswer = {}
    BY DEF NoAnswer
  <2>2. result[g] = NoAnswer /\ UNCHANGED <<result, namespaces>>
    BY <1>3 DEF RLock, Woken
  <2>3. \A h \in Goroutines : h # g => pc'[h] = pc[h]
    BY <1>3 DEF RLock, Woken
  <2>4. pc'[g] \in {"wait", "read", "copy"}
    BY <1>3 DEF RLock, Woken, Inside
  <2>5. \A h \in Goroutines : pc'[h] = "copy" =>
           /\ result[h] \in Seq(Offered)
           /\ \A i \in DOMAIN result[h] :
                 \E n \in DOMAIN namespaces : result[h][i] = namespaces[n]
    BY <2>1, <2>2, <2>3
  <2> QED
    BY <2>2, <2>3, <2>4, <2>5
<1>4. ASSUME NEW g \in Goroutines, Lock(g) \/ Drained(g) \/ MakeMap(g) PROVE Copying'
  BY <1>4 DEF Lock, Drained, MakeMap
<1>5. ASSUME NEW g \in Goroutines, Unlock(g) \/ RUnlock(g) \/ Return(g) PROVE Copying'
  BY <1>5 DEF Unlock, RUnlock, Return
<1>6. ASSUME NEW g \in Goroutines, Check(g) PROVE Copying'
  BY <1>6 DEF Check
<1>7. ASSUME NEW g \in Goroutines, Insert(g) PROVE Copying'
  <2>1. \A h \in Goroutines : pc[h] # "copy"
    BY <1>7 DEF Insert, Excluding
  <2> QED
    BY <1>7, <2>1 DEF Insert
<1>8. ASSUME NEW g \in Goroutines, Read(g) \/ Sort(g) PROVE Copying'
  BY <1>8 DEF Read, Sort
<1>9. ASSUME NEW g \in Goroutines, Copy(g) PROVE Copying'
  <2>1. PICK n \in DOMAIN namespaces :
           result' = [result EXCEPT ![g] = Append(result[g], namespaces[n])]
    BY <1>9 DEF Copy, Missing
  <2>2. namespaces[n] \in Offered /\ result[g] \in Seq(Offered)
    BY <1>9 DEF Copy, Stored
  <2>3. /\ result'[g] \in Seq(Offered)
        /\ \A i \in DOMAIN result'[g] :
              \E m \in DOMAIN namespaces : result'[g][i] = namespaces[m]
    <3> DEFINE r == result[g]
               t == Append(r, namespaces[n])
    <3>1. result'[g] = t
      BY <2>1
    <3>2. t \in Seq(Offered) /\ DOMAIN t = 1..(Len(r) + 1)
      BY <2>2
    <3>3. \A i \in 1..Len(r) : t[i] = r[i] /\ i \in DOMAIN r
      BY <2>2
    <3>4. t[Len(r) + 1] = namespaces[n]
      BY <2>2
    <3>5. \A i \in DOMAIN r : \E m \in DOMAIN namespaces : r[i] = namespaces[m]
      BY <1>9 DEF Copy
    <3> HIDE DEF t, r
    <3>6. Len(r) \in Nat
      BY <2>2 DEF r
    <3>7. \A i \in DOMAIN t : \E m \in DOMAIN namespaces : t[i] = namespaces[m]
      <4> TAKE i \in DOMAIN t
      <4>1. i \in 1..Len(r) \/ i = Len(r) + 1
        BY <3>2, <3>6
      <4> QED
        BY <4>1, <3>3, <3>4, <3>5
    <3> QED
      BY <3>1, <3>2, <3>7
  <2>4. \A h \in Goroutines : h # g => result'[h] = result[h]
    BY <2>1
  <2>5. UNCHANGED <<pc, namespaces>> /\ pc[g] = "copy"
    BY <1>9 DEF Copy
  <2>6. result' = [h \in Goroutines |-> result'[h]]
    BY <2>1
  <2>7. \A h \in Goroutines : pc'[h] = "copy" =>
           /\ result'[h] \in Seq(Offered)
           /\ \A i \in DOMAIN result'[h] :
                 \E m \in DOMAIN namespaces : result'[h][i] = namespaces[m]
    BY <2>3, <2>4, <2>5
  <2>8. \A h \in Goroutines :
           pc'[h] \in {"idle", "enter", "Lock", "drain", "make", "check", "insert",
                      "RLock", "wait", "read"} => result'[h] = NoAnswer
    BY <2>4, <2>5
  <2> QED
    BY <2>5, <2>6, <2>7, <2>8 DEF NoAnswer
<1>10. CASE UNCHANGED vars
  BY <1>10 DEF vars
<1> QED
  BY <1>1, <1>2, <1>3, <1>4, <1>5, <1>6, <1>7, <1>8, <1>9, <1>10 DEF Next, Step

\* The invariant of the refinement holds in every reachable state.
LEMMA RegistryLInv == Spec => [](IInv /\ LInv)
<1>1. IInv /\ LInv /\ [Next]_vars => LInv'
  BY StoredNext, UnderwayNext, CopyingNext DEF LInv
<1> QED
  BY <1>1, LInvInit, RegistryInvariant, RegistryInit, RegistryNext, PTL DEF Spec

-----------------------------------------------------------------------------
\* The refinement mapping.
usableBar == registry # "nil"
statusBar == [g \in Goroutines |-> Status(pc[g])]
answerBar == [g \in Goroutines |-> IF Status(pc[g]) = "answered"
                                   THEN result[g] ELSE NoAnswer]

\* A step that leaves the goroutine before or after its answer stutters.
LEMMA Stutter ==
  ASSUME IInv, LInv, NEW g \in Goroutines, NEW label \in Labels,
         pc' = [pc EXCEPT ![g] = label], Status(label) = Status(pc[g]),
         Status(label) = "answered" => UNCHANGED result,
         \A h \in Goroutines : h # g => result'[h] = result[h],
         (registry' # "nil") = (registry # "nil"),
         UNCHANGED <<namespaces, call>>
  PROVE  UNCHANGED Answers!vars
<1> USE DEF IInv, Typed
<1>1. \A h \in Goroutines : pc'[h] = IF h = g THEN label ELSE pc[h]
  OBVIOUS
<1>2. statusBar' = statusBar
  BY <1>1 DEF statusBar
<1>3. answerBar' = answerBar
  BY <1>1 DEF answerBar
<1> QED
  BY <1>2, <1>3 DEF Answers!vars, statusBar, answerBar

\* A step on which the goroutine gets its answer a, and what it maps to.
Computes(g, label, a) == /\ Status(pc[g]) = "called"
                         /\ label \in {"unlock", "runlock", "return"}
                         /\ pc' = [pc EXCEPT ![g] = label]
                         /\ result' = [result EXCEPT ![g] = a]
                         /\ UNCHANGED <<registry, call>>

Answered(g, a) == /\ statusBar[g] = "called"
                  /\ statusBar' = [statusBar EXCEPT ![g] = "answered"]
                  /\ answerBar' = [answerBar EXCEPT ![g] = a]
                  /\ UNCHANGED <<registry, call>>

\* The step that computes an answer is the step at which the call takes effect.
LEMMA Answering ==
  ASSUME IInv, LInv, NEW g \in Goroutines, NEW label, NEW STATE a, Computes(g, label, a)
  PROVE  Answered(g, a)
<1> USE DEF IInv, Typed, LInv, Copying, Computes
<1>1. \A h \in Goroutines : pc'[h] = IF h = g THEN label ELSE pc[h]
  OBVIOUS
<1>2. \A h \in Goroutines : result'[h] = IF h = g THEN a ELSE result[h]
  OBVIOUS
<1>3. Status(label) = "answered"
  BY DEF Status
<1>4. statusBar' = [statusBar EXCEPT ![g] = "answered"]
  BY <1>1, <1>3 DEF statusBar
<1>5. answerBar' = [answerBar EXCEPT ![g] = a]
  BY <1>1, <1>2, <1>3 DEF answerBar
<1>6. statusBar[g] = "called"
  BY DEF statusBar
<1> QED
  BY <1>4, <1>5, <1>6 DEF Answered

\* Every step of the Registry is a step of the NamespaceSet or a stutter.
LEMMA RegistryStep == IInv /\ LInv /\ [Next]_vars => [Answers!Next]_(Answers!vars)
<1> SUFFICES ASSUME IInv, LInv, [Next]_vars
             PROVE  Answers!Next \/ UNCHANGED Answers!vars
  OBVIOUS
<1> USE DEF At, Goto
<1>1. ASSUME NEW g \in Goroutines, Call(g) PROVE Answers!Call(g)
  <2>1. /\ pc[g] = "idle" /\ pc' = [pc EXCEPT ![g] = "enter"]
        /\ UNCHANGED <<registry, namespaces, result>>
    BY <1>1 DEF Call
  <2>2. \A h \in Goroutines : pc'[h] = IF h = g THEN "enter" ELSE pc[h]
    BY <2>1 DEF IInv, Typed
  <2>3. statusBar' = [statusBar EXCEPT ![g] = "called"]
    BY <2>2 DEF statusBar, Status, IInv, Typed
  <2>4. answerBar' = answerBar
    BY <2>1, <2>2 DEF answerBar, Status, IInv, Typed
  <2>5. statusBar[g] = "idle"
    BY <2>1 DEF statusBar, Status, IInv, Typed
  <2> QED
    BY <1>1, <2>1, <2>3, <2>4, <2>5 DEF Call, Answers!Call, statusBar, answerBar
<1>2. ASSUME NEW g \in Goroutines, Refuse(g)
      PROVE  Answers!Register(g) \/ Answers!Lookup(g) \/ Answers!List(g)
  <2>1. /\ pc[g] = "enter" /\ Status(pc[g]) = "called"
        /\ pc' = [pc EXCEPT ![g] = "return"]
        /\ UNCHANGED <<registry, namespaces, call>>
    BY <1>2 DEF Refuse, Status
  <2>2. CASE call[g].op = "Register"
    <3>1. /\ registry = "nil" \/ ~Valid(call[g].namespace)
          /\ result' = [result EXCEPT ![g] = ErrInvalidNamespace]
      BY <1>2, <2>2 DEF Refuse, Yields
    <3>2. Computes(g, "return", ErrInvalidNamespace)
      BY <2>1, <3>1 DEF Computes
    <3>3. Answered(g, ErrInvalidNamespace)
      BY <3>2, Answering
    <3> QED
      BY <2>1, <2>2, <3>1, <3>3
         DEF Answers!Register, Answers!Answer, Answered, statusBar, answerBar
  <2>3. CASE call[g].op = "Lookup"
    <3>1. registry = "nil" /\ result' = [result EXCEPT ![g] = NoAnswer]
      BY <1>2, <2>3 DEF Refuse, Yields
    <3>2. call[g].name \notin DOMAIN namespaces
      BY <3>1 DEF LInv, Stored
    <3>3. Computes(g, "return", NoAnswer)
      BY <2>1, <3>1 DEF Computes
    <3>4. Answered(g, NoAnswer)
      BY <3>3, Answering
    <3> QED
      BY <2>1, <2>3, <3>2, <3>4
         DEF Answers!Lookup, Answers!Answer, Answered, statusBar, answerBar
  <2>4. CASE call[g].op = "Namespaces"
    <3>1. registry = "nil" /\ result' = [result EXCEPT ![g] = NoAnswer]
      BY <1>2, <2>4 DEF Refuse, Yields
    <3>2. Computes(g, "return", NoAnswer)
      BY <2>1, <3>1 DEF Computes
    <3>3. Answered(g, NoAnswer)
      BY <3>2, Answering
    <3> QED
      BY <2>1, <2>4, <3>1, <3>3
         DEF Answers!List, Answers!Answer, Answered, statusBar, answerBar
  <2> QED
    BY <1>2, <2>2, <2>3, <2>4 DEF Refuse
<1>3. ASSUME NEW g \in Goroutines,
             \/ Admit(g) \/ Lock(g) \/ Drained(g) \/ MakeMap(g) \/ Unlock(g)
             \/ RLock(g) \/ Woken(g) \/ RUnlock(g)
      PROVE  UNCHANGED Answers!vars
  <2>1. PICK label \in Labels :
           /\ pc' = [pc EXCEPT ![g] = label]
           /\ Status(label) = Status(pc[g])
    BY <1>3 DEF Admit, Lock, Drained, MakeMap, Unlock, RLock, Woken, RUnlock, Inside,
                Labels, Status, IInv, Typed
  <2>2. UNCHANGED <<namespaces, call, result>>
    BY <1>3 DEF Admit, Lock, Drained, MakeMap, Unlock, RLock, Woken, RUnlock
  <2>3. (registry' # "nil") = (registry # "nil")
    BY <1>3 DEF Admit, Lock, Drained, MakeMap, Unlock, RLock, Woken, RUnlock, LInv,
                Underway, IInv, Typed, Labels
  <2> QED
    BY <2>1, <2>2, <2>3, Stutter
<1>4. ASSUME NEW g \in Goroutines, Check(g)
      PROVE  Answers!Register(g) \/ UNCHANGED Answers!vars
  <2>1. /\ call[g].op = "Register" /\ Valid(call[g].namespace)
        /\ registry # "nil" /\ pc[g] = "check"
        /\ UNCHANGED <<registry, namespaces, call>>
    BY <1>4 DEF Check, LInv, Underway, IInv, Typed, Labels
  <2>2. CASE call[g].namespace.name \in DOMAIN namespaces
    <3>1. /\ pc' = [pc EXCEPT ![g] = "unlock"]
          /\ result' = [result EXCEPT ![g] = ErrDuplicateNamespace]
      BY <1>4, <2>2 DEF Check, Yields
    <3>2. Computes(g, "unlock", ErrDuplicateNamespace)
      BY <2>1, <3>1 DEF Computes, Status
    <3>3. Answered(g, ErrDuplicateNamespace)
      BY <3>2, Answering
    <3> QED
      BY <2>1, <2>2, <3>3
         DEF Answers!Register, Answers!Answer, Answered, statusBar, answerBar
  <2>3. CASE call[g].namespace.name \notin DOMAIN namespaces
    <3>1. pc' = [pc EXCEPT ![g] = "insert"] /\ UNCHANGED result
      BY <1>4, <2>3 DEF Check
    <3>2. "insert" \in Labels /\ Status("insert") = Status(pc[g])
      BY <2>1 DEF Labels, Status
    <3> QED
      BY <2>1, <3>1, <3>2, Stutter
  <2> QED
    BY <2>2, <2>3
<1>5. ASSUME NEW g \in Goroutines, Insert(g) PROVE Answers!Register(g)
  <2>1. /\ call[g].op = "Register" /\ Valid(call[g].namespace)
        /\ registry # "nil" /\ pc[g] = "insert"
        /\ UNCHANGED <<registry, call>>
        /\ call[g].namespace.name \notin DOMAIN namespaces
    BY <1>5 DEF Insert, LInv, Underway, IInv, Registering
  <2>2. /\ pc' = [pc EXCEPT ![g] = "unlock"]
        /\ result' = [result EXCEPT ![g] = Success]
    BY <1>5 DEF Insert, Yields
  <2>3. Computes(g, "unlock", Success)
    BY <2>1, <2>2 DEF Computes, Status
  <2>4. Answered(g, Success)
    BY <2>3, Answering
  <2> QED
    BY <1>5, <2>1, <2>4
       DEF Insert, Answers!Register, Answers!Answer, Answered, statusBar, answerBar
<1>6. ASSUME NEW g \in Goroutines, Read(g) PROVE Answers!Lookup(g)
  <2>1. /\ call[g].op = "Lookup" /\ pc[g] = "read" /\ Status(pc[g]) = "called"
        /\ pc' = [pc EXCEPT ![g] = "runlock"]
        /\ UNCHANGED <<registry, namespaces, call>>
    BY <1>6 DEF Read, LInv, Underway, Status
  <2> DEFINE a == IF call[g].name \in DOMAIN namespaces
                  THEN <<namespaces[call[g].name]>> ELSE NoAnswer
  <2>2. Computes(g, "runlock", a)
    BY <1>6, <2>1 DEF Read, Yields, Computes
  <2>3. Answered(g, a)
    BY <2>2, Answering
  <2> QED
    BY <2>1, <2>3 DEF Answers!Lookup, Answers!Answer, Answered, statusBar, answerBar
<1>7. ASSUME NEW g \in Goroutines, Copy(g) PROVE UNCHANGED Answers!vars
  <2>1. /\ pc[g] = "copy" /\ "copy" \in Labels /\ Status("copy") = "called"
        /\ pc' = [pc EXCEPT ![g] = "copy"]
        /\ UNCHANGED <<registry, namespaces, call>>
    BY <1>7 DEF Copy, Labels, Status, IInv, Typed
  <2>2. \A h \in Goroutines : h # g => result'[h] = result[h]
    BY <1>7 DEF Copy, Yields, LInv, Copying
  <2> QED
    BY <2>1, <2>2, Stutter
<1>8. ASSUME NEW g \in Goroutines, Sort(g) PROVE Answers!List(g)
  <2>1. /\ call[g].op = "Namespaces" /\ pc[g] = "copy" /\ Status(pc[g]) = "called"
        /\ registry # "nil"
        /\ pc' = [pc EXCEPT ![g] = "runlock"]
        /\ result' = [result EXCEPT ![g] = ByName({result[g][i] : i \in DOMAIN result[g]})]
        /\ UNCHANGED <<registry, namespaces, call>>
    BY <1>8 DEF Sort, Yields, LInv, Underway, Status
  <2>2. {result[g][i] : i \in DOMAIN result[g]} = {namespaces[n] : n \in DOMAIN namespaces}
    <3>1. \A i \in DOMAIN result[g] : \E n \in DOMAIN namespaces : result[g][i] = namespaces[n]
      BY <2>1 DEF LInv, Copying
    <3>2. \A n \in DOMAIN namespaces : \E i \in DOMAIN result[g] : result[g][i].name = n
      BY <1>8 DEF Sort, Missing
    <3>3. \A n \in DOMAIN namespaces : namespaces[n].name = n
      BY DEF LInv, Stored
    <3>4. \A n \in DOMAIN namespaces : \E i \in DOMAIN result[g] : result[g][i] = namespaces[n]
      BY <3>1, <3>2, <3>3
    <3> QED
      BY <3>1, <3>4
  <2> DEFINE a == ByName({namespaces[n] : n \in DOMAIN namespaces})
  <2>3. result' = [result EXCEPT ![g] = a]
    BY <2>1, <2>2
  <2>4. Computes(g, "runlock", a)
    BY <2>1, <2>3 DEF Computes
  <2>5. Answered(g, a)
    BY <2>4, Answering
  <2> QED
    BY <2>1, <2>5 DEF Answers!List, Answers!Answer, Answered, statusBar, answerBar
<1>9. ASSUME NEW g \in Goroutines, Return(g) PROVE Answers!Return(g)
  <2>1. /\ pc[g] = "return" /\ pc' = [pc EXCEPT ![g] = "idle"]
        /\ call' = [call EXCEPT ![g] = NoCall]
        /\ result' = [result EXCEPT ![g] = NoAnswer]
        /\ UNCHANGED <<registry, namespaces>>
    BY <1>9 DEF Return, Yields
  <2>2. \A h \in Goroutines : pc'[h] = IF h = g THEN "idle" ELSE pc[h]
    BY <2>1 DEF IInv, Typed
  <2>3. \A h \in Goroutines : h # g => result'[h] = result[h]
    BY <2>1 DEF LInv, Copying
  <2>4. statusBar' = [statusBar EXCEPT ![g] = "idle"]
    BY <2>2 DEF statusBar, Status, IInv, Typed
  <2>5. answerBar' = [answerBar EXCEPT ![g] = NoAnswer]
    BY <2>2, <2>3 DEF answerBar, Status, NoAnswer
  <2>6. statusBar[g] = "answered"
    BY <2>1 DEF statusBar, Status, IInv, Typed
  <2> QED
    BY <2>1, <2>4, <2>5, <2>6 DEF Answers!Return, statusBar, answerBar
<1>10. CASE UNCHANGED vars
  BY <1>10 DEF vars, Answers!vars
<1> QED
  BY <1>1, <1>2, <1>3, <1>4, <1>5, <1>6, <1>7, <1>8, <1>9, <1>10
     DEF Next, Step, Answers!Next

\* Whatever goroutines call at once, the Registry answers as if their calls
\* had run one by one, each between its call and its return.
THEOREM RegistryLinearizable == Spec => Linearizable
<1>1. Init => Answers!Init
  <2> SUFFICES ASSUME Init PROVE Answers!Init
    OBVIOUS
  <2>1. \A n \in DOMAIN namespaces : Valid(namespaces[n])
    BY DEF Init, Registered
  <2> QED
    BY <2>1 DEF Init, Answers!Init, Status
<1>2. IInv /\ LInv /\ [Next]_vars => [Answers!Next]_(Answers!vars)
  BY RegistryStep
<1> QED
  BY <1>1, <1>2, RegistryLInv, PTL DEF Spec, Linearizable, Answers!Spec
=============================================================================
