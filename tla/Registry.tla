------------------------------ MODULE Registry ------------------------------
(***************************************************************************)
(* cardano/registry.go: a Registry that goroutines share.  Every access of *)
(* the map is a step of its own, so that what the RWMutex is for can be    *)
(* seen; the RWMutex is that of Go's sync package: a Lock that waits keeps *)
(* later readers out, and Unlock lets in every reader that waits.          *)
(*                                                                         *)
(* A namespace is its name, the key size of its metadata, its key codec    *)
(* (the size of the codec, or NoCodec) and whether it has a payload codec. *)
(***************************************************************************)
EXTENDS Integers, Sequences, FiniteSets

CONSTANTS Goroutines,
          Names,        \* what callers look up
          ValidNames,   \* the names validNamespaceName accepts
          Offered,      \* the namespaces callers register
          NoCodec, Nobody, NoCall, Success,
          ErrInvalidNamespace, ErrDuplicateNamespace

ASSUME NamesAssumption  == Names \subseteq Nat
ASSUME NobodyAssumption == Nobody \notin Goroutines
ASSUME OfferedAssumption ==
  \A n \in Offered : n.name \in Names /\ n.KeySize \in Int

VARIABLES
  registry,    \* "nil" (a nil *Registry), "zero" (its map is nil) or "made"
  namespaces,  \* the map, empty unless made
  announced,   \* the RWMutex: who holds Lock or waits for the readers
  reading,     \* the RWMutex: who holds RLock
  pc, call, result

lock == <<announced, reading>>
vars == <<registry, namespaces, lock, pc, call, result>>

\* Namespace.Validate
Valid(n) == /\ n.name \in ValidNames
            /\ n.KeySize > 0
            /\ n.Key # NoCodec /\ n.Key = n.KeySize
            /\ n.Payload

Calls == [op : {"Register"}, namespace : Offered]
           \cup [op : {"Lookup"}, name : Names]
           \cup {[op |-> "Namespaces"]}

\* The zero value of a result: nothing found, no namespaces.
NoAnswer == <<>>

\* NewRegistry leaves valid namespaces, each under its name.
Registered == {m \in UNION {[N -> Offered] : N \in SUBSET Names} :
                 \A n \in DOMAIN m : m[n].name = n /\ Valid(m[n])}

Init == /\ \/ registry \in {"nil", "zero"} /\ namespaces = <<>>
           \/ registry = "made" /\ namespaces \in Registered
        /\ announced = Nobody
        /\ reading   = {}
        /\ pc     = [g \in Goroutines |-> "idle"]
        /\ call   = [g \in Goroutines |-> NoCall]
        /\ result = [g \in Goroutines |-> NoAnswer]

-----------------------------------------------------------------------------
At(g, label)  == pc[g] = label
Goto(g, label) == pc' = [pc EXCEPT ![g] = label]
Yields(g, r)   == result' = [result EXCEPT ![g] = r]

Call(g) == /\ At(g, "idle")
           /\ \E c \in Calls : call' = [call EXCEPT ![g] = c]
           /\ Goto(g, "enter")
           /\ UNCHANGED <<registry, namespaces, lock, result>>

\* The early returns, before the mutex is touched.
Refuse(g) ==
  /\ At(g, "enter")
  /\ \/ call[g].op = "Register" /\ (registry = "nil" \/ ~Valid(call[g].namespace))
        /\ Yields(g, ErrInvalidNamespace)
     \/ call[g].op = "Lookup" /\ registry = "nil" /\ Yields(g, NoAnswer)
     \/ call[g].op = "Namespaces" /\ registry = "nil" /\ Yields(g, NoAnswer)
  /\ Goto(g, "return")
  /\ UNCHANGED <<registry, namespaces, lock, call>>

Admit(g) ==
  /\ At(g, "enter")
  /\ registry # "nil"
  /\ \/ call[g].op = "Register" /\ Valid(call[g].namespace) /\ Goto(g, "Lock")
     \/ call[g].op # "Register" /\ Goto(g, "RLock")
  /\ UNCHANGED <<registry, namespaces, lock, call, result>>

-----------------------------------------------------------------------------
\* sync.RWMutex
Lock(g) == /\ At(g, "Lock")
           /\ announced = Nobody
           /\ announced' = g
           /\ Goto(g, "drain")
           /\ UNCHANGED <<registry, namespaces, reading, call, result>>

Drained(g) == /\ At(g, "drain")
              /\ reading = {}
              /\ Goto(g, "make")
              /\ UNCHANGED <<registry, namespaces, lock, call, result>>

Unlock(g) == /\ At(g, "unlock")
             /\ announced' = Nobody
             /\ reading'   = {h \in Goroutines : At(h, "wait")}
             /\ Goto(g, "return")
             /\ UNCHANGED <<registry, namespaces, call, result>>

Inside(g) == IF call[g].op = "Lookup" THEN "read" ELSE "copy"

\* Slips: Lookup reads without the lock.
RLockUnneeded(g) == /\ At(g, "RLock")
                    /\ Goto(g, Inside(g))
                    /\ UNCHANGED <<registry, namespaces, lock, call, result>>

RLock(g) == /\ At(g, "RLock")
            /\ \/ /\ announced = Nobody
                  /\ reading' = reading \cup {g}
                  /\ Goto(g, Inside(g))
               \/ /\ announced # Nobody
                  /\ Goto(g, "wait")
                  /\ UNCHANGED reading
            /\ UNCHANGED <<registry, namespaces, announced, call, result>>

Woken(g) == /\ At(g, "wait")
            /\ g \in reading
            /\ Goto(g, Inside(g))
            /\ UNCHANGED <<registry, namespaces, lock, call, result>>

RUnlock(g) == /\ At(g, "runlock")
              /\ reading' = reading \ {g}
              /\ Goto(g, "return")
              /\ UNCHANGED <<registry, namespaces, announced, call, result>>

-----------------------------------------------------------------------------
\* Register, between Lock and Unlock
MakeMap(g) == /\ At(g, "make")
              /\ registry' = "made"
              /\ Goto(g, "check")
              /\ UNCHANGED <<namespaces, lock, call, result>>

\* Slips: a name that is taken is overwritten, or waited for.
CheckNothing(g) == /\ At(g, "check")
                   /\ Goto(g, "insert")
                   /\ UNCHANGED <<registry, namespaces, lock, call, result>>

CheckAgain(g) == /\ At(g, "check")
                 /\ Goto(g, IF call[g].namespace.name \in DOMAIN namespaces
                            THEN "make" ELSE "insert")
                 /\ UNCHANGED <<registry, namespaces, lock, call, result>>

Check(g) ==
  /\ At(g, "check")
  /\ \/ /\ call[g].namespace.name \in DOMAIN namespaces
        /\ Yields(g, ErrDuplicateNamespace)
        /\ Goto(g, "unlock")
     \/ /\ call[g].namespace.name \notin DOMAIN namespaces
        /\ Goto(g, "insert")
        /\ UNCHANGED result
  /\ UNCHANGED <<registry, namespaces, lock, call>>

Insert(g) ==
  /\ At(g, "insert")
  /\ LET n == call[g].namespace IN
     namespaces' = [m \in DOMAIN namespaces \cup {n.name} |->
                       IF m = n.name THEN n ELSE namespaces[m]]
  /\ Yields(g, Success)
  /\ Goto(g, "unlock")
  /\ UNCHANGED <<registry, lock, call>>

-----------------------------------------------------------------------------
\* Lookup and Namespaces, between RLock and RUnlock
Read(g) ==
  /\ At(g, "read")
  /\ Yields(g, IF call[g].name \in DOMAIN namespaces
               THEN <<namespaces[call[g].name]>> ELSE NoAnswer)
  /\ Goto(g, "runlock")
  /\ UNCHANGED <<registry, namespaces, lock, call>>

\* The names whose namespaces the copy lacks so far.
Missing(g) == {n \in DOMAIN namespaces :
                 \A i \in DOMAIN result[g] : result[g][i].name # n}

\* The loop over the map meets the names in any order.
Copy(g) == /\ At(g, "copy")
           /\ \E n \in Missing(g) : Yields(g, Append(result[g], namespaces[n]))
           /\ UNCHANGED <<registry, namespaces, lock, pc, call>>

\* sort.Slice, for namespaces whose names differ.
ByName(all) == CHOOSE s \in [1..Cardinality(all) -> all] :
                  \A i, j \in DOMAIN s : i < j => s[i].name < s[j].name

\* Slip: the copy is returned as the map gave it.
SortNothing(g) == /\ At(g, "copy")
                  /\ Missing(g) = {}
                  /\ Goto(g, "runlock")
                  /\ UNCHANGED <<registry, namespaces, lock, call, result>>

Sort(g) == /\ At(g, "copy")
           /\ Missing(g) = {}
           /\ Yields(g, ByName({result[g][i] : i \in DOMAIN result[g]}))
           /\ Goto(g, "runlock")
           /\ UNCHANGED <<registry, namespaces, lock, call>>

Return(g) == /\ At(g, "return")
             /\ Goto(g, "idle")
             /\ call' = [call EXCEPT ![g] = NoCall]
             /\ Yields(g, NoAnswer)
             /\ UNCHANGED <<registry, namespaces, lock>>

-----------------------------------------------------------------------------
\* A goroutine inside a call.
Step(g) == \/ Refuse(g) \/ Admit(g)
           \/ Lock(g) \/ Drained(g) \/ MakeMap(g) \/ Check(g) \/ Insert(g) \/ Unlock(g)
           \/ RLock(g) \/ Woken(g) \/ Read(g) \/ Copy(g) \/ Sort(g) \/ RUnlock(g)
           \/ Return(g)

Next == \E g \in Goroutines : Call(g) \/ Step(g)

\* The scheduler runs every goroutine that can run, and the mutex inside the
\* RWMutex, which writers compete for, starves none of them.
Fairness == \A g \in Goroutines : WF_vars(Step(g)) /\ SF_vars(Lock(g))

Spec == Init /\ [][Next]_vars /\ Fairness

-----------------------------------------------------------------------------
Writing(g)   == pc[g] \in {"make", "insert"}
Accessing(g) == pc[g] \in {"make", "check", "insert", "read", "copy"}

\* While a goroutine makes the map or inserts into it, no other one is at the
\* map ("concurrency-safe", registry.go:82); and what is inserted into is not
\* the nil map of a zero Registry.
MapIsSafe ==
  /\ \A g, h \in Goroutines : g # h /\ Writing(g) => ~Accessing(h)
  /\ \A g \in Goroutines : pc[g] = "insert" => registry = "made"

\* Whoever registers a name first keeps it: no step takes a namespace away or
\* puts another one under its name, however many goroutines register it at
\* once.
FirstRegistrationStays ==
  [][\A n \in DOMAIN namespaces :
        n \in DOMAIN namespaces' /\ namespaces'[n] = namespaces[n]]_vars

\* Every call of every goroutine is answered as if the calls had run one by
\* one: no Lookup misses what was registered before it was called, and the
\* sorted copy Namespaces returns is the registry at one moment.
Status(label) == IF label = "idle" THEN "idle"
                 ELSE IF label \in {"unlock", "runlock", "return"} THEN "answered"
                 ELSE "called"

Answers == INSTANCE NamespaceSet
  WITH usable <- registry # "nil",
       status <- [g \in Goroutines |-> Status(pc[g])],
       answer <- [g \in Goroutines |-> IF Status(pc[g]) = "answered"
                                       THEN result[g] ELSE NoAnswer]
Linearizable == Answers!Spec

\* No goroutine waits forever for the mutex or inside a call, whatever the
\* others keep calling.
CallsReturn == \A g \in Goroutines : ~At(g, "idle") ~> At(g, "idle")
=============================================================================
