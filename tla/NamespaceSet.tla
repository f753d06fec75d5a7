---------------------------- MODULE NamespaceSet ----------------------------
(***************************************************************************)
(* What a Registry promises to its callers: every call takes effect and    *)
(* gets its answer at one moment between its call and its return.          *)
(***************************************************************************)
CONSTANTS Goroutines, Calls, NoCall, NoAnswer, Success,
          ErrInvalidNamespace, ErrDuplicateNamespace,
          Valid(_),     \* whether a namespace may be registered
          ByName(_)     \* a set of namespaces in the order of their names

VARIABLES usable, namespaces, status, call, answer

vars == <<usable, namespaces, status, call, answer>>

Init == /\ usable \in BOOLEAN
        /\ \A n \in DOMAIN namespaces : Valid(namespaces[n])
        /\ status = [g \in Goroutines |-> "idle"]
        /\ call   = [g \in Goroutines |-> NoCall]
        /\ answer = [g \in Goroutines |-> NoAnswer]

Call(g) == /\ status[g] = "idle"
           /\ status' = [status EXCEPT ![g] = "called"]
           /\ \E c \in Calls : call' = [call EXCEPT ![g] = c]
           /\ UNCHANGED <<usable, namespaces, answer>>

Answer(g, op, a) == /\ status[g] = "called"
                    /\ call[g].op = op
                    /\ status' = [status EXCEPT ![g] = "answered"]
                    /\ answer' = [answer EXCEPT ![g] = a]
                    /\ UNCHANGED <<usable, call>>

Register(g) ==
  LET n == call[g].namespace IN
  \/ /\ Answer(g, "Register", ErrInvalidNamespace)
     /\ ~usable \/ ~Valid(n)
     /\ UNCHANGED namespaces
  \/ /\ Answer(g, "Register", ErrDuplicateNamespace)
     /\ usable /\ Valid(n) /\ n.name \in DOMAIN namespaces
     /\ UNCHANGED namespaces
  \/ /\ Answer(g, "Register", Success)
     /\ usable /\ Valid(n) /\ n.name \notin DOMAIN namespaces
     /\ namespaces' = [m \in DOMAIN namespaces \cup {n.name} |->
                          IF m = n.name THEN n ELSE namespaces[m]]

Lookup(g) ==
  /\ Answer(g, "Lookup", IF call[g].name \in DOMAIN namespaces
                         THEN <<namespaces[call[g].name]>> ELSE NoAnswer)
  /\ UNCHANGED namespaces

List(g) ==
  /\ Answer(g, "Namespaces",
            IF usable THEN ByName({namespaces[n] : n \in DOMAIN namespaces}) ELSE NoAnswer)
  /\ UNCHANGED namespaces

Return(g) == /\ status[g] = "answered"
             /\ status' = [status EXCEPT ![g] = "idle"]
             /\ answer' = [answer EXCEPT ![g] = NoAnswer]
             /\ call'   = [call EXCEPT ![g] = NoCall]
             /\ UNCHANGED <<usable, namespaces>>

Next == \E g \in Goroutines :
           Call(g) \/ Register(g) \/ Lookup(g) \/ List(g) \/ Return(g)

Spec == Init /\ [][Next]_vars
=============================================================================
