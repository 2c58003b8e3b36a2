---------------------------- MODULE StorageCalls ----------------------------
(***************************************************************************)
(* The calls of the interface kvstore.Storage that are under way, and what *)
(* a caller may expect of them, whatever the backend.  Put number n stores *)
(* value n, whose kind tells what matters of it: "json" has a JSON text,   *)
(* "nil" is the nil that a removal and the JSON null store, "odd" cannot   *)
(* be marshalled (a NaN that a template computed).  Value 0 stands for     *)
(* nothing stored.  cand, before and fits are history: they say which      *)
(* values a read may return if every slot of the store is a register that  *)
(* concurrent puts write in any order.                                     *)
(***************************************************************************)
EXTENDS Naturals, Sequences, FiniteSets

CONSTANTS HttpClients,       \* goroutines that serve requests of the http API
          TemplateClients,   \* goroutines that render templates of responses
          Stores, Keys,      \* names of stores and of their keys
          MaxPuts            \* bound: puts and removals in a behaviour

ASSUME CallsAssumption ==
    /\ MaxPuts \in Nat /\ Stores # {} /\ Keys # {}
    /\ HttpClients \cap TemplateClients = {}

Clients == HttpClients \cup TemplateClients
Slots == Stores \X Keys
Values == 0..MaxPuts
Kinds == {"json", "nil", "odd"}

VARIABLES pc,      \* [Clients -> the next step of the call; "idle": there is none;
                   \*  "done": it has returned]
          call,    \* [Clients -> the call it makes]
          kind,    \* the kinds of the values put so far
          result,  \* [Clients -> what the call has returned]
          cand,    \* history, [Slots -> values that no ended put has replaced]
          before,  \* history, [Clients -> values its put replaces]
          fits     \* history, [Clients -> [Slots -> values its read may return]]

calls == <<pc, call, kind, result, cand, before, fits>>

NoCall == [op |-> "none", slot |-> CHOOSE s \in Slots : TRUE, n |-> 0]
NoFits == [s \in Slots |-> {}]
NoResult == [err |-> FALSE, isNil |-> TRUE, val |-> <<>>]

CallsInit ==
    /\ pc = [c \in Clients |-> "idle"]
    /\ call = [c \in Clients |-> NoCall]
    /\ kind = <<>>
    /\ result = [c \in Clients |-> NoResult]
    /\ cand = [s \in Slots |-> {0}]
    /\ before = [c \in Clients |-> {}]
    /\ fits = [c \in Clients |-> NoFits]

Writes == {"Put", "Remove"}
Reads == {"Get", "HasKey", "GetAll"}
IsNil(v) == v = 0 \/ kind[v] = "nil"

\* The puts that have not returned.
Pending == {call[c].n : c \in {d \in Clients : pc[d] # "done" /\ call[d].op \in Writes}}

\* The slots that a read is about: GetAll reads all keys of a store.
About(op, s) == IF op = "GetAll" THEN {s[1]} \X Keys ELSE {s}

\* The reads of slot s that have not returned.
Reading(s) == {c \in Clients : pc[c] # "done" /\ call[c].op \in Reads
                              /\ s \in About(call[c].op, call[c].slot)}

\* A call of Put; a removal puts nil.
BeginPut(c, op, s, k, label) ==
    LET n == Len(kind) + 1 IN
    /\ pc[c] = "idle" /\ n <= MaxPuts
    /\ pc' = [pc EXCEPT ![c] = label]
    /\ call' = [call EXCEPT ![c] = [op |-> op, slot |-> s, n |-> n]]
    /\ kind' = Append(kind, k)
    /\ cand' = [cand EXCEPT ![s] = @ \cup {n}]
    /\ before' = [before EXCEPT ![c] = cand[s] \ Pending]
    /\ fits' = [d \in Clients |-> IF d \in Reading(s) THEN [fits[d] EXCEPT ![s] = @ \cup {n}]
                                                     ELSE fits[d]]
    /\ UNCHANGED result

\* A call of Get or GetAll.
BeginRead(c, op, s, label) ==
    /\ pc[c] = "idle"
    /\ pc' = [pc EXCEPT ![c] = label]
    /\ call' = [call EXCEPT ![c] = [op |-> op, slot |-> s, n |-> 0]]
    /\ fits' = [fits EXCEPT ![c] = [x \in Slots |-> IF x \in About(op, s) THEN cand[x] ELSE {}]]
    /\ UNCHANGED <<kind, result, cand, before>>

\* The call returns an error: a put may have stored its value or not.
ReturnError(c) ==
    /\ pc' = [pc EXCEPT ![c] = "done"]
    /\ result' = [result EXCEPT ![c].err = TRUE]
    /\ before' = [before EXCEPT ![c] = {}]
    /\ UNCHANGED <<call, kind, cand, fits>>

\* A put returns without an error.  Values whose puts ended before it began are
\* replaced, unless the put went where no reader looks.
ReturnPut(c, replaces) ==
    /\ pc' = [pc EXCEPT ![c] = "done"]
    /\ cand' = IF replaces THEN [cand EXCEPT ![call[c].slot] = @ \ before[c]] ELSE cand
    /\ before' = [before EXCEPT ![c] = {}]
    /\ UNCHANGED <<call, kind, result, fits>>

\* A read returns val: nil, the value of one key or those of several keys.
ReturnRead(c, isNil, val) ==
    /\ pc' = [pc EXCEPT ![c] = "done"]
    /\ result' = [result EXCEPT ![c].isNil = isNil, ![c].val = val]
    /\ UNCHANGED <<call, kind, cand, before, fits>>

\* The caller has used what was returned.
Forget(c) ==
    /\ pc[c] = "done"
    /\ pc' = [pc EXCEPT ![c] = "idle"]
    /\ call' = [call EXCEPT ![c] = NoCall]
    /\ result' = [result EXCEPT ![c] = NoResult]
    /\ fits' = [fits EXCEPT ![c] = NoFits]
    /\ UNCHANGED <<kind, cand, before>>

CallsTypeOK ==
    /\ kind \in Seq(Kinds) /\ Len(kind) <= MaxPuts
    /\ cand \in [Slots -> SUBSET Values] /\ \A s \in Slots : cand[s] # {}
    /\ before \in [Clients -> SUBSET Values]
    /\ fits \in [Clients -> [Slots -> SUBSET Values]]
    /\ \A c \in Clients : call[c].slot \in Slots /\ call[c].n \in 0..Len(kind)
=============================================================================
