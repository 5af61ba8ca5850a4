---------------------------- MODULE AtomicStore ----------------------------
(***************************************************************************)
(* The linearizable store that README.md promises: a call takes effect at  *)
(* one moment, at most once, and not before it is made; a call that is     *)
(* answered OK has taken effect before the answer.  A call refused with    *)
(* ErrWrongLeader may or may not have, and may still do so later.          *)
(***************************************************************************)
EXTENDS Naturals, Sequences

CONSTANTS Call, Request, NoRequest

VARIABLES
  content,  \* content[k]: the value under key k
  asked,    \* asked[c]: the request of call c, once it is made
  taken,    \* taken[c]: has c taken effect?
  saw,      \* saw[c]: the value under its key when a Get took effect
  told      \* told[c]: [err, value], once c is answered

vars == <<content, asked, taken, saw, told>>

Silence == [err |-> "", value |-> << >>]

Init ==
  /\ content = [k \in {q.key : q \in Request} |-> << >>]
  /\ asked = [c \in Call |-> NoRequest]
  /\ taken = [c \in Call |-> FALSE]
  /\ saw = [c \in Call |-> << >>]
  /\ told = [c \in Call |-> Silence]

Ask(c, q) ==
  /\ asked[c] = NoRequest
  /\ asked' = [asked EXCEPT ![c] = q]
  /\ UNCHANGED <<content, taken, saw, told>>

TakeEffect(c) ==
  LET q == asked[c]
  IN /\ q # NoRequest /\ ~taken[c]
     /\ taken' = [taken EXCEPT ![c] = TRUE]
     /\ \/ q.kind = "Get" /\ saw' = [saw EXCEPT ![c] = content[q.key]] /\ UNCHANGED content
        \/ q.kind = "Put" /\ content' = [content EXCEPT ![q.key] = q.value] /\ UNCHANGED saw
        \/ /\ q.kind = "Append"
           /\ content' = [content EXCEPT ![q.key] = @ \o q.value]
           /\ UNCHANGED saw
     /\ UNCHANGED <<asked, told>>

Tell(c) ==
  /\ taken[c] /\ told[c] = Silence
  /\ told' = [told EXCEPT ![c] =
       IF asked[c].kind = "Get" /\ saw[c] = << >> THEN [err |-> "ErrNoKey", value |-> << >>]
       ELSE [err |-> "OK", value |-> saw[c]]]
  /\ UNCHANGED <<content, asked, taken, saw>>

Refuse(c) ==
  /\ asked[c] # NoRequest /\ told[c] = Silence
  /\ told' = [told EXCEPT ![c] = [err |-> "ErrWrongLeader", value |-> << >>]]
  /\ UNCHANGED <<content, asked, taken, saw>>

Next ==
  \E c \in Call : (\E q \in Request : Ask(c, q)) \/ TakeEffect(c) \/ Tell(c) \/ Refuse(c)

Spec == Init /\ [][Next]_vars
=============================================================================
