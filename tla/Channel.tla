------------------------------ MODULE Channel -------------------------------
(***************************************************************************)
(* The channels of libtask (channel.c), used by tasks that send and        *)
(* receive, on one channel or with chanalt on several, blocking or not.    *)
(* chanalt is one step up to its taskswitch.  The values sent are numbered *)
(* and a receiver keeps what it got, so that a value lost or delivered     *)
(* twice shows.                                                            *)
(***************************************************************************)
EXTENDS Task

CONSTANTS
  Chan,       \* the channels
  bufsize,    \* bufsize[c]
  Talkers,    \* bound: the tasks of the thread
  MaxSend     \* bound: the values sent

ASSUME ChanAssumption ==
  bufsize \in [Chan -> Nat] /\ MaxSend \in Nat /\ Talkers \in 1..MaxTask

Value   == 1..MaxSend
NoValue == 0

VARIABLE ch

NoChans ==
  [buf   |-> [c \in Chan |-> [i \in 0..(bufsize[c] - 1) |-> NoValue]],
   off   |-> [c \in Chan |-> 0],
   nbuf  |-> [c \in Chan |-> 0],
   queue |-> {},       \* the Alts in asend and arecv of all channels
   next  |-> 1,        \* the next value to send
   sent  |-> {},       \* values whose send has been executed
   got   |-> [v \in Value \cup {NoValue} |-> 0]]   \* how often a value was received

(* an Alt: what task wants of channel c.  xalt is the set of the Alts of   *)
(* one chanalt, here of one task.                                          *)
Alt == [task : Tasks, c : Chan, op : {"snd", "rcv"}, v : Value \cup {NoValue}]

otherop(op) == IF op = "snd" THEN "rcv" ELSE "snd"

(* chanarray: the Alts queued on a's channel for the opposite operation *)
Others(x, a) == {o \in x.queue : o.c = a.c /\ o.op = otherop(a.op)}

altcanexec(x, a) ==
  CASE bufsize[a.c] = 0 -> Others(x, a) # {}
    [] bufsize[a.c] > 0 /\ a.op = "snd" -> x.nbuf[a.c] < bufsize[a.c]
    [] bufsize[a.c] > 0 /\ a.op = "rcv" -> x.nbuf[a.c] > 0

Got(x, v) == [x EXCEPT !.got[v] = @ + 1]

(* altcopy's two parts: the oldest value leaves the ring, one enters it *)
FromRing(x, c) ==
  LET o == x.off[c]
  IN  Got([x EXCEPT !.nbuf[c] = @ - 1, !.buf[c][o] = NoValue,
                    !.off[c] = IF o + 1 = bufsize[c] THEN 0 ELSE o + 1],
          x.buf[c][o])

ToRing(x, c, v) ==
  LET i == (x.off[c] + x.nbuf[c]) % bufsize[c]
  IN  [x EXCEPT !.buf[c][i] = v, !.nbuf[c] = @ + 1, !.sent = @ \cup {v}]

(* Up to three players: sender, receiver and ring.  s and r are sets of    *)
(* at most one Alt.  An empty channel copies directly; otherwise it is     *)
(* always right to receive and then to send.                               *)
altcopy(x, c, s, r) ==
  LET Val(S) == (CHOOSE a \in S : TRUE).v
      out    == IF r = {} THEN x ELSE FromRing(x, c)
  IN  CASE s # {} /\ r # {} /\ x.nbuf[c] = 0 ->
             Got([x EXCEPT !.sent = @ \cup {Val(s)}], Val(s))
        [] ~(s # {} /\ r # {} /\ x.nbuf[c] = 0) ->
             IF s = {} THEN out ELSE ToRing(out, c, Val(s))

(* fault: only the Alt that was executed leaves its queue *)
altalldequeue_one(x, o) == [x EXCEPT !.queue = @ \ {o}]

altalldequeue(x, o) == [x EXCEPT !.queue = {a \in @ : a.task # o.task}]

(* altexec with the queued Alt that rand() picks, if there is one *)
altexec(x, a) ==
  LET Copy(o) == IF a.op = "snd" THEN altcopy(x, a.c, {a}, o)
                 ELSE altcopy(x, a.c, o, {a})
  IN  \/ /\ Others(x, a) = {}
         /\ ch' = Copy({})
         /\ UNCHANGED sch
      \/ \E o \in Others(x, a) :
           /\ ch'  = altalldequeue(Copy({o}), o)
           /\ sch' = taskready(sch, o.task)

(* chanalt on the Alts as: one that can be executed is, or all are queued. *)
(* x is the state with the value of a send taken.                          *)
chanalt(t, x, as) ==
  LET can == {a \in as : altcanexec(x, a)}
  IN  \/ \E a \in can : altexec(x, a)
      \/ /\ can = {}
         /\ ch'  = [x EXCEPT !.queue = @ \cup as]
         /\ sch' = taskswitch(sch, t, "alt")

(* back from the taskswitch: who executed the Alt has done everything *)
Chosen(t) == At(t, "alt") /\ sch' = Goto(sch, t, "chan") /\ UNCHANGED ch

(* chansend and chanrecv are chanalt on one Alt; channbsend and channbrecv *)
(* do the same or fail without effect.                                     *)
_chanop(t, ops) ==
  LET snds == {c \in DOMAIN ops : ops[c] = "snd"}
      as   == {[task |-> t, c |-> c, op |-> ops[c],
                v |-> IF c \in snds THEN ch.next ELSE NoValue] : c \in DOMAIN ops}
  IN  /\ At(t, "chan")
      /\ snds # {} => ch.next \in Value
      /\ chanalt(t, [ch EXCEPT !.next = IF snds = {} THEN @ ELSE @ + 1], as)

ChannelNext ==
  \E t \in Tasks :
    \/ \E D \in (SUBSET Chan) \ {{}} : \E ops \in [D -> {"snd", "rcv"}] :
         _chanop(t, ops)
    \/ Chosen(t)
    \/ (Worker(t, "chan", Talkers) \/ Leave(t, "chan")) /\ UNCHANGED ch
-----------------------------------------------------------------------------
AltWaits == {a.task : a \in ch.queue}

(* no value is lost or delivered twice, and nobody waits for a channel     *)
(* that could serve him                                                    *)
ValuesDelivered ==
  /\ ch.got[NoValue] = 0
  /\ \A v \in Value :
       LET rings == UNION {{<<c, i>> : i \in {j \in DOMAIN ch.buf[c] :
                                              ch.buf[c][j] = v}} : c \in Chan}
       IN  ch.got[v] + Cardinality(rings) = IF v \in ch.sent THEN 1 ELSE 0
  /\ \A a, b \in ch.queue : a.c = b.c => a.op = b.op
  /\ \A a \in ch.queue : ~altcanexec(ch, a)
=============================================================================
