----------------------- MODULE VideoSessionAggProofs -----------------------
(***************************************************************************)
(* The Flink job for any subtasks, events, window size, out-of-orderness,  *)
(* stream and number of restarts: only a failed put loses a video event,   *)
(* none is used twice in a run, the handler works on the minutes of a      *)
(* session in order, what is late is overdue, a session holds what its     *)
(* events say, and its minute counts one play at most.                     *)
(*                                                                         *)
(* LostOnlyByPut needs of a checkpoint what it says of the job itself,     *)
(* with the outputs that were flushed before it or whose put failed        *)
(* (Sound, of both): no restart changes those (Settled).  UsedOnce         *)
(* needs that a record is only in the window of its key and time, and not  *)
(* past the position of its subtask.  The order of the minutes needs that  *)
(* the clock has reached the end of every window emitted (Emitted).  What  *)
(* ProcessWindow makes of a window does not matter to any of these.        *)
(*                                                                         *)
(* The last two theorems are about ProcessWindow.  The sort permutes a     *)
(* window (TimeOrderSorts), the loop is defined after any number of turns  *)
(* (UpdatedTurns), and a turn takes a session that fits the events used so *)
(* far to one that fits one event more (FirstEventFits, NextEventFits), so *)
(* that no turn is the first to break it (WindowFits).  The invariant says *)
(* it of the job's state and of the checkpoint's (Contents).               *)
(***************************************************************************)
EXTENDS VideoSessionAgg, FiniteSetTheorems, SequenceTheorems, WellFoundedInduction, TLAPS

-----------------------------------------------------------------------------
(* Windows and logs.                                                       *)

\* The window of a time stamp ends at the time stamp or later.
LEMMA WindowOfTs ==
    ASSUME NEW ts \in Nat
    PROVE  /\ WindowStart(ts) \in Int /\ WindowMaxTs(WindowStart(ts)) \in Int
           /\ ts <= WindowMaxTs(WindowStart(ts))
<1>1. ts % WindowSize \in 0..(WindowSize - 1)
  BY AggAssumption
<1>2. QED
  BY <1>1, AggAssumption DEF WindowStart, WindowMaxTs

LEMMA WindowsAreInt ==
    ASSUME NEW w \in Window
    PROVE  w \in Int /\ WindowMaxTs(w) \in Int
BY WindowOfTs, AggAssumption DEF Window

\* An event has a key and a window.
LEMMA EventFacts ==
    ASSUME NEW e \in Event
    PROVE  e.recvAt \in Nat /\ VideoSessionId(e) \in Key /\ WindowStart(e.recvAt) \in Window
BY AggAssumption DEF Key, Window

\* g is f, or f with more at the end of its shards.
Grows(f, g) ==
    \A s \in Subtask : /\ Len(f[s]) <= Len(g[s])
                       /\ \A i \in 1..Len(f[s]) : g[s][i] = f[s][i]

LEMMA EventAtFacts ==
    ASSUME log \in [Subtask -> Seq(Event)], NEW s \in Subtask, NEW i \in 1..Len(log[s])
    PROVE  log[s][i] \in Event /\ EventAt(<<s, i>>) = log[s][i]
BY DEF EventAt

\* Appending to a sequence keeps what is in it.
LEMMA RangeAppended ==
    ASSUME NEW S, NEW q \in Seq(S), NEW x \in S
    PROVE  /\ Append(q, x) \in Seq(S) /\ Append(q, x) # <<>>
           /\ Range(Append(q, x)) = Range(q) \cup {x}
<1>1. /\ DOMAIN q = 1..Len(q) /\ Len(q) \in Nat /\ Append(q, x) \in Seq(S)
      /\ DOMAIN Append(q, x) = 1..(Len(q) + 1)
      /\ Append(q, x)[Len(q) + 1] = x
      /\ \A i \in 1..Len(q) : Append(q, x)[i] = q[i]
  OBVIOUS
<1>2. Append(q, x) # <<>>
  BY <1>1
<1>3. Range(Append(q, x)) \subseteq Range(q) \cup {x}
  <2>1. \A i \in 1..(Len(q) + 1) : i \in 1..Len(q) \/ i = Len(q) + 1
    BY <1>1
  <2>2. QED
    BY <1>1, <2>1 DEF Range
<1>4. Range(q) \cup {x} \subseteq Range(Append(q, x))
  <2>1. \A i \in 1..Len(q) : i \in 1..(Len(q) + 1)
    BY <1>1
  <2>2. Len(q) + 1 \in 1..(Len(q) + 1)
    BY <1>1
  <2>3. QED
    BY <1>1, <2>1, <2>2 DEF Range
<1>5. QED
  BY <1>1, <1>2, <1>3, <1>4

LEMMA RangeWithin ==
    ASSUME NEW S, NEW q \in Seq(S)
    PROVE  Range(q) \subseteq S
<1>1. /\ DOMAIN q = 1..Len(q) /\ Len(q) \in Nat
      /\ \A i \in 1..Len(q) : q[i] \in S
  OBVIOUS
<1>2. QED
  BY <1>1 DEF Range

LEMMA RangeNone == Range(<<>>) = {}
<1>1. {} = DOMAIN <<>>
  OBVIOUS
<1>2. QED
  BY <1>1 DEF Range

-----------------------------------------------------------------------------
(* What the job has read.                                                  *)

\* A record of a window was read, and belongs to the key and the window.
Located(lg, p, r, k, w) ==
    /\ r[2] <= p[r[1]]
    /\ VideoSessionId(lg[r[1]][r[2]]) = k /\ WindowStart(lg[r[1]][r[2]].recvAt) = w

\* A record is in a window or went out.
Placed(r, ws, outs) ==
    \/ \E k \in Key, w \in Window : r \in Range(ws[k][w])
    \/ \E o \in outs : r \in Range(o.recs)

\* A video event that was read is in a window or went out.
Kept(lg, bs, p, ws, outs) ==
    \A s \in Subtask, i \in Nat \ {0} :
        i <= p[s] /\ i > bs[s] /\ IsVideoQos(lg[s][i]) => Placed(<<s, i>>, ws, outs)

Sound(lg, bs, p, ws, st, sn, outs) ==
    /\ p \in [Subtask -> Nat] /\ \A s \in Subtask : bs[s] <= p[s] /\ p[s] <= Len(lg[s])
    /\ ws \in [Key -> [Window -> Seq(Record)]] /\ DOMAIN st = Key /\ DOMAIN sn = Key
    /\ \A k \in Key, w \in Window : \A r \in Range(ws[k][w]) : Located(lg, p, r, k, w)
    /\ Kept(lg, bs, p, ws, outs)

\* More in the log and more outputs do no harm.
LEMMA SoundStays ==
    ASSUME NEW f \in [Subtask -> Seq(Event)], NEW g \in [Subtask -> Seq(Event)], Grows(f, g),
           NEW A, NEW B, A \subseteq B, NEW bs, bs \in [Subtask -> Nat],
           NEW p, NEW ws, NEW st, NEW sn, Sound(f, bs, p, ws, st, sn, A)
    PROVE  Sound(g, bs, p, ws, st, sn, B)
<1>1. p \in [Subtask -> Nat] /\ ws \in [Key -> [Window -> Seq(Record)]]
      /\ DOMAIN st = Key /\ DOMAIN sn = Key
  BY DEF Sound
<1>2. \A s \in Subtask : /\ Len(f[s]) \in Nat /\ Len(g[s]) \in Nat /\ bs[s] <= p[s]
                         /\ p[s] <= Len(f[s]) /\ p[s] <= Len(g[s])
  BY <1>1 DEF Sound, Grows
<1>3. \A s \in Subtask, i \in Nat \ {0} : i <= p[s] => g[s][i] = f[s][i]
  <2> SUFFICES ASSUME NEW s \in Subtask, NEW i \in Nat \ {0}, i <= p[s] PROVE g[s][i] = f[s][i]
    OBVIOUS
  <2>1. i \in 1..Len(f[s])
    BY <1>1, <1>2
  <2>2. QED
    BY <2>1 DEF Grows
<1>4. ASSUME NEW k \in Key, NEW w \in Window, NEW r \in Range(ws[k][w])
      PROVE  Located(g, p, r, k, w)
  <2>1. r[1] \in Subtask /\ r[2] \in Nat \ {0} /\ Located(f, p, r, k, w)
    BY <1>1, RangeWithin DEF Record, Sound
  <2>2. QED
    BY <1>3, <2>1 DEF Located
<1>5. Kept(g, bs, p, ws, B)
  BY <1>3 DEF Sound, Kept, Placed
<1>6. QED
  BY <1>1, <1>2, <1>4, <1>5 DEF Sound

\* No record is in two windows.
LEMMA OneWindow ==
    ASSUME NEW lg, NEW bs, NEW p, NEW ws, NEW st, NEW sn, NEW outs,
           Sound(lg, bs, p, ws, st, sn, outs),
           NEW k \in Key, NEW w \in Window, NEW r \in Range(ws[k][w]),
           NEW k2 \in Key, NEW w2 \in Window, r \in Range(ws[k2][w2])
    PROVE  k = k2 /\ w = w2
<1>1. Located(lg, p, r, k, w) /\ Located(lg, p, r, k2, w2)
  BY DEF Sound
<1>2. QED
  BY <1>1 DEF Located

-----------------------------------------------------------------------------
(* The invariant.                                                          *)

TypesOK ==
    /\ log \in [Subtask -> Seq(Event)] /\ base \in [Subtask -> Nat]
    /\ maxTs \in [Subtask -> Int] /\ wmOut \in [Subtask -> Int]
    /\ epoch \in 0..MaxRestarts

\* A watermark is behind a record the subtask has read.
Clocks ==
    \A s \in Subtask :
        /\ wmOut[s] <= maxTs[s] - OutOfOrderness - 1
        /\ maxTs[s] # NoTs => \E j \in 1..pos[s] : log[s][j].recvAt = maxTs[s]

OutputOK(o, ep) ==
    /\ o.kind \in {"session", "late"}
    /\ o.key \in Key /\ o.win \in Window
    /\ o.recs \in Seq(Record)
    /\ o.epoch \in 0..ep

\* An output of this run was due, and its records are nowhere else.
Emitted(o) ==
    /\ Reached(WindowMaxTs(o.win))
    /\ \A r \in Range(o.recs) : r[2] <= pos[r[1]] /\ ~InWindow(r)
    /\ o.kind = "session" => \A w \in Window : Open(o.key, w) => o.win < w
    /\ \A q \in Outputs : q.epoch = epoch /\ q # o => Range(o.recs) \cap Range(q.recs) = {}

Overdue(lg, o) ==
    o.kind = "late" =>
        \E s \in Subtask, i \in Nat \ {0} :
            /\ o.recs[1] = <<s, i>> /\ i <= Len(lg[s])
            /\ \E j \in 1..(i - 1) :
                  lg[s][j].recvAt >= WindowMaxTs(o.win) + 1 + OutOfOrderness

LiveSound == Sound(log, base, pos, windows, state, seen, Outputs)

\* What no restart changes any more: outputs in the stream or gone for good.
Settled == delivered \cup dropped

\* A checkpoint is as sound as the job, with the outputs that were flushed.
CkptSound ==
    ckpt # NoCheckpoint =>
        Sound(log, base, ckpt.pos, ckpt.windows, ckpt.state, ckpt.seen, Settled)

OutputsOK ==
    \A o \in Outputs : /\ OutputOK(o, epoch) /\ Overdue(log, o)
                       /\ (o.epoch = epoch => Emitted(o))

IInv == TypesOK /\ LiveSound /\ CkptSound /\ Clocks /\ OutputsOK

LEMMA InvariantImplies ==
    ASSUME IInv
    PROVE  TypeOK /\ LostOnlyByPut /\ UsedOnce /\ MinutesInOrder /\ LateMeansOverdue
<1>1. TypeOK
  BY DEF IInv, TypesOK, LiveSound, Sound, OutputsOK, OutputOK, TypeOK
<1>2. LostOnlyByPut
  <2> SUFFICES ASSUME NEW r \in Consumed, r[2] > base[r[1]], IsVideoQos(EventAt(r))
               PROVE  InWindow(r) \/ IsOutput(r)
    BY DEF LostOnlyByPut
  <2>1. PICK s \in Subtask : r \in {<<s, i>> : i \in 1..pos[s]}
    BY DEF Consumed
  <2>2. PICK i \in 1..pos[s] : r = <<s, i>>
    BY <2>1
  <2>3. pos[s] \in Nat /\ i \in Nat \ {0} /\ i <= pos[s] /\ i > base[s] /\ IsVideoQos(log[s][i])
    BY <2>2 DEF IInv, LiveSound, Sound, EventAt
  <2>4. QED
    BY <2>2, <2>3 DEF IInv, LiveSound, Sound, Kept, Placed, InWindow, IsOutput
<1>3. UsedOnce
  BY DEF IInv, OutputsOK, Emitted, UsedOnce
<1>4. MinutesInOrder
  BY DEF IInv, OutputsOK, Emitted, MinutesInOrder
<1>5. LateMeansOverdue
  <2> SUFFICES ASSUME NEW o \in Outputs, o.kind = "late"
               PROVE  \E j \in 1..(o.recs[1][2] - 1) :
                         log[o.recs[1][1]][j].recvAt >= WindowMaxTs(o.win) + 1 + OutOfOrderness
    BY DEF LateMeansOverdue
  <2>1. PICK s \in Subtask, i \in Nat \ {0} :
            /\ o.recs[1] = <<s, i>>
            /\ \E j \in 1..(i - 1) :
                  log[s][j].recvAt >= WindowMaxTs(o.win) + 1 + OutOfOrderness
    BY DEF IInv, OutputsOK, Overdue
  <2>2. QED
    BY <2>1
<1>6. QED
  BY <1>1, <1>2, <1>3, <1>4, <1>5

-----------------------------------------------------------------------------
(* What several steps keep.                                                *)

LEMMA GrowsSelf ==
    ASSUME NEW f
    PROVE  Grows(f, f)
<1>1. \A s \in Subtask : Len(f[s]) <= Len(f[s])
  OBVIOUS
<1>2. QED
  BY <1>1 DEF Grows

LEMMA OverdueStays ==
    ASSUME NEW f \in [Subtask -> Seq(Event)], NEW g \in [Subtask -> Seq(Event)], Grows(f, g),
           NEW o, Overdue(f, o)
    PROVE  Overdue(g, o)
<1> SUFFICES ASSUME o.kind = "late" PROVE Overdue(g, o)
  BY DEF Overdue
<1>1. PICK s \in Subtask, i \in Nat \ {0} :
          /\ o.recs[1] = <<s, i>> /\ i <= Len(f[s])
          /\ \E j \in 1..(i - 1) : f[s][j].recvAt >= WindowMaxTs(o.win) + 1 + OutOfOrderness
  BY DEF Overdue
<1>2. PICK j \in 1..(i - 1) : f[s][j].recvAt >= WindowMaxTs(o.win) + 1 + OutOfOrderness
  BY <1>1
<1>3. /\ Len(f[s]) \in Nat /\ Len(g[s]) \in Nat /\ Len(f[s]) <= Len(g[s])
      /\ \A n \in 1..Len(f[s]) : g[s][n] = f[s][n]
  BY DEF Grows
<1>4. i <= Len(g[s]) /\ j \in 1..Len(f[s])
  BY <1>1, <1>3
<1>5. g[s][j].recvAt >= WindowMaxTs(o.win) + 1 + OutOfOrderness
  BY <1>2, <1>3, <1>4
<1>6. QED
  BY <1>1, <1>4, <1>5 DEF Overdue

LEMMA CkptStays ==
    ASSUME IInv, TypesOK', Grows(log, log'), base' = base, ckpt' = ckpt,
           Settled \subseteq Settled'
    PROVE  CkptSound'
<1>1. /\ log \in [Subtask -> Seq(Event)] /\ log' \in [Subtask -> Seq(Event)]
      /\ base \in [Subtask -> Nat]
  BY DEF IInv, TypesOK
<1>2. SUFFICES ASSUME ckpt # NoCheckpoint
               PROVE  Sound(log', base, ckpt.pos, ckpt.windows, ckpt.state, ckpt.seen, Settled')
  BY DEF CkptSound
<1>3. Sound(log, base, ckpt.pos, ckpt.windows, ckpt.state, ckpt.seen, Settled)
  BY <1>2 DEF IInv, CkptSound
<1>4. QED
  BY <1>1, <1>3, SoundStays

\* What was emitted stays so when the job only reads, or its clocks advance.
LEMMA OutputsStay ==
    ASSUME IInv, TypesOK', Grows(log, log'), epoch' = epoch, Outputs' = Outputs,
           windows' = windows, pos' \in [Subtask -> Nat],
           \A s \in Subtask : pos[s] <= pos'[s] /\ wmOut[s] <= wmOut'[s]
    PROVE  OutputsOK'
<1>1. /\ log \in [Subtask -> Seq(Event)] /\ log' \in [Subtask -> Seq(Event)]
      /\ wmOut \in [Subtask -> Int] /\ wmOut' \in [Subtask -> Int]
      /\ pos \in [Subtask -> Nat]
  BY DEF IInv, TypesOK, LiveSound, Sound
<1>2. SUFFICES ASSUME NEW o \in Outputs
               PROVE  /\ OutputOK(o, epoch) /\ Overdue(log', o)
                      /\ (o.epoch = epoch => Emitted(o)')
  BY DEF OutputsOK
<1>3. OutputOK(o, epoch) /\ Overdue(log, o) /\ (o.epoch = epoch => Emitted(o))
  BY DEF IInv, OutputsOK
<1>4. Overdue(log', o)
  BY <1>1, <1>3, OverdueStays
<1>5. ASSUME o.epoch = epoch PROVE Emitted(o)'
  <2>1. Emitted(o)
    BY <1>3, <1>5
  <2>2. o.win \in Window /\ o.recs \in Seq(Record)
    BY <1>3 DEF OutputOK
  <2>3. Reached(WindowMaxTs(o.win))'
    BY <1>1, <2>1, <2>2, WindowsAreInt DEF Emitted, Reached
  <2>4. \A r \in Range(o.recs) : r[2] <= pos'[r[1]] /\ ~InWindow(r)'
    <3> SUFFICES ASSUME NEW r \in Range(o.recs)
                 PROVE  r[2] <= pos'[r[1]] /\ ~InWindow(r)'
      OBVIOUS
    <3>1. r[1] \in Subtask /\ r[2] \in Nat
      BY <2>2, RangeWithin DEF Record
    <3>2. r[2] <= pos[r[1]] /\ ~InWindow(r)
      BY <2>1 DEF Emitted
    <3>3. r[2] <= pos'[r[1]]
      BY <1>1, <3>1, <3>2
    <3>4. QED
      BY <3>2, <3>3 DEF InWindow
  <2>5. o.kind = "session" => \A w \in Window : Open(o.key, w)' => o.win < w
    BY <2>1 DEF Emitted, Open
  <2>6. QED
    BY <2>1, <2>3, <2>4, <2>5 DEF Emitted
<1>6. QED
  BY <1>3, <1>4, <1>5

\* The windows have at most the i-th record of s more than before, if it is theirs.
AtMostAdded(lg, s, i, ws, ws2) ==
    \A k \in Key, w \in Window :
        /\ Range(ws[k][w]) \subseteq Range(ws2[k][w])
        /\ \A r \in Range(ws2[k][w]) :
              \/ r \in Range(ws[k][w])
              \/ /\ r = <<s, i>> /\ VideoSessionId(lg[s][i]) = k
                 /\ WindowStart(lg[s][i].recvAt) = w

LEMMA NothingAdded ==
    ASSUME NEW lg, NEW s, NEW i, NEW ws
    PROVE  AtMostAdded(lg, s, i, ws, ws)
BY DEF AtMostAdded

\* Reading one more record, and putting it somewhere if it is a video event.
LEMMA SoundAfterRead ==
    ASSUME NEW lg \in [Subtask -> Seq(Event)], NEW bs \in [Subtask -> Nat], NEW p, NEW p2,
           NEW ws, NEW ws2, NEW st, NEW sn, NEW A, NEW B, A \subseteq B,
           Sound(lg, bs, p, ws, st, sn, A),
           NEW s \in Subtask, p[s] < Len(lg[s]), p2 = [p EXCEPT ![s] = p[s] + 1],
           ws2 \in [Key -> [Window -> Seq(Record)]],
           AtMostAdded(lg, s, p[s] + 1, ws, ws2),
           IsVideoQos(lg[s][p[s] + 1]) => Placed(<<s, p[s] + 1>>, ws2, B)
    PROVE  Sound(lg, bs, p2, ws2, st, sn, B)
<1>1. /\ p \in [Subtask -> Nat] /\ ws \in [Key -> [Window -> Seq(Record)]]
      /\ DOMAIN st = Key /\ DOMAIN sn = Key
      /\ \A t \in Subtask : bs[t] <= p[t] /\ p[t] <= Len(lg[t])
  BY DEF Sound
<1>2. /\ p2 \in [Subtask -> Nat] /\ p2[s] = p[s] + 1
      /\ \A t \in Subtask : t # s => p2[t] = p[t]
  BY <1>1
<1>3. \A t \in Subtask : bs[t] <= p2[t] /\ p2[t] <= Len(lg[t]) /\ p[t] <= p2[t]
  <2> TAKE t \in Subtask
  <2>1. Len(lg[t]) \in Nat /\ bs[t] \in Nat /\ p[t] \in Nat
    BY <1>1
  <2>2. QED
    BY <1>1, <1>2, <2>1
<1>4. ASSUME NEW k \in Key, NEW w \in Window, NEW r \in Range(ws2[k][w])
      PROVE  Located(lg, p2, r, k, w)
  <2> USE DEF AtMostAdded
  <2>1. CASE r \in Range(ws[k][w])
    <3>1. r[1] \in Subtask /\ r[2] \in Nat
      BY <1>1, <2>1, RangeWithin DEF Record
    <3>2. Located(lg, p, r, k, w)
      BY <2>1 DEF Sound
    <3>3. QED
      BY <1>1, <1>2, <1>3, <3>1, <3>2 DEF Located
  <2>2. CASE /\ r = <<s, p[s] + 1>> /\ VideoSessionId(lg[s][p[s] + 1]) = k
             /\ WindowStart(lg[s][p[s] + 1].recvAt) = w
    BY <1>1, <1>2, <2>2 DEF Located
  <2>3. QED
    BY <2>1, <2>2
<1>5. Kept(lg, bs, p2, ws2, B)
  <2> SUFFICES ASSUME NEW t \in Subtask, NEW i \in Nat \ {0}, i <= p2[t], i > bs[t],
                      IsVideoQos(lg[t][i])
               PROVE  Placed(<<t, i>>, ws2, B)
    BY DEF Kept
  <2>1. CASE i <= p[t]
    <3>1. Placed(<<t, i>>, ws, A)
      BY <2>1 DEF Sound, Kept
    <3>2. QED
      BY <3>1 DEF Placed, AtMostAdded
  <2>2. CASE t = s /\ i = p[s] + 1
    BY <2>2
  <2>3. i <= p[t] \/ (t = s /\ i = p[s] + 1)
    <3>1. p[t] \in Nat /\ p[s] \in Nat
      BY <1>1
    <3>2. CASE t # s
      BY <1>2, <3>2
    <3>3. CASE t = s
      BY <1>2, <3>1, <3>3
    <3>4. QED
      BY <3>2, <3>3
  <2>4. QED
    BY <2>1, <2>2, <2>3
<1>6. QED
  BY <1>1, <1>2, <1>3, <1>4, <1>5 DEF Sound

-----------------------------------------------------------------------------
(* Every step keeps the invariant.                                         *)

LEMMA ArriveGrows ==
    ASSUME IInv, NEW s \in Subtask, NEW e \in Event, Arrive(s, e)
    PROVE  log' \in [Subtask -> Seq(Event)] /\ Grows(log, log')
<1>1. log \in [Subtask -> Seq(Event)]
  BY DEF IInv, TypesOK
<1>2. /\ log' \in [Subtask -> Seq(Event)]
      /\ log'[s] = Append(log[s], e) /\ \A t \in Subtask \ {s} : log'[t] = log[t]
  BY <1>1 DEF Arrive
<1>3. Grows(log, log')
  <2> SUFFICES ASSUME NEW t \in Subtask
               PROVE  /\ Len(log[t]) <= Len(log'[t])
                      /\ \A i \in 1..Len(log[t]) : log'[t][i] = log[t][i]
    BY DEF Grows
  <2>1. CASE t = s
    <3>1. log[s] \in Seq(Event)
      BY <1>1
    <3>2. Len(Append(log[s], e)) = Len(log[s]) + 1 /\ Len(log[s]) \in Nat
      BY <3>1
    <3>3. \A i \in 1..Len(log[s]) : Append(log[s], e)[i] = log[s][i]
      BY <3>1
    <3>4. QED
      BY <1>2, <2>1, <3>2, <3>3
  <2>2. CASE t # s
    <3>1. Len(log[t]) \in Nat /\ log'[t] = log[t]
      BY <1>1, <1>2, <2>2
    <3>2. QED
      BY <3>1
  <2>3. QED
    BY <2>1, <2>2
<1>4. QED
  BY <1>2, <1>3

LEMMA ArriveKeepsInv ==
    ASSUME IInv, NEW s \in Subtask, NEW e \in Event, Arrive(s, e)
    PROVE  IInv'
<1>1. /\ log \in [Subtask -> Seq(Event)] /\ base \in [Subtask -> Nat]
      /\ pos \in [Subtask -> Nat]
      /\ \A t \in Subtask : base[t] <= pos[t] /\ pos[t] <= Len(log[t])
  BY DEF IInv, TypesOK, LiveSound, Sound
<1>2. log' \in [Subtask -> Seq(Event)] /\ Grows(log, log')
  BY ArriveGrows
<1>3. Grows(log, log')
  BY <1>2
<1>4. /\ UNCHANGED <<pos, maxTs, wmOut, windows, state, seen, sinkBuf, delivered, dropped>>
      /\ UNCHANGED <<ckpt, base, epoch>> /\ Outputs' = Outputs
  BY DEF Arrive, source, handler, sinks, Outputs
<1>5. TypesOK'
  BY <1>2, <1>4 DEF IInv, TypesOK
<1>6. LiveSound'
  <2>1. Sound(log', base, pos, windows, state, seen, Outputs)
    BY <1>1, <1>2, <1>3, SoundStays DEF IInv, LiveSound
  <2>2. QED
    BY <1>4, <2>1 DEF LiveSound
<1>7. CkptSound'
  BY <1>3, <1>4, <1>5, CkptStays DEF Settled
<1>8. Clocks'
  <2> SUFFICES ASSUME NEW t \in Subtask
               PROVE  /\ wmOut[t] <= maxTs[t] - OutOfOrderness - 1
                      /\ maxTs[t] # NoTs => \E j \in 1..pos[t] : log'[t][j].recvAt = maxTs[t]
    BY <1>4 DEF Clocks
  <2>1. /\ wmOut[t] <= maxTs[t] - OutOfOrderness - 1
        /\ maxTs[t] # NoTs => \E j \in 1..pos[t] : log[t][j].recvAt = maxTs[t]
    BY DEF IInv, Clocks
  <2>2. \A j \in 1..pos[t] : j \in 1..Len(log[t])
    BY <1>1
  <2>3. \A j \in 1..pos[t] : log'[t][j] = log[t][j]
    BY <1>3, <2>2 DEF Grows
  <2>4. QED
    BY <2>1, <2>3
<1>9. OutputsOK'
  <2>1. \A t \in Subtask : pos[t] <= pos'[t] /\ wmOut[t] <= wmOut'[t]
    BY <1>1, <1>4 DEF IInv, TypesOK
  <2>2. QED
    BY <1>1, <1>3, <1>4, <1>5, <2>1, OutputsStay
<1>10. QED
  BY <1>5, <1>6, <1>7, <1>8, <1>9 DEF IInv

\* The record a subtask reads next.
LEMMA NextFacts ==
    ASSUME IInv, NEW s \in Subtask, CanRead(s)
    PROVE  /\ log \in [Subtask -> Seq(Event)] /\ base \in [Subtask -> Nat]
           /\ pos \in [Subtask -> Nat] /\ maxTs \in [Subtask -> Int]
           /\ wmOut \in [Subtask -> Int]
           /\ windows \in [Key -> [Window -> Seq(Record)]]
           /\ pos[s] < Len(log[s]) /\ NextEvent(s) = log[s][pos[s] + 1]
           /\ NextEvent(s) \in Event /\ NextRecord(s) \in Record
           /\ NextRecord(s) = <<s, pos[s] + 1>> /\ EventAt(NextRecord(s)) = NextEvent(s)
<1>1. /\ log \in [Subtask -> Seq(Event)] /\ base \in [Subtask -> Nat]
      /\ pos \in [Subtask -> Nat] /\ maxTs \in [Subtask -> Int]
      /\ wmOut \in [Subtask -> Int]
      /\ windows \in [Key -> [Window -> Seq(Record)]]
  BY DEF IInv, TypesOK, LiveSound, Sound
<1>2. pos[s] < Len(log[s]) /\ NextEvent(s) = log[s][pos[s] + 1]
  BY DEF CanRead, NextEvent
<1>3. log[s] \in Seq(Event) /\ pos[s] \in Nat /\ Len(log[s]) \in Nat
  BY <1>1
<1>4. pos[s] + 1 \in 1..Len(log[s])
  BY <1>2, <1>3
<1>5. NextEvent(s) \in Event
  BY <1>2, <1>3, <1>4
<1>6. NextRecord(s) = <<s, pos[s] + 1>> /\ NextRecord(s) \in Record
  BY <1>3 DEF NextRecord, Record
<1>7. EventAt(NextRecord(s)) = NextEvent(s)
  BY <1>2, <1>6 DEF EventAt
<1>8. QED
  BY <1>1, <1>2, <1>5, <1>6, <1>7

LEMMA AdvanceFacts ==
    ASSUME IInv, NEW s \in Subtask, CanRead(s), Advance(s)
    PROVE  /\ pos' \in [Subtask -> Nat] /\ pos' = [pos EXCEPT ![s] = pos[s] + 1]
           /\ pos'[s] = pos[s] + 1 /\ \A t \in Subtask : pos[t] <= pos'[t]
<1>1. pos \in [Subtask -> Nat] /\ pos' = [pos EXCEPT ![s] = pos[s] + 1]
  BY NextFacts DEF Advance
<1>2. pos' \in [Subtask -> Nat] /\ pos'[s] = pos[s] + 1
      /\ \A t \in Subtask \ {s} : pos'[t] = pos[t]
  BY <1>1
<1>3. \A t \in Subtask : pos[t] \in Nat
  BY <1>1
<1>4. \A t \in Subtask : pos[t] <= pos'[t]
  BY <1>2, <1>3
<1>5. QED
  BY <1>1, <1>2, <1>4

\* A new largest time stamp is that of the record just read.
LEMMA ReadKeepsClocks ==
    ASSUME IInv, NEW s \in Subtask, CanRead(s), Advance(s),
           maxTs' = maxTs \/ AssignTimestamp(s, NextEvent(s)),
           log' = log, wmOut' = wmOut
    PROVE  maxTs' \in [Subtask -> Int] /\ Clocks'
<1>1. NextEvent(s).recvAt \in Nat
  BY NextFacts, EventFacts
<1>2. /\ maxTs' \in [Subtask -> Int]
      /\ \A t \in Subtask : maxTs'[t] = maxTs[t]
                            \/ /\ t = s /\ maxTs[s] < NextEvent(s).recvAt
                               /\ maxTs'[s] = NextEvent(s).recvAt
  <2>1. maxTs \in [Subtask -> Int]
    BY NextFacts
  <2>2. CASE AssignTimestamp(s, NextEvent(s))
    <3>1. maxTs' = [maxTs EXCEPT ![s] = IF NextEvent(s).recvAt > maxTs[s]
                                        THEN NextEvent(s).recvAt ELSE maxTs[s]]
      BY <2>2 DEF AssignTimestamp
    <3>2. QED
      BY <1>1, <2>1, <3>1
  <2>3. QED
    BY <2>1, <2>2
<1>3. SUFFICES ASSUME NEW t \in Subtask
               PROVE  /\ wmOut[t] <= maxTs'[t] - OutOfOrderness - 1
                      /\ maxTs'[t] # NoTs =>
                            \E j \in 1..pos'[t] : log[t][j].recvAt = maxTs'[t]
  BY <1>2 DEF Clocks
<1>4. /\ wmOut[t] <= maxTs[t] - OutOfOrderness - 1
      /\ maxTs[t] # NoTs => \E j \in 1..pos[t] : log[t][j].recvAt = maxTs[t]
  BY DEF IInv, Clocks
<1>5. wmOut[t] \in Int /\ maxTs[t] \in Int /\ pos[t] \in Nat /\ pos'[t] \in Nat
      /\ pos[t] <= pos'[t]
  BY NextFacts, AdvanceFacts
<1>6. CASE maxTs'[t] = maxTs[t]
  <2>1. \A j \in 1..pos[t] : j \in 1..pos'[t]
    BY <1>5
  <2>2. QED
    BY <1>4, <1>6, <2>1
<1>7. CASE /\ t = s /\ maxTs[s] < NextEvent(s).recvAt
           /\ maxTs'[s] = NextEvent(s).recvAt
  <2>1. wmOut[t] <= maxTs'[t] - OutOfOrderness - 1
    BY <1>1, <1>4, <1>5, <1>7, AggAssumption
  <2>2. log[s][pos'[s]].recvAt = maxTs'[s]
    BY <1>7, NextFacts, AdvanceFacts
  <2>3. pos'[s] \in 1..pos'[s]
    BY <1>5, <1>7, NextFacts, AdvanceFacts
  <2>4. QED
    BY <1>7, <2>1, <2>2, <2>3
<1>8. QED
  BY <1>2, <1>6, <1>7

LEMMA ReadOtherKeepsInv ==
    ASSUME IInv, NEW s \in Subtask, ReadOther(s)
    PROVE  IInv'
<1>1. /\ CanRead(s) /\ Advance(s) /\ ~IsVideoQos(NextEvent(s))
      /\ UNCHANGED <<log, maxTs, wmOut, windows, state, seen, sinkBuf, delivered, dropped>>
      /\ UNCHANGED <<ckpt, base, epoch>> /\ Outputs' = Outputs
  BY DEF ReadOther, handler, sinks, Outputs
<1>2. TypesOK'
  BY <1>1 DEF IInv, TypesOK
<1>3. LiveSound'
  <2>1. /\ log \in [Subtask -> Seq(Event)] /\ base \in [Subtask -> Nat]
        /\ windows \in [Key -> [Window -> Seq(Record)]]
        /\ pos[s] < Len(log[s]) /\ ~IsVideoQos(log[s][pos[s] + 1])
    BY <1>1, NextFacts
  <2>2. pos' = [pos EXCEPT ![s] = pos[s] + 1]
    BY <1>1, AdvanceFacts
  <2>3. Sound(log, base, pos, windows, state, seen, Outputs)
    BY DEF IInv, LiveSound
  <2>4. Sound(log, base, pos', windows, state, seen, Outputs)
    BY <2>1, <2>2, <2>3, NothingAdded, SoundAfterRead
  <2>5. QED
    BY <1>1, <2>4 DEF LiveSound
<1>4. Grows(log, log')
  BY <1>1, GrowsSelf
<1>5. CkptSound'
  BY <1>1, <1>2, <1>4, CkptStays DEF Settled
<1>6. Clocks'
  BY <1>1, ReadKeepsClocks
<1>7. OutputsOK'
  <2>1. \A t \in Subtask : pos[t] <= pos'[t] /\ wmOut[t] <= wmOut'[t]
    BY <1>1, AdvanceFacts, NextFacts
  <2>2. QED
    BY <1>1, <1>2, <1>4, <2>1, AdvanceFacts, OutputsStay
<1>8. QED
  BY <1>2, <1>3, <1>5, <1>6, <1>7 DEF IInv

\* A record the subtask has not read yet is nowhere.
LEMMA NextIsNew ==
    ASSUME IInv, NEW s \in Subtask, CanRead(s)
    PROVE  /\ ~InWindow(NextRecord(s))
           /\ \A o \in Outputs : o.epoch = epoch => NextRecord(s) \notin Range(o.recs)
<1>1. NextRecord(s)[1] = s /\ NextRecord(s)[2] = pos[s] + 1 /\ pos[s] \in Nat
  BY NextFacts
<1>2. ~(NextRecord(s)[2] <= pos[NextRecord(s)[1]])
  BY <1>1
<1>3. ~InWindow(NextRecord(s))
  BY <1>2 DEF IInv, LiveSound, Sound, Located, InWindow
<1>4. QED
  BY <1>2, <1>3 DEF IInv, OutputsOK, Emitted

LEMMA ReadLateKeepsInv ==
    ASSUME IInv, NEW s \in Subtask, ReadLate(s)
    PROVE  IInv'
<1>a. PICK r : r = NextRecord(s)
  OBVIOUS
<1>b. PICK new : new = LateOutput(NextRecord(s))
  OBVIOUS
<1>1. /\ CanRead(s) /\ Advance(s) /\ IsVideoQos(NextEvent(s)) /\ IsLate(NextEvent(s))
      /\ AssignTimestamp(s, NextEvent(s))
      /\ UNCHANGED <<log, wmOut, windows, state, seen, delivered, dropped, ckpt, base, epoch>>
      /\ Outputs' = Outputs \cup {new}
  BY <1>b DEF ReadLate, handler, Outputs
<1>2. /\ NextEvent(s).recvAt \in Nat /\ VideoSessionId(NextEvent(s)) \in Key
      /\ WindowStart(NextEvent(s).recvAt) \in Window
      /\ WindowMaxTs(WindowStart(NextEvent(s).recvAt)) \in Int
      /\ NextEvent(s).recvAt <= WindowMaxTs(WindowStart(NextEvent(s).recvAt))
  BY <1>1, NextFacts, EventFacts, WindowOfTs
<1>3. /\ new.kind = "late" /\ new.key = VideoSessionId(NextEvent(s))
      /\ new.win = WindowStart(NextEvent(s).recvAt) /\ new.recs = <<r>>
      /\ new.epoch = epoch
  BY <1>1, <1>a, <1>b, NextFacts DEF LateOutput
<1>4. r \in Record /\ r = <<s, pos[s] + 1>> /\ Range(<<r>>) = {r}
  <2>1. r \in Record /\ r = <<s, pos[s] + 1>>
    BY <1>1, <1>a, NextFacts
  <2>2. DOMAIN <<r>> = {1} /\ <<r>>[1] = r
    OBVIOUS
  <2>3. QED
    BY <2>1, <2>2 DEF Range
<1>5. TypesOK' /\ Clocks'
  BY <1>1, ReadKeepsClocks DEF IInv, TypesOK
<1>6. LiveSound'
  <2>1. /\ log \in [Subtask -> Seq(Event)] /\ base \in [Subtask -> Nat]
        /\ windows \in [Key -> [Window -> Seq(Record)]] /\ pos[s] < Len(log[s])
    BY <1>1, NextFacts
  <2>2. pos' = [pos EXCEPT ![s] = pos[s] + 1]
    BY <1>1, AdvanceFacts
  <2>3. Sound(log, base, pos, windows, state, seen, Outputs)
    BY DEF IInv, LiveSound
  <2>4. Placed(<<s, pos[s] + 1>>, windows, Outputs')
    BY <1>1, <1>3, <1>4 DEF Placed
  <2>5. Outputs \subseteq Outputs'
    BY <1>1
  <2>6. Sound(log, base, pos', windows, state, seen, Outputs')
    BY <2>1, <2>2, <2>3, <2>4, <2>5, NothingAdded, SoundAfterRead
  <2>7. QED
    BY <1>1, <2>6 DEF LiveSound
<1>7. CkptSound'
  BY <1>1, <1>5, GrowsSelf, CkptStays DEF Settled
<1>8. Overdue(log, new)
  <2>1. \A t \in Subtask : wmOut[t] >= WindowMaxTs(new.win)
    BY <1>1, <1>3 DEF IsLate, Reached
  <2>2. wmOut[s] \in Int /\ maxTs[s] \in Int /\ pos[s] \in Nat /\ Len(log[s]) \in Nat
        /\ pos[s] < Len(log[s])
    BY <1>1, NextFacts
  <2>3. maxTs[s] >= WindowMaxTs(new.win) + 1 + OutOfOrderness /\ maxTs[s] # NoTs
    <3>1. wmOut[s] <= maxTs[s] - OutOfOrderness - 1
      BY DEF IInv, Clocks
    <3>2. /\ wmOut[s] >= WindowMaxTs(new.win) /\ WindowMaxTs(new.win) \in Int
          /\ WindowMaxTs(new.win) >= 0
      BY <1>2, <1>3, <2>1
    <3>3. QED
      BY <2>2, <3>1, <3>2, AggAssumption DEF NoTs
  <2>4. PICK j \in 1..pos[s] : log[s][j].recvAt = maxTs[s]
    BY <2>3 DEF IInv, Clocks
  <2>5. pos[s] + 1 \in Nat \ {0} /\ pos[s] + 1 <= Len(log[s]) /\ j \in 1..((pos[s] + 1) - 1)
    BY <2>2
  <2>6. new.recs[1] = <<s, pos[s] + 1>>
    BY <1>3, <1>4
  <2>7. QED
    BY <2>3, <2>4, <2>5, <2>6 DEF Overdue
<1>9. \A q \in Outputs : q.epoch = epoch => Range(new.recs) \cap Range(q.recs) = {}
  BY <1>1, <1>3, <1>4, <1>a, NextIsNew
<1>10. ~InWindow(r)
  BY <1>1, <1>a, NextIsNew
<1>11. Emitted(new)'
  <2>1. Reached(WindowMaxTs(new.win))'
    BY <1>1, <1>3 DEF IsLate, Reached
  <2>2. \A x \in Range(new.recs) : x[2] <= pos'[x[1]] /\ ~InWindow(x)'
    <3>1. pos'[s] = pos[s] + 1 /\ pos'[s] \in Nat
      BY <1>1, AdvanceFacts
    <3>2. r[2] <= pos'[r[1]]
      BY <1>4, <3>1
    <3>3. ~InWindow(r)'
      BY <1>1, <1>10 DEF InWindow
    <3>4. QED
      BY <1>3, <1>4, <3>2, <3>3
  <2>3. QED
    BY <1>1, <1>3, <1>9, <2>1, <2>2 DEF Emitted
<1>12. OutputOK(new, epoch)
  BY <1>2, <1>3, <1>4 DEF OutputOK, IInv, TypesOK
<1>13. ASSUME NEW o \in Outputs, o.epoch = epoch PROVE Emitted(o)'
  <2>1. Emitted(o) /\ o.recs \in Seq(Record)
    BY <1>13 DEF IInv, OutputsOK, OutputOK
  <2>2. \A x \in Range(o.recs) : x[2] <= pos'[x[1]] /\ ~InWindow(x)'
    <3> SUFFICES ASSUME NEW x \in Range(o.recs)
                 PROVE  x[2] <= pos'[x[1]] /\ ~InWindow(x)'
      OBVIOUS
    <3>1. x[1] \in Subtask /\ x[2] \in Nat
      BY <2>1, RangeWithin DEF Record
    <3>2. x[2] <= pos[x[1]] /\ ~InWindow(x)
      BY <2>1 DEF Emitted
    <3>3. pos[x[1]] <= pos'[x[1]] /\ pos[x[1]] \in Nat /\ pos'[x[1]] \in Nat
      BY <1>1, <3>1, NextFacts, AdvanceFacts
    <3>4. QED
      BY <1>1, <3>1, <3>2, <3>3 DEF InWindow
  <2>3. \A q \in Outputs' : q.epoch = epoch /\ q # o => Range(o.recs) \cap Range(q.recs) = {}
    BY <1>1, <1>9, <1>13, <2>1 DEF Emitted
  <2>4. QED
    BY <1>1, <2>1, <2>2, <2>3 DEF Emitted, Reached, Open
<1>14. OutputsOK'
  <2>1. \A o \in Outputs : OutputOK(o, epoch) /\ Overdue(log, o)
    BY DEF IInv, OutputsOK
  <2>2. QED
    BY <1>1, <1>8, <1>11, <1>12, <1>13, <2>1 DEF OutputsOK
<1>15. QED
  BY <1>5, <1>6, <1>7, <1>14 DEF IInv

LEMMA ReadOnTimeKeepsInv ==
    ASSUME IInv, NEW s \in Subtask, ReadOnTime(s)
    PROVE  IInv'
<1>a. PICK r : r = NextRecord(s)
  OBVIOUS
<1>b. PICK k \in Key : k = VideoSessionId(NextEvent(s))
  BY NextFacts, EventFacts DEF ReadOnTime
<1>c. PICK w \in Window : w = WindowStart(NextEvent(s).recvAt)
  BY NextFacts, EventFacts DEF ReadOnTime
<1>1. /\ CanRead(s) /\ Advance(s) /\ IsVideoQos(NextEvent(s)) /\ ~IsLate(NextEvent(s))
      /\ AssignTimestamp(s, NextEvent(s))
      /\ windows' = [windows EXCEPT ![k][w] = Append(windows[k][w], r)]
      /\ UNCHANGED <<log, wmOut, state, seen, sinkBuf, delivered, dropped, ckpt, base, epoch>>
      /\ Outputs' = Outputs
  BY <1>a, <1>b, <1>c DEF ReadOnTime, sinks, Outputs
<1>2. /\ r \in Record /\ r = <<s, pos[s] + 1>>
      /\ windows \in [Key -> [Window -> Seq(Record)]]
      /\ NextEvent(s) = log[s][pos[s] + 1]
  BY <1>1, <1>a, NextFacts
<1>3. /\ windows' \in [Key -> [Window -> Seq(Record)]]
      /\ windows'[k][w] = Append(windows[k][w], r)
      /\ \A l \in Key, v \in Window :
            l # k \/ v # w => windows'[l][v] = windows[l][v]
  <2>1. windows[k] \in [Window -> Seq(Record)] /\ Append(windows[k][w], r) \in Seq(Record)
    BY <1>2
  <2>2. PICK row : row = [windows[k] EXCEPT ![w] = Append(windows[k][w], r)]
    OBVIOUS
  <2>3. /\ row \in [Window -> Seq(Record)] /\ row[w] = Append(windows[k][w], r)
        /\ \A v \in Window : v # w => row[v] = windows[k][v]
    BY <2>1, <2>2
  <2>4. windows' = [windows EXCEPT ![k] = row]
    BY <1>1, <2>2
  <2>5. QED
    BY <1>2, <2>3, <2>4
<1>4. Range(windows'[k][w]) = Range(windows[k][w]) \cup {r}
  <2>1. windows[k][w] \in Seq(Record)
    BY <1>2
  <2>2. Range(Append(windows[k][w], r)) = Range(windows[k][w]) \cup {r}
    <3>1. PICK q \in Seq(Record) : q = windows[k][w]
      BY <2>1
    <3>2. r \in Record
      BY <1>2
    <3>3. Range(Append(q, r)) = Range(q) \cup {r}
      BY <3>2, RangeAppended
    <3>4. QED
      BY <3>1, <3>3
  <2>3. QED
    BY <1>3, <2>2
<1>5. \A l \in Key, v \in Window :
          /\ Range(windows[l][v]) \subseteq Range(windows'[l][v])
          /\ \A x \in Range(windows'[l][v]) :
                x \in Range(windows[l][v]) \/ (x = r /\ l = k /\ v = w)
  BY <1>3, <1>4
<1>6. TypesOK' /\ Clocks'
  BY <1>1, ReadKeepsClocks DEF IInv, TypesOK
<1>7. LiveSound'
  <2>1. /\ log \in [Subtask -> Seq(Event)] /\ base \in [Subtask -> Nat]
        /\ pos[s] < Len(log[s]) /\ pos' = [pos EXCEPT ![s] = pos[s] + 1]
    BY <1>1, NextFacts, AdvanceFacts
  <2>2. Sound(log, base, pos, windows, state, seen, Outputs)
    BY DEF IInv, LiveSound
  <2>3. Placed(<<s, pos[s] + 1>>, windows', Outputs) /\ Outputs \subseteq Outputs
    BY <1>2, <1>4 DEF Placed
  <2>4. AtMostAdded(log, s, pos[s] + 1, windows, windows')
    BY <1>b, <1>c, <1>2, <1>5 DEF AtMostAdded
  <2>5. Sound(log, base, pos', windows', state, seen, Outputs)
    BY <1>3, <2>1, <2>2, <2>3, <2>4, SoundAfterRead
  <2>6. QED
    BY <1>1, <2>5 DEF LiveSound
<1>8. CkptSound'
  BY <1>1, <1>6, GrowsSelf, CkptStays DEF Settled
<1>9. ~Reached(WindowMaxTs(w))
  BY <1>1, <1>c DEF IsLate
<1>10. ASSUME NEW o \in Outputs, o.epoch = epoch PROVE Emitted(o)'
  <2>1. Emitted(o) /\ o.recs \in Seq(Record) /\ o.win \in Window /\ o.key \in Key
    BY <1>10 DEF IInv, OutputsOK, OutputOK
  <2>2. \A x \in Range(o.recs) : x[2] <= pos'[x[1]] /\ ~InWindow(x)'
    <3> SUFFICES ASSUME NEW x \in Range(o.recs)
                 PROVE  x[2] <= pos'[x[1]] /\ ~InWindow(x)'
      OBVIOUS
    <3>1. x[1] \in Subtask /\ x[2] \in Nat
      BY <2>1, RangeWithin DEF Record
    <3>2. x[2] <= pos[x[1]] /\ ~InWindow(x)
      BY <2>1 DEF Emitted
    <3>3. pos[x[1]] <= pos'[x[1]] /\ pos[x[1]] \in Nat /\ pos'[x[1]] \in Nat
      BY <1>1, <3>1, NextFacts, AdvanceFacts
    <3>4. x # r
      BY <1>1, <1>10, <1>a, NextIsNew
    <3>5. ~InWindow(x)'
      BY <1>5, <3>2, <3>4 DEF InWindow
    <3>6. QED
      BY <3>1, <3>2, <3>3, <3>5
  <2>3. ASSUME o.kind = "session", NEW v \in Window, Open(o.key, v)' PROVE o.win < v
    <3>1. CASE o.key = k /\ v = w
      <4>1. PICK t \in Subtask : ~(wmOut[t] >= WindowMaxTs(w))
        BY <1>9 DEF Reached
      <4>2. wmOut[t] >= WindowMaxTs(o.win) /\ wmOut[t] \in Int
        BY <1>1, <2>1, NextFacts DEF Emitted, Reached
      <4>3. o.win \in Int /\ w \in Int
        BY <2>1, WindowsAreInt
      <4>4. QED
        BY <3>1, <4>1, <4>2, <4>3, AggAssumption DEF WindowMaxTs
    <3>2. CASE o.key # k \/ v # w
      BY <1>3, <2>1, <2>3, <3>2 DEF Emitted, Open
    <3>3. QED
      BY <3>1, <3>2
  <2>4. QED
    BY <1>1, <2>1, <2>2, <2>3 DEF Emitted, Reached
<1>11. OutputsOK'
  BY <1>1, <1>10 DEF IInv, OutputsOK
<1>12. QED
  BY <1>6, <1>7, <1>8, <1>11 DEF IInv

LEMMA EmitWatermarkKeepsInv ==
    ASSUME IInv, NEW s \in Subtask, EmitWatermark(s)
    PROVE  IInv'
<1>1. /\ maxTs[s] - OutOfOrderness - 1 > wmOut[s]
      /\ wmOut' = [wmOut EXCEPT ![s] = maxTs[s] - OutOfOrderness - 1]
      /\ UNCHANGED <<log, pos, maxTs, windows, state, seen, sinkBuf, delivered, dropped>>
      /\ UNCHANGED <<ckpt, base, epoch>> /\ Outputs' = Outputs
  BY DEF EmitWatermark, Watermark, handler, sinks, Outputs
<1>2. /\ maxTs \in [Subtask -> Int] /\ wmOut \in [Subtask -> Int]
      /\ pos \in [Subtask -> Nat]
  BY DEF IInv, TypesOK, LiveSound, Sound
<1>3. /\ wmOut' \in [Subtask -> Int]
      /\ \A t \in Subtask : /\ wmOut[t] <= wmOut'[t]
                             /\ (wmOut'[t] = wmOut[t]
                                   \/ wmOut'[t] = maxTs[t] - OutOfOrderness - 1)
  <2>1. maxTs[s] - OutOfOrderness - 1 \in Int
    BY <1>2, AggAssumption
  <2>2. PICK m \in Int : m = maxTs[s] - OutOfOrderness - 1
    BY <2>1
  <2>3. wmOut' = [wmOut EXCEPT ![s] = m] /\ m > wmOut[s]
    BY <1>1, <2>2
  <2>4. \A t \in Subtask : wmOut[t] \in Int
    BY <1>2
  <2>5. QED
    BY <1>2, <2>2, <2>3, <2>4
<1>4. TypesOK'
  BY <1>1, <1>3 DEF IInv, TypesOK
<1>5. LiveSound'
  BY <1>1 DEF IInv, LiveSound
<1>6. CkptSound'
  BY <1>1, <1>4, GrowsSelf, CkptStays DEF Settled
<1>7. Clocks'
  <2>1. \A t \in Subtask : maxTs[t] - OutOfOrderness - 1 \in Int
    BY <1>2, AggAssumption
  <2>2. \A t \in Subtask : wmOut'[t] <= maxTs[t] - OutOfOrderness - 1
    BY <1>3, <2>1 DEF IInv, Clocks
  <2>3. QED
    BY <1>1, <2>2 DEF IInv, Clocks
<1>8. OutputsOK'
  <2>1. \A t \in Subtask : pos[t] <= pos'[t] /\ wmOut[t] <= wmOut'[t]
    BY <1>1, <1>2, <1>3
  <2>2. QED
    BY <1>1, <1>2, <1>4, <2>1, GrowsSelf, OutputsStay
<1>9. QED
  BY <1>4, <1>5, <1>6, <1>7, <1>8 DEF IInv

LEMMA ExpireStateKeepsInv ==
    ASSUME IInv, NEW k \in Key, ExpireState(k)
    PROVE  IInv'
<1>1. /\ state' = [state EXCEPT ![k] = NoSession] /\ seen' = [seen EXCEPT ![k] = <<>>]
      /\ UNCHANGED <<log, pos, maxTs, wmOut, windows, sinkBuf, delivered, dropped>>
      /\ UNCHANGED <<ckpt, base, epoch>> /\ Outputs' = Outputs
  BY DEF ExpireState, source, sinks, Outputs
<1>2. TypesOK'
  BY <1>1 DEF IInv, TypesOK
<1>3. LiveSound'
  BY <1>1 DEF IInv, LiveSound, Sound
<1>4. CkptSound'
  BY <1>1, <1>2, GrowsSelf, CkptStays DEF Settled
<1>5. Clocks'
  BY <1>1 DEF IInv, Clocks
<1>6. OutputsOK'
  <2>1. pos \in [Subtask -> Nat] /\ wmOut \in [Subtask -> Int]
    BY DEF IInv, TypesOK, LiveSound, Sound
  <2>2. \A t \in Subtask : pos[t] <= pos'[t] /\ wmOut[t] <= wmOut'[t]
    BY <1>1, <2>1
  <2>3. QED
    BY <1>1, <1>2, <2>1, <2>2, GrowsSelf, OutputsStay
<1>7. QED
  BY <1>2, <1>3, <1>4, <1>5, <1>6 DEF IInv

LEMMA FireKeepsInv ==
    ASSUME IInv, NEW k \in Key, NEW w \in Window, Fire(k, w)
    PROVE  IInv'
<1>a. PICK recs : recs = windows[k][w]
  OBVIOUS
<1>b. PICK new : new = SessionOutput(k, w, ProcessWindow(state[k], EventsOf(windows[k][w]), w))
  OBVIOUS
<1>1. /\ FirstDue(k, w) /\ windows' = [windows EXCEPT ![k][w] = <<>>]
      /\ state' = [state EXCEPT ![k] =
                      ProcessWindow(state[k], EventsOf(windows[k][w]), w)]
      /\ seen' = [seen EXCEPT ![k] = @ \o UseOrder(windows[k][w])]
      /\ UNCHANGED <<log, pos, maxTs, wmOut, delivered, dropped, ckpt, base, epoch>>
      /\ Outputs' = Outputs \cup {new}
  BY <1>b DEF Fire, Purge, source, Outputs
<1>2. /\ new.kind = "session" /\ new.key = k /\ new.win = w /\ new.recs = recs
      /\ new.epoch = epoch
  BY <1>a, <1>b DEF SessionOutput
<1>3. /\ windows \in [Key -> [Window -> Seq(Record)]] /\ recs \in Seq(Record)
      /\ pos \in [Subtask -> Nat] /\ wmOut \in [Subtask -> Int]
  BY <1>a DEF IInv, TypesOK, LiveSound, Sound
<1>4. /\ windows' \in [Key -> [Window -> Seq(Record)]] /\ windows'[k][w] = <<>>
      /\ \A l \in Key, v \in Window :
            l # k \/ v # w => windows'[l][v] = windows[l][v]
  <2>1. windows[k] \in [Window -> Seq(Record)] /\ <<>> \in Seq(Record)
    BY <1>3
  <2>2. PICK row : row = [windows[k] EXCEPT ![w] = <<>>]
    OBVIOUS
  <2>3. /\ row \in [Window -> Seq(Record)] /\ row[w] = <<>>
        /\ \A v \in Window : v # w => row[v] = windows[k][v]
    BY <2>1, <2>2
  <2>4. windows' = [windows EXCEPT ![k] = row]
    BY <1>1, <2>2
  <2>5. QED
    BY <1>3, <2>3, <2>4
<1>5. /\ Range(windows'[k][w]) = {} /\ Range(windows[k][w]) = Range(recs)
      /\ \A l \in Key, v \in Window :
            l # k \/ v # w => Range(windows'[l][v]) = Range(windows[l][v])
  BY <1>a, <1>4, RangeNone
<1>6. \A l \in Key, v \in Window : Range(windows'[l][v]) \subseteq Range(windows[l][v])
  BY <1>5
<1>7. TypesOK' /\ Clocks'
  BY <1>1 DEF IInv, TypesOK, Clocks
<1>8. LiveSound'
  <2>1. Sound(log, base, pos, windows, state, seen, Outputs)
    BY DEF IInv, LiveSound
  <2>2. DOMAIN state' = Key /\ DOMAIN seen' = Key
    BY <1>1, <2>1 DEF Sound
  <2>3. \A l \in Key, v \in Window : \A r \in Range(windows'[l][v]) :
            Located(log, pos, r, l, v)
    BY <1>6, <2>1 DEF Sound
  <2>4. ASSUME NEW r, Placed(r, windows, Outputs) PROVE Placed(r, windows', Outputs')
    <3>1. CASE \E o \in Outputs : r \in Range(o.recs)
      BY <1>1, <3>1 DEF Placed
    <3>2. CASE r \in Range(recs)
      BY <1>1, <1>2, <3>2 DEF Placed
    <3>3. CASE \E l \in Key, v \in Window : r \in Range(windows[l][v])
      BY <1>5, <3>2, <3>3 DEF Placed
    <3>4. QED
      BY <2>4, <3>1, <3>3 DEF Placed
  <2>5. Kept(log, base, pos, windows', Outputs')
    BY <2>1, <2>4 DEF Sound, Kept
  <2>6. Sound(log, base, pos, windows', state', seen', Outputs')
    BY <1>4, <2>1, <2>2, <2>3, <2>5 DEF Sound
  <2>7. QED
    BY <1>1, <2>6 DEF LiveSound
<1>9. CkptSound'
  BY <1>1, <1>7, GrowsSelf, CkptStays DEF Settled
<1>10. \A r \in Range(recs) : InWindow(r) /\ ~InWindow(r)' /\ r[2] <= pos[r[1]]
  <2>1. Sound(log, base, pos, windows, state, seen, Outputs)
    BY DEF IInv, LiveSound
  <2>2. ASSUME NEW r \in Range(recs), NEW l \in Key, NEW v \in Window,
               r \in Range(windows'[l][v])
        PROVE  FALSE
    <3>1. r \in Range(windows[l][v]) /\ r \in Range(windows[k][w])
      BY <1>5, <1>6, <2>2
    <3>2. l = k /\ v = w
      BY <2>1, <3>1, OneWindow
    <3>3. QED
      BY <1>5, <2>2, <3>2
  <2>3. ASSUME NEW r \in Range(recs) PROVE InWindow(r) /\ r[2] <= pos[r[1]]
    BY <1>5, <2>1 DEF InWindow, Sound, Located
  <2>4. QED
    BY <2>2, <2>3 DEF InWindow
<1>11. \A q \in Outputs : q.epoch = epoch => Range(recs) \cap Range(q.recs) = {}
  BY <1>10 DEF IInv, OutputsOK, Emitted
<1>12. Reached(WindowMaxTs(w))
  BY <1>1 DEF FirstDue, Due
<1>13. ASSUME NEW v \in Window, Open(k, v)' PROVE w < v
  <2>1. v # w /\ Open(k, v)
    BY <1>4, <1>13 DEF Open
  <2>2. v \in Int /\ w \in Int
    BY WindowsAreInt
  <2>3. CASE Reached(WindowMaxTs(v))
    BY <1>1, <2>1, <2>2, <2>3 DEF FirstDue, Due
  <2>4. CASE ~Reached(WindowMaxTs(v))
    <3>1. PICK t \in Subtask : ~(wmOut[t] >= WindowMaxTs(v))
      BY <2>4 DEF Reached
    <3>2. wmOut[t] >= WindowMaxTs(w) /\ wmOut[t] \in Int
      BY <1>3, <1>12 DEF Reached
    <3>3. QED
      BY <2>2, <3>1, <3>2, AggAssumption DEF WindowMaxTs
  <2>5. QED
    BY <2>3, <2>4
<1>14. Emitted(new)'
  <2>1. Reached(WindowMaxTs(new.win))'
    BY <1>1, <1>2, <1>12 DEF Reached
  <2>2. \A q \in Outputs' : q.epoch = epoch /\ q # new =>
                              Range(new.recs) \cap Range(q.recs) = {}
    BY <1>1, <1>2, <1>11
  <2>3. \A v \in Window : Open(new.key, v)' => new.win < v
    BY <1>2, <1>13
  <2>4. QED
    BY <1>1, <1>2, <1>10, <2>1, <2>2, <2>3 DEF Emitted
<1>15. ASSUME NEW o \in Outputs, o.epoch = epoch PROVE Emitted(o)'
  <2>1. Emitted(o) /\ o.key \in Key
    BY <1>15 DEF IInv, OutputsOK, OutputOK
  <2>2. \A r \in Range(o.recs) : r[2] <= pos[r[1]] /\ ~InWindow(r)'
    BY <1>6, <2>1 DEF Emitted, InWindow
  <2>3. \A v \in Window : Open(o.key, v)' => Open(o.key, v)
    BY <1>4, <2>1 DEF Open
  <2>4. \A q \in Outputs' : q.epoch = epoch /\ q # o => Range(o.recs) \cap Range(q.recs) = {}
    BY <1>1, <1>2, <1>11, <1>15, <2>1 DEF Emitted
  <2>5. QED
    BY <1>1, <2>1, <2>2, <2>3, <2>4 DEF Emitted, Reached
<1>16. OutputsOK'
  <2>1. \A o \in Outputs : OutputOK(o, epoch) /\ Overdue(log, o)
    BY DEF IInv, OutputsOK
  <2>2. OutputOK(new, epoch) /\ Overdue(log, new)
    BY <1>2, <1>3 DEF OutputOK, Overdue, IInv, TypesOK
  <2>3. QED
    BY <1>1, <1>14, <1>15, <2>1, <2>2 DEF OutputsOK
<1>17. QED
  BY <1>7, <1>8, <1>9, <1>16 DEF IInv

\* A failed put takes an output from the sink to what is gone for good.
LEMMA PutFailsKeepsInv ==
    ASSUME IInv, NEW o \in sinkBuf, PutFails(o)
    PROVE  IInv'
<1>1. /\ UNCHANGED <<log, pos, maxTs, wmOut, windows, state, seen, ckpt, base, epoch>>
      /\ Settled \subseteq Settled' /\ Outputs' = Outputs
  BY DEF PutFails, source, handler, Outputs, Settled
<1>2. TypesOK' /\ LiveSound' /\ Clocks'
  BY <1>1 DEF IInv, TypesOK, LiveSound, Clocks
<1>3. CkptSound'
  BY <1>1, <1>2, GrowsSelf, CkptStays
<1>4. OutputsOK'
  <2>1. pos \in [Subtask -> Nat] /\ wmOut \in [Subtask -> Int]
    BY DEF IInv, TypesOK, LiveSound, Sound
  <2>2. \A t \in Subtask : pos[t] <= pos'[t] /\ wmOut[t] <= wmOut'[t]
    BY <1>1, <2>1
  <2>3. QED
    BY <1>1, <1>2, <2>1, <2>2, GrowsSelf, OutputsStay
<1>5. QED
  BY <1>2, <1>3, <1>4 DEF IInv

LEMMA CheckpointKeepsInv ==
    ASSUME IInv, Checkpoint
    PROVE  IInv'
<1>1. /\ UNCHANGED <<log, pos, maxTs, wmOut, windows, state, seen, base, epoch>>
      /\ ckpt' = Snapshot /\ Settled' = Outputs /\ Outputs' = Outputs
  BY DEF Checkpoint, source, handler, Outputs, Settled
<1>2. TypesOK' /\ Clocks'
  BY <1>1 DEF IInv, TypesOK, Clocks
<1>3. Sound(log, base, pos, windows, state, seen, Outputs)
  BY DEF IInv, LiveSound
<1>4. LiveSound'
  BY <1>1, <1>3 DEF LiveSound
<1>5. CkptSound'
  <2>1. /\ Snapshot.pos = pos /\ Snapshot.windows = windows
        /\ Snapshot.state = state /\ Snapshot.seen = seen
    BY DEF Snapshot
  <2>2. QED
    BY <1>1, <1>3, <2>1 DEF CkptSound
<1>6. OutputsOK'
  <2>1. pos \in [Subtask -> Nat] /\ wmOut \in [Subtask -> Int]
    BY DEF IInv, TypesOK, LiveSound, Sound
  <2>2. \A t \in Subtask : pos[t] <= pos'[t] /\ wmOut[t] <= wmOut'[t]
    BY <1>1, <2>1
  <2>3. QED
    BY <1>1, <1>2, <2>1, <2>2, GrowsSelf, OutputsStay
<1>7. QED
  BY <1>2, <1>4, <1>5, <1>6 DEF IInv

\* After a failure no output is of the new run, and none is new.
LEMMA FailFacts ==
    ASSUME IInv, Fail
    PROVE  /\ log' = log /\ ckpt' = ckpt /\ Settled \subseteq Settled'
           /\ Settled \subseteq Outputs'
           /\ maxTs' \in [Subtask -> Int] /\ wmOut' \in [Subtask -> Int]
           /\ epoch' \in 0..MaxRestarts /\ Clocks' /\ OutputsOK'
<1>1. /\ log' = log /\ ckpt' = ckpt /\ epoch' = epoch + 1 /\ epoch < MaxRestarts
      /\ epoch \in 0..MaxRestarts
      /\ maxTs' = [s \in Subtask |-> NoTs]
      /\ wmOut' = [s \in Subtask |-> NoTs - OutOfOrderness - 1]
      /\ Settled \subseteq Settled' /\ Outputs' \subseteq Outputs
      /\ Settled \subseteq Outputs'
  BY DEF Fail, Outputs, Settled, IInv, TypesOK
<1>2. epoch' \in 0..MaxRestarts /\ epoch \in Nat
  BY <1>1, AggAssumption
<1>3. NoTs \in Int /\ NoTs - OutOfOrderness - 1 \in Int
  BY AggAssumption DEF NoTs
<1>4. /\ maxTs' \in [Subtask -> Int] /\ wmOut' \in [Subtask -> Int] /\ Clocks'
  BY <1>1, <1>3 DEF Clocks
<1>5. OutputsOK'
  <2>1. SUFFICES ASSUME NEW o \in Outputs
                 PROVE  OutputOK(o, epoch + 1) /\ Overdue(log, o) /\ o.epoch # epoch + 1
    BY <1>1 DEF OutputsOK
  <2>2. OutputOK(o, epoch) /\ Overdue(log, o)
    BY DEF IInv, OutputsOK
  <2>3. o.epoch \in 0..(epoch + 1) /\ o.epoch # epoch + 1
    BY <1>2, <2>2 DEF OutputOK
  <2>4. QED
    BY <2>2, <2>3 DEF OutputOK
<1>6. QED
  BY <1>1, <1>2, <1>4, <1>5

LEMMA RestoreKeepsInv ==
    ASSUME IInv, Restore
    PROVE  IInv'
<1>1. /\ Fail /\ ckpt # NoCheckpoint /\ base' = base
      /\ pos' = ckpt.pos /\ windows' = ckpt.windows /\ state' = ckpt.state
      /\ seen' = ckpt.seen
  BY DEF Restore
<1>2. TypesOK'
  BY <1>1, FailFacts DEF IInv, TypesOK
<1>3. CkptSound'
  BY <1>1, <1>2, FailFacts, GrowsSelf, CkptStays DEF Settled
<1>4. LiveSound'
  <2>1. Sound(log, base, pos', windows', state', seen', Settled)
    BY <1>1 DEF IInv, CkptSound
  <2>2. /\ log \in [Subtask -> Seq(Event)] /\ base \in [Subtask -> Nat]
        /\ Settled \subseteq Outputs' /\ log' = log
    BY <1>1, FailFacts DEF IInv, TypesOK
  <2>3. Sound(log, base, pos', windows', state', seen', Outputs')
    BY <2>1, <2>2, GrowsSelf, SoundStays
  <2>4. QED
    BY <1>1, <2>2, <2>3 DEF LiveSound
<1>5. QED
  BY <1>1, <1>2, <1>3, <1>4, FailFacts DEF IInv

\* A job that starts over with nothing.
LEMMA NothingIsSound ==
    ASSUME NEW lg \in [Subtask -> Seq(Event)], NEW p \in [Subtask -> Nat],
           \A s \in Subtask : p[s] <= Len(lg[s]), NEW outs
    PROVE  Sound(lg, p, p, [k \in Key |-> [w \in Window |-> <<>>]],
                 [k \in Key |-> NoSession], [k \in Key |-> <<>>], outs)
<1>1. PICK ws : ws = [k \in Key |-> [w \in Window |-> <<>>]]
  OBVIOUS
<1>2. /\ ws \in [Key -> [Window -> Seq(Record)]]
      /\ \A k \in Key, w \in Window : Range(ws[k][w]) = {}
  <2>1. <<>> \in Seq(Record)
    OBVIOUS
  <2>2. QED
    BY <1>1, <2>1, RangeNone
<1>3. \A s \in Subtask : p[s] \in Nat /\ p[s] <= p[s]
  OBVIOUS
<1>4. Kept(lg, p, p, ws, outs)
  BY <1>3 DEF Kept
<1>5. PICK st, sn : st = [k \in Key |-> NoSession] /\ sn = [k \in Key |-> <<>>]
  OBVIOUS
<1>6. Sound(lg, p, p, ws, st, sn, outs)
  BY <1>2, <1>3, <1>4, <1>5 DEF Sound
<1>7. QED
  BY <1>1, <1>5, <1>6

LEMMA StartFromLatestKeepsInv ==
    ASSUME IInv, StartFromLatest
    PROVE  IInv'
<1>1. /\ Fail /\ ckpt = NoCheckpoint
      /\ pos' = [s \in Subtask |-> Len(log[s])] /\ base' = pos'
      /\ windows' = [k \in Key |-> [w \in Window |-> <<>>]]
      /\ state' = [k \in Key |-> NoSession] /\ seen' = [k \in Key |-> <<>>]
  BY DEF StartFromLatest
<1>2. log \in [Subtask -> Seq(Event)] /\ log' = log
  BY <1>1, FailFacts DEF IInv, TypesOK
<1>3. pos' \in [Subtask -> Nat] /\ \A s \in Subtask : pos'[s] <= Len(log[s])
  BY <1>1, <1>2
<1>4. TypesOK'
  BY <1>1, <1>2, <1>3, FailFacts DEF TypesOK
<1>5. CkptSound'
  BY <1>1, FailFacts DEF CkptSound
<1>6. LiveSound'
  BY <1>1, <1>2, <1>3, NothingIsSound DEF LiveSound
<1>7. QED
  BY <1>1, <1>4, <1>5, <1>6, FailFacts DEF IInv

LEMMA InitImpliesInv == Init => IInv
<1> SUFFICES ASSUME Init PROVE IInv
  OBVIOUS
<1>1. /\ log = [s \in Subtask |-> <<>>] /\ pos = [s \in Subtask |-> 0] /\ base = pos
      /\ maxTs = [s \in Subtask |-> NoTs]
      /\ wmOut = [s \in Subtask |-> NoTs - OutOfOrderness - 1]
      /\ Outputs = {} /\ ckpt = NoCheckpoint /\ epoch = 0
      /\ windows = [k \in Key |-> [w \in Window |-> <<>>]]
      /\ state = [k \in Key |-> NoSession] /\ seen = [k \in Key |-> <<>>]
  BY DEF Init, Outputs
<1>2. /\ log \in [Subtask -> Seq(Event)] /\ pos \in [Subtask -> Nat]
      /\ \A s \in Subtask : pos[s] <= Len(log[s])
  <2>1. <<>> \in Seq(Event) /\ Len(<<>>) = 0
    OBVIOUS
  <2>2. QED
    BY <1>1, <2>1
<1>3. NoTs \in Int /\ NoTs - OutOfOrderness - 1 \in Int
  BY AggAssumption DEF NoTs
<1>4. TypesOK /\ Clocks
  BY <1>1, <1>2, <1>3, AggAssumption DEF TypesOK, Clocks
<1>5. LiveSound
  BY <1>1, <1>2, NothingIsSound DEF LiveSound
<1>6. CkptSound /\ OutputsOK
  BY <1>1 DEF CkptSound, OutputsOK
<1>7. QED
  BY <1>4, <1>5, <1>6 DEF IInv

LEMMA NextKeepsInv == IInv /\ [Next]_vars => IInv'
<1> SUFFICES ASSUME IInv, [Next]_vars PROVE IInv'
  OBVIOUS
<1>1. CASE \E s \in Subtask, e \in Event : Arrive(s, e)
  BY <1>1, ArriveKeepsInv
<1>2. CASE \E s \in Subtask : \/ ReadOther(s) \/ ReadLate(s) \/ ReadOnTime(s)
                            \/ EmitWatermark(s)
  BY <1>2, ReadOtherKeepsInv, ReadLateKeepsInv, ReadOnTimeKeepsInv, EmitWatermarkKeepsInv
<1>3. CASE \E k \in Key, w \in Window : Fire(k, w)
  BY <1>3, FireKeepsInv
<1>4. CASE \E k \in Key : ExpireState(k)
  BY <1>4, ExpireStateKeepsInv
<1>8. CASE \E o \in sinkBuf : PutFails(o)
  BY <1>8, PutFailsKeepsInv
<1>5. CASE Checkpoint \/ Restore \/ StartFromLatest
  BY <1>5, CheckpointKeepsInv, RestoreKeepsInv, StartFromLatestKeepsInv
<1>6. CASE UNCHANGED vars
  <2>1. /\ UNCHANGED <<log, pos, maxTs, wmOut, windows, state, seen, sinkBuf, delivered, dropped>>
        /\ UNCHANGED <<ckpt, base, epoch>> /\ Outputs' = Outputs
    BY <1>6 DEF vars, source, handler, sinks, Outputs
  <2>2. TypesOK' /\ LiveSound' /\ CkptSound' /\ Clocks'
    BY <2>1 DEF IInv, TypesOK, LiveSound, CkptSound, Clocks, Settled
  <2>3. pos \in [Subtask -> Nat] /\ wmOut \in [Subtask -> Int]
    BY DEF IInv, TypesOK, LiveSound, Sound
  <2>4. \A t \in Subtask : pos[t] <= pos'[t] /\ wmOut[t] <= wmOut'[t]
    BY <2>1, <2>3
  <2>5. QED
    BY <2>1, <2>2, <2>3, <2>4, GrowsSelf, OutputsStay DEF IInv
<1>7. QED
  BY <1>1, <1>2, <1>3, <1>4, <1>5, <1>6, <1>8 DEF Next

LEMMA Invariance == Spec => []IInv
BY InitImpliesInv, NextKeepsInv, PTL DEF Spec

-----------------------------------------------------------------------------
(* The operators under the window function: a least number, the loop over  *)
(* the events, the sort of a window, the earliest value that is not Blank. *)

\* A nonempty set of natural numbers has a least one.
LEMMA Least ==
    ASSUME NEW S \in SUBSET Nat, S # {}
    PROVE  \E n \in S : \A k \in S : n <= k
<1> DEFINE Less == OpToRel(<, Nat)
<1>1. \A k, n \in Nat : k < n => <<k, n>> \in Less
  BY DEF OpToRel
<1>2. IsWellFoundedOn(Less, Nat)
  BY NatLessThanWellFounded
<1> HIDE DEF Less
<1>3. \E n \in S : \A k \in S : ~(<<k, n>> \in Less)
  BY <1>2, WFMin
<1>4. PICK n \in S : \A k \in S : ~(<<k, n>> \in Less)
  BY <1>3
<1>5. ASSUME NEW k \in S PROVE n <= k
  <2>1. k \in Nat /\ n \in Nat /\ ~(k < n)
    BY <1>1, <1>4
  <2>2. QED
    BY <2>1
<1>6. QED
  BY <1>5

\* The loop over the events of a window: it is defined after any number of turns.
LEMMA UpdatedTurns ==
    ASSUME NEW session, NEW evs, Len(evs) \in Nat
    PROVE  /\ Updated(session, evs)[0] = session
           /\ \A n \in 1..Len(evs) :
                 Updated(session, evs)[n] = UpdateMetadata(Updated(session, evs)[n - 1], evs[n])
<1> DEFINE Turn(f, n) == IF n = 0 THEN session ELSE UpdateMetadata(f[n - 1], evs[n])
           Defined(k) == \E f : f = [n \in 0..k |-> Turn(f, n)]
           Undefined  == {k \in Nat : ~Defined(k)}
<1>1. Defined(0)
  <2>1. [n \in 0..0 |-> session] = [n \in 0..0 |-> Turn([m \in 0..0 |-> session], n)]
    OBVIOUS
  <2>2. QED
    BY <2>1
<1>2. ASSUME NEW k \in Nat, Defined(k) PROVE Defined(k + 1)
  <2>1. PICK f : f = [n \in 0..k |-> Turn(f, n)]
    BY <1>2
  <2> DEFINE g == [n \in 0..(k + 1) |->
                      IF n = k + 1 THEN UpdateMetadata(f[k], evs[k + 1]) ELSE f[n]]
  <2>2. \A n \in 0..k : g[n] = f[n] /\ f[n] = Turn(f, n)
    BY <2>1
  <2>3. ASSUME NEW n \in 0..(k + 1) PROVE g[n] = Turn(g, n)
    <3>1. CASE n = 0
      <4>1. 0 \in 0..k
        OBVIOUS
      <4>2. g[0] = f[0] /\ f[0] = session
        BY <2>1, <2>2, <4>1
      <4> HIDE DEF g
      <4>3. QED
        BY <3>1, <4>2
    <3>2. CASE n \in 1..k
      <4>1. n - 1 \in 0..k /\ n \in 0..k /\ n # 0
        BY <3>2
      <4>2. g[n - 1] = f[n - 1] /\ g[n] = f[n]
        BY <2>2, <4>1
      <4> HIDE DEF g
      <4>3. f[n] = UpdateMetadata(f[n - 1], evs[n])
        BY <2>1, <4>1
      <4>4. g[n] = UpdateMetadata(g[n - 1], evs[n])
        BY <4>2, <4>3
      <4>5. QED
        BY <4>1, <4>4
    <3>3. CASE n = k + 1
      <4>1. k \in 0..k /\ n # 0 /\ n - 1 = k
        BY <3>3
      <4>2. g[k] = f[k] /\ g[n] = UpdateMetadata(f[k], evs[n])
        BY <2>2, <3>3, <4>1
      <4> HIDE DEF g
      <4>3. QED
        BY <4>1, <4>2
    <3>4. QED
      BY <3>1, <3>2, <3>3
  <2>4. DOMAIN g = 0..(k + 1) /\ g = [n \in 0..(k + 1) |-> g[n]]
    OBVIOUS
  <2> HIDE DEF g
  <2>5. g = [n \in 0..(k + 1) |-> Turn(g, n)]
    BY <2>3, <2>4
  <2>6. QED
    BY <2>5
<1> HIDE DEF Defined
<1>3. Undefined = {}
  <2> SUFFICES ASSUME Undefined # {} PROVE FALSE
    OBVIOUS
  <2>1. PICK n \in Undefined : \A k \in Undefined : n <= k
    BY Least
  <2>2. n \in Nat /\ n # 0
    BY <1>1
  <2>3. n - 1 \in Nat /\ ~(n <= n - 1) /\ (n - 1) + 1 = n
    BY <2>2
  <2>4. Defined(n - 1)
    BY <2>1, <2>3
  <2>5. QED
    BY <1>2, <2>3, <2>4
<1>4. Defined(Len(evs))
  BY <1>3
<1>5. Updated(session, evs) =
          [n \in 0..Len(evs) |-> Turn(Updated(session, evs), n)]
  <2>1. Updated(session, evs) = CHOOSE f : f = [n \in 0..Len(evs) |-> Turn(f, n)]
    BY DEF Updated
  <2>2. QED
    BY <1>4, <2>1 DEF Defined
<1>6. 0 \in 0..Len(evs) /\ \A n \in 1..Len(evs) : n \in 0..Len(evs) /\ n # 0
  OBVIOUS
<1> DEFINE u == Updated(session, evs)
<1> HIDE DEF u
<1>7. u = [n \in 0..Len(evs) |-> Turn(u, n)]
  BY <1>5 DEF u
<1>8. \A n \in 0..Len(evs) : u[n] = Turn(u, n)
  BY <1>7
<1>9. QED
  BY <1>6, <1>8 DEF u

\* The order of a window is by the player's clock, and by arrival where that ties:
\* a permutation of the window in which each event is before the next.
LEMMA TimeOrderSorts ==
    ASSUME NEW evs, NEW n \in Nat, DOMAIN evs = 1..n, \A i \in 1..n : ClientTs(evs[i]) \in Int
    PROVE  /\ TimeOrder(evs) \in [1..n -> 1..n]
           /\ \A i \in 1..n : \E m \in 1..n : TimeOrder(evs)[m] = i
           /\ \A l, m \in 1..n : l < m => Before(evs, TimeOrder(evs)[l], TimeOrder(evs)[m])
<1> DEFINE I == 1..n
           rank == [i \in I |-> Cardinality(EventsBefore(evs, i))]
           order == TimeOrder(evs)
<1>1. /\ \A i \in I : ~Before(evs, i, i)
      /\ \A i, j \in I : i # j => Before(evs, i, j) \/ Before(evs, j, i)
      /\ \A i, j, k \in I : Before(evs, i, j) /\ Before(evs, j, k) => Before(evs, i, k)
  BY DEF Before
<1>2. ASSUME NEW i \in I
      PROVE  /\ EventsBefore(evs, i) \subseteq I \ {i} /\ IsFiniteSet(EventsBefore(evs, i))
             /\ rank[i] = Cardinality(EventsBefore(evs, i)) /\ rank[i] \in 0..(n - 1)
  <2>1. EventsBefore(evs, i) \subseteq I \ {i}
    BY <1>1 DEF EventsBefore
  <2>2. IsFiniteSet(I) /\ Cardinality(I) = n
    BY FS_Interval
  <2>3. IsFiniteSet(I \ {i}) /\ Cardinality(I \ {i}) = n - 1
    BY <2>2, FS_RemoveElement
  <2>4. /\ IsFiniteSet(EventsBefore(evs, i))
        /\ Cardinality(EventsBefore(evs, i)) <= n - 1
    BY <2>1, <2>3, FS_Subset
  <2>5. QED
    BY <2>1, <2>4, FS_CardinalityType
<1>3. ASSUME NEW i \in I, NEW j \in I, Before(evs, i, j) PROVE rank[i] < rank[j]
  <2>1. EventsBefore(evs, i) \subseteq EventsBefore(evs, j)
    BY <1>1, <1>3 DEF EventsBefore
  <2>2. i \in EventsBefore(evs, j) /\ i \notin EventsBefore(evs, i)
    BY <1>1, <1>3 DEF EventsBefore
  <2>3. /\ Cardinality(EventsBefore(evs, i)) <= Cardinality(EventsBefore(evs, j))
        /\ Cardinality(EventsBefore(evs, i)) # Cardinality(EventsBefore(evs, j))
    BY <1>2, <2>1, <2>2, FS_Subset
  <2>4. QED
    BY <1>2, <2>3
<1>4. \A i, j \in I : rank[i] = rank[j] => i = j
  <2> SUFFICES ASSUME NEW i \in I, NEW j \in I, rank[i] = rank[j], i # j PROVE FALSE
    OBVIOUS
  <2>1. rank[i] < rank[j] \/ rank[j] < rank[i]
    BY <1>1, <1>3
  <2>2. rank[i] \in Int /\ rank[j] \in Int
    BY <1>2
  <2> HIDE DEF rank
  <2>3. QED
    BY <2>1, <2>2
<1>5. rank \in Surjection(I, 0..(n - 1))
  <2>1. rank \in Injection(I, 0..(n - 1))
    <3>1. rank \in [I -> 0..(n - 1)]
      BY <1>2
    <3> HIDE DEF rank
    <3>2. QED
      BY <1>4, <3>1 DEF Injection, IsInjective
  <2>2. /\ IsFiniteSet(I) /\ Cardinality(I) = n
        /\ IsFiniteSet(0..(n - 1)) /\ Cardinality(0..(n - 1)) = n
    BY FS_Interval
  <2> HIDE DEF rank, I
  <2>3. QED
    BY <2>1, <2>2, FS_Injection
<1>6. ASSUME NEW m \in I PROVE order[m] \in I /\ rank[order[m]] = m - 1
  <2>1. m - 1 \in 0..(n - 1)
    OBVIOUS
  <2>2. \E i \in I : rank[i] = m - 1
    BY <1>5, <2>1 DEF Surjection
  <2>3. \E i \in I : Cardinality(EventsBefore(evs, i)) = m - 1
    BY <1>2, <2>2
  <2>4. order[m] = CHOOSE i \in I : Cardinality(EventsBefore(evs, i)) = m - 1
    BY DEF TimeOrder
  <2>5. order[m] \in I /\ Cardinality(EventsBefore(evs, order[m])) = m - 1
    BY <2>3, <2>4
  <2>6. QED
    BY <1>2, <2>5
<1>7. order \in [I -> I]
  <2>1. order = [m \in I |-> order[m]]
    BY DEF TimeOrder
  <2> HIDE DEF order
  <2>2. QED
    BY <1>6, <2>1
<1> HIDE DEF rank, order
<1>8. ASSUME NEW i \in I PROVE \E m \in I : order[m] = i
  <2>1. rank[i] + 1 \in I /\ (rank[i] + 1) - 1 = rank[i]
    BY <1>2
  <2>2. QED
    BY <1>4, <1>6, <2>1
<1>9. ASSUME NEW l \in I, NEW m \in I, l < m PROVE Before(evs, order[l], order[m])
  <2>1. rank[order[l]] = l - 1 /\ rank[order[m]] = m - 1 /\ order[l] \in I /\ order[m] \in I
    BY <1>6
  <2>2. l - 1 < m - 1 /\ l - 1 \in Int /\ m - 1 \in Int
    BY <1>9
  <2>3. order[l] # order[m] /\ ~Before(evs, order[m], order[l])
    BY <1>3, <2>1, <2>2
  <2>4. QED
    BY <1>1, <2>1, <2>3
<1>10. QED
  BY <1>7, <1>8, <1>9 DEF order

\* What the earliest value is that is not Blank.
LEMMA EarliestIs ==
    ASSUME NEW f, DOMAIN f \subseteq Nat
    PROVE  \/ EarliestNonBlank(f) = Blank /\ \A i \in DOMAIN f : f[i] = Blank
           \/ \E i \in DOMAIN f : /\ EarliestNonBlank(f) = f[i] /\ f[i] # Blank
                                  /\ \A j \in DOMAIN f : f[j] # Blank => i <= j
<1> DEFINE filled == {i \in DOMAIN f : f[i] # Blank}
<1>1. CASE filled = {}
  BY <1>1 DEF EarliestNonBlank
<1>2. CASE filled # {}
  <2>1. \E i \in filled : \A j \in filled : i <= j
    BY <1>2, Least
  <2> DEFINE i == CHOOSE i \in filled : \A j \in filled : i <= j
  <2>2. i \in filled /\ \A j \in filled : i <= j
    BY <2>1
  <2>3. EarliestNonBlank(f) = f[i]
    BY <1>2 DEF EarliestNonBlank
  <2> HIDE DEF i
  <2>4. QED
    BY <2>2, <2>3
<1>3. QED
  BY <1>1, <1>2

\* One value more fills what was Blank, and else changes nothing.
LEMMA EarliestAppended ==
    ASSUME NEW a \in Nat, NEW n \in Nat, a <= n + 1, NEW f, DOMAIN f = a..n,
           NEW g, DOMAIN g = a..(n + 1), \A i \in a..n : g[i] = f[i]
    PROVE  EarliestNonBlank(g) = FirstNonBlank(EarliestNonBlank(f), g[n + 1])
<1>1. /\ DOMAIN f \subseteq Nat /\ DOMAIN g \subseteq Nat
      /\ \A i \in a..(n + 1) : i \in a..n \/ i = n + 1
      /\ \A i \in a..n : i \in a..(n + 1) /\ i <= n /\ ~(n + 1 <= i)
      /\ n + 1 \in a..(n + 1)
  OBVIOUS
<1>2. CASE EarliestNonBlank(f) = Blank /\ \A i \in DOMAIN f : f[i] = Blank
  <2>1. \A i \in a..(n + 1) : g[i] # Blank => i = n + 1
    BY <1>1, <1>2
  <2>2. EarliestNonBlank(g) = g[n + 1]
    BY <1>1, <2>1, EarliestIs
  <2>3. QED
    BY <1>2, <2>2 DEF FirstNonBlank
<1>3. CASE \E i \in DOMAIN f : /\ EarliestNonBlank(f) = f[i] /\ f[i] # Blank
                               /\ \A j \in DOMAIN f : f[j] # Blank => i <= j
  <2>1. PICK i \in a..n : /\ EarliestNonBlank(f) = f[i] /\ f[i] # Blank
                          /\ \A j \in a..n : f[j] # Blank => i <= j
    BY <1>3
  <2>2. \A j \in a..(n + 1) : g[j] # Blank => i <= j
    BY <1>1, <2>1
  <2>3. g[i] = f[i] /\ i \in a..(n + 1) /\ i \in Nat
    BY <1>1, <2>1
  <2>4. PICK j \in a..(n + 1) : /\ EarliestNonBlank(g) = g[j] /\ g[j] # Blank
                                /\ \A l \in a..(n + 1) : g[l] # Blank => j <= l
    BY <1>1, <2>1, <2>3, EarliestIs
  <2>5. i <= j /\ j <= i
    BY <2>1, <2>2, <2>3, <2>4
  <2>6. i = j
    BY <2>3, <2>5
  <2>7. QED
    BY <2>1, <2>3, <2>4, <2>6 DEF FirstNonBlank
<1>4. QED
  BY <1>1, <1>2, <1>3, EarliestIs

-----------------------------------------------------------------------------
(* A session and the events it was built from.                             *)

IsSession(s) ==
    s = [vsid |-> s.vsid, start |-> s.start, asset |-> s.asset,
         platform |-> s.platform, deviceOs |-> s.deviceOs,
         latestWindow |-> s.latestWindow, playCount |-> s.playCount]

\* t is the earliest time of the events: what ExpectedStart chooses.
Times(q) == {q[i].recvAt : i \in DOMAIN q} \cup ({ClientTs(q[1])} \ {0})
LeastTime(t, q) == t \in Times(q) /\ \A u \in Times(q) : t <= u

Fits(s, q) ==
    /\ q \in Seq(Event) /\ q # <<>>
    /\ IsSession(s) /\ LeastTime(s.start, q) /\ MatchesEvents(s, q)

LEMMA TimesAreNumbers ==
    ASSUME NEW q \in Seq(Event), q # <<>>
    PROVE  /\ Times(q) \subseteq Int \ {0} /\ q[1] \in Event
           /\ \A i \in 1..Len(q) : q[i] \in Event /\ q[i].recvAt \in Nat \ {0}
<1>1. /\ Len(q) \in Nat /\ 1 \in 1..Len(q) /\ DOMAIN q = 1..Len(q)
      /\ \A i \in 1..Len(q) : q[i] \in Event
  OBVIOUS
<1>2. \A e \in Event : e.recvAt \in Nat \ {0} /\ ClientTs(e) \in Int
  BY AggAssumption DEF ClientTs
<1>3. QED
  BY <1>1, <1>2 DEF Times

LEMMA LeastTimeIsStart ==
    ASSUME NEW q \in Seq(Event), q # <<>>, NEW t, LeastTime(t, q)
    PROVE  t = ExpectedStart(q)
<1>1. Times(q) \subseteq Int
  BY TimesAreNumbers
<1>2. ExpectedStart(q) = CHOOSE x \in Times(q) : \A u \in Times(q) : x <= u
  BY DEF ExpectedStart, Times
<1>3. \A x \in Times(q) : (\A u \in Times(q) : x <= u) => x = t
  BY <1>1 DEF LeastTime
<1>4. QED
  BY <1>2, <1>3 DEF LeastTime

LEMMA UpdateFields ==
    ASSUME NEW s, IsSession(s), NEW e
    PROVE  LET platform == FirstNonBlank(s.platform, e.platform)
               u == UpdateMetadata(s, e)
           IN  /\ IsSession(u)
               /\ u.start = EarlierStart(s.start, e)
               /\ u.asset = FirstNonBlank(s.asset, e.asset)
               /\ u.platform = platform
               /\ u.deviceOs = FillDevice(s.deviceOs, platform, e)
<1> DEFINE platform == FirstNonBlank(s.platform, e.platform)
           u == UpdateMetadata(s, e)
<1>1. u = [s EXCEPT !.start    = EarlierStart(s.start, e),
                    !.asset    = FirstNonBlank(s.asset, e.asset),
                    !.platform = platform,
                    !.deviceOs = FillDevice(s.deviceOs, platform, e)]
  BY DEF UpdateMetadata
<1>2. u = [vsid |-> s.vsid, start |-> EarlierStart(s.start, e),
           asset |-> FirstNonBlank(s.asset, e.asset), platform |-> platform,
           deviceOs |-> FillDevice(s.deviceOs, platform, e),
           latestWindow |-> s.latestWindow, playCount |-> s.playCount]
  <2> HIDE DEF u, platform
  <2>1. QED
    BY <1>1 DEF IsSession
<1> HIDE DEF u, platform
<1>3. IsSession(u) /\ u.start = EarlierStart(s.start, e)
      /\ u.asset = FirstNonBlank(s.asset, e.asset) /\ u.platform = platform
      /\ u.deviceOs = FillDevice(s.deviceOs, platform, e)
  BY <1>2 DEF IsSession
<1>4. QED
  BY <1>3 DEF u, platform

\* The window's start and its count of plays say nothing of the events.
LEMMA WithWindowOrCount ==
    ASSUME NEW s, IsSession(s), NEW x
    PROVE  LET v == [s EXCEPT !.latestWindow = x]
               c == [s EXCEPT !.playCount = x]
           IN  /\ IsSession(v) /\ v.start = s.start /\ v.asset = s.asset
               /\ v.platform = s.platform /\ v.deviceOs = s.deviceOs
               /\ IsSession(c) /\ c.start = s.start /\ c.asset = s.asset
               /\ c.platform = s.platform /\ c.deviceOs = s.deviceOs /\ c.playCount = x
<1> DEFINE v == [s EXCEPT !.latestWindow = x]
           c == [s EXCEPT !.playCount = x]
<1>1. v = [vsid |-> s.vsid, start |-> s.start, asset |-> s.asset, platform |-> s.platform,
           deviceOs |-> s.deviceOs, latestWindow |-> x, playCount |-> s.playCount]
  BY DEF IsSession
<1>2. c = [vsid |-> s.vsid, start |-> s.start, asset |-> s.asset, platform |-> s.platform,
           deviceOs |-> s.deviceOs, latestWindow |-> s.latestWindow, playCount |-> x]
  BY DEF IsSession
<1> HIDE DEF v, c
<1>3. QED
  BY <1>1, <1>2 DEF IsSession, v, c

LEMMA FitsWith ==
    ASSUME NEW s, NEW q, Fits(s, q), NEW x
    PROVE  Fits([s EXCEPT !.latestWindow = x], q) /\ Fits([s EXCEPT !.playCount = x], q)
<1> DEFINE v == [s EXCEPT !.latestWindow = x]
           c == [s EXCEPT !.playCount = x]
<1>1. /\ IsSession(v) /\ v.start = s.start /\ v.asset = s.asset
      /\ v.platform = s.platform /\ v.deviceOs = s.deviceOs
      /\ IsSession(c) /\ c.start = s.start /\ c.asset = s.asset
      /\ c.platform = s.platform /\ c.deviceOs = s.deviceOs
  <2>1. IsSession(s)
    BY DEF Fits
  <2>2. QED
    BY <2>1, WithWindowOrCount, SMTT(30)
<1> HIDE DEF v, c
<1>2. QED
  BY <1>1 DEF Fits, MatchesEvents, v, c

\* The event that creates a session is also the first of its loop.
LEMMA FirstEventFits ==
    ASSUME NEW e \in Event, NEW w
    PROVE  Fits(UpdateMetadata([NewSession(e) EXCEPT !.latestWindow = w], e), <<e>>)
<1> DEFINE b == NewSession(e)
           s == [b EXCEPT !.latestWindow = w]
           u == UpdateMetadata(s, e)
           q == <<e>>
<1>1. /\ IsSession(b) /\ b.start = ClientTs(e) /\ b.asset = e.asset
      /\ b.platform = e.platform /\ b.deviceOs = e.uaOs
  BY DEF NewSession, IsSession
<1> HIDE DEF b
<1>2. /\ IsSession(s) /\ s.start = ClientTs(e) /\ s.asset = e.asset
      /\ s.platform = e.platform /\ s.deviceOs = e.uaOs
  <2>1. IsSession(s) /\ s.start = b.start /\ s.asset = b.asset
        /\ s.platform = b.platform /\ s.deviceOs = b.deviceOs
    BY <1>1, WithWindowOrCount
  <2> HIDE DEF s
  <2>2. QED
    BY <1>1, <2>1
<1> HIDE DEF s
<1>3. /\ IsSession(u) /\ u.start = EarlierStart(ClientTs(e), e) /\ u.asset = e.asset
      /\ u.platform = e.platform /\ u.deviceOs = FillDevice(e.uaOs, e.platform, e)
  BY <1>2, UpdateFields DEF FirstNonBlank
<1> HIDE DEF u
<1>4. /\ q \in Seq(Event) /\ q # <<>> /\ Len(q) = 1 /\ DOMAIN q = 1..1 /\ q[1] = e
  OBVIOUS
<1> HIDE DEF q
<1>5. LeastTime(u.start, q)
  <2>1. e.recvAt \in Nat \ {0} /\ ClientTs(e) \in Int
    BY AggAssumption DEF ClientTs
  <2>2. Times(q) = {e.recvAt} \cup ({ClientTs(e)} \ {0})
    BY <1>4 DEF Times
  <2>3. QED
    BY <1>3, <2>1, <2>2 DEF LeastTime, EarlierStart
<1>6. u.start = ExpectedStart(q)
  BY <1>4, <1>5, LeastTimeIsStart
<1>7. ASSUME NEW f, DOMAIN f = 1..1 PROVE EarliestNonBlank(f) = f[1]
  <2>1. DOMAIN f \subseteq Nat /\ \A i \in DOMAIN f : i = 1
    BY <1>7
  <2>2. QED
    BY <1>7, <2>1, EarliestIs
<1>8. /\ u.asset = EarliestNonBlank([i \in DOMAIN q |-> q[i].asset])
      /\ u.platform = EarliestNonBlank([i \in DOMAIN q |-> q[i].platform])
  BY <1>3, <1>4, <1>7
<1>9. u.deviceOs = ExpectedDeviceOs(q)
  <2> DEFINE known(i) == \E j \in 1..i : q[j].platform # Blank
             f == [i \in 0..1 |-> IF i = 0 THEN q[1].uaOs
                                  ELSE IF known(i) THEN DeviceOsOf(q[i], e.platform) ELSE Blank]
             g == [i \in 0..0 |-> q[1].uaOs]
  <2>1. ExpectedDeviceOs(q) = EarliestNonBlank(f)
    BY <1>3, <1>4, <1>8 DEF ExpectedDeviceOs
  <2>2. known(1) <=> e.platform # Blank
    BY <1>4
  <2>3. f[0] = e.uaOs /\ f[1] = IF e.platform # Blank THEN DeviceOsOf(e, e.platform) ELSE Blank
    BY <1>4, <2>2
  <2>4. EarliestNonBlank(g) = e.uaOs
    <3>1. DOMAIN g = 0..0 /\ DOMAIN g \subseteq Nat /\ g[0] = e.uaOs /\ \A i \in 0..0 : i = 0
      BY <1>4
    <3> HIDE DEF g
    <3>2. \/ EarliestNonBlank(g) = Blank /\ g[0] = Blank
          \/ EarliestNonBlank(g) = g[0]
      <4>1. \/ EarliestNonBlank(g) = Blank /\ \A i \in DOMAIN g : g[i] = Blank
            \/ \E i \in DOMAIN g : EarliestNonBlank(g) = g[i]
        BY <3>1, EarliestIs
      <4>2. QED
        BY <3>1, <4>1
    <3>3. QED
      BY <3>1, <3>2
  <2>5. EarliestNonBlank(f) = FirstNonBlank(EarliestNonBlank(g), f[1])
    <3>1. DOMAIN f = 0..(0 + 1) /\ DOMAIN g = 0..0 /\ (\A i \in 0..0 : f[i] = g[i])
          /\ 0 \in Nat /\ 0 <= 0 + 1
      BY <1>4
    <3> HIDE DEF f, g
    <3>2. EarliestNonBlank(f) = FirstNonBlank(EarliestNonBlank(g), f[0 + 1])
      BY <3>1, EarliestAppended, ZenonT(60)
    <3>3. QED
      BY <3>2
  <2> HIDE DEF f, g
  <2>6. QED
    BY <1>3, <2>1, <2>3, <2>4, <2>5 DEF FillDevice, FirstNonBlank, DeviceOsOf
<1>10. QED
  BY <1>3, <1>4, <1>5, <1>6, <1>8, <1>9 DEF Fits, MatchesEvents, u, s, b, q

\* A turn of the loop keeps the session at what its events say.
LEMMA NextEventFits ==
    ASSUME NEW s, NEW q, Fits(s, q), NEW e \in Event
    PROVE  Fits(UpdateMetadata(s, e), Append(q, e))
<1> DEFINE u == UpdateMetadata(s, e)
           p == Append(q, e)
           n == Len(q)
           platform == FirstNonBlank(s.platform, e.platform)
<1>1. /\ IsSession(u) /\ u.start = EarlierStart(s.start, e)
      /\ u.asset = FirstNonBlank(s.asset, e.asset) /\ u.platform = platform
      /\ u.deviceOs = FillDevice(s.deviceOs, platform, e)
  BY UpdateFields DEF Fits
<1> HIDE DEF u, platform
<1>2. /\ q \in Seq(Event) /\ q # <<>> /\ n \in Nat /\ n >= 1 /\ DOMAIN q = 1..n
      /\ p \in Seq(Event) /\ p # <<>> /\ DOMAIN p = 1..(n + 1) /\ Len(p) = n + 1
      /\ \A i \in 1..n : p[i] = q[i] /\ i \in 1..(n + 1) /\ i # n + 1
      /\ p[n + 1] = e /\ 1 \in 1..n
  BY DEF Fits
<1> HIDE DEF p, n
<1>3. LeastTime(u.start, p)
  <2>1. Times(q) \subseteq Int \ {0} /\ e.recvAt \in Nat \ {0}
    BY <1>2, TimesAreNumbers, AggAssumption
  <2>2. Times(p) = Times(q) \cup {e.recvAt}
    <3>1. \A i \in 1..(n + 1) : i \in 1..n \/ i = n + 1
      BY <1>2
    <3>2. n + 1 \in 1..(n + 1)
      BY <1>2
    <3>3. QED
      BY <1>2, <3>1, <3>2 DEF Times
  <2>3. s.start \in Times(q) /\ \A x \in Times(q) : s.start <= x
    BY DEF Fits, LeastTime
  <2>4. QED
    BY <1>1, <2>1, <2>2, <2>3 DEF LeastTime, EarlierStart
<1>4. u.start = ExpectedStart(p)
  BY <1>2, <1>3, LeastTimeIsStart
<1>5. u.asset = EarliestNonBlank([i \in DOMAIN p |-> p[i].asset])
  <2> DEFINE f == [i \in DOMAIN q |-> q[i].asset]
             g == [i \in DOMAIN p |-> p[i].asset]
  <2>1. /\ DOMAIN f = 1..n /\ DOMAIN g = 1..(n + 1) /\ (\A i \in 1..n : g[i] = f[i])
        /\ g[n + 1] = e.asset
    BY <1>2
  <2>2. s.asset = EarliestNonBlank(f)
    BY DEF Fits, MatchesEvents
  <2> HIDE DEF f, g
  <2>3. EarliestNonBlank(g) = FirstNonBlank(EarliestNonBlank(f), g[n + 1])
    BY <1>2, <2>1, EarliestAppended
  <2>4. QED
    BY <1>1, <2>1, <2>2, <2>3 DEF g
<1>6. u.platform = EarliestNonBlank([i \in DOMAIN p |-> p[i].platform])
  <2> DEFINE f == [i \in DOMAIN q |-> q[i].platform]
             g == [i \in DOMAIN p |-> p[i].platform]
  <2>1. /\ DOMAIN f = 1..n /\ DOMAIN g = 1..(n + 1) /\ (\A i \in 1..n : g[i] = f[i])
        /\ g[n + 1] = e.platform
    BY <1>2
  <2>2. s.platform = EarliestNonBlank(f)
    BY DEF Fits, MatchesEvents
  <2> HIDE DEF f, g
  <2>3. EarliestNonBlank(g) = FirstNonBlank(EarliestNonBlank(f), g[n + 1])
    BY <1>2, <2>1, EarliestAppended
  <2>4. QED
    BY <1>1, <2>1, <2>2, <2>3 DEF g, platform
<1>7. u.deviceOs = ExpectedDeviceOs(p)
  <2> DEFINE knownIn(x, i) == \E j \in 1..i : x[j].platform # Blank
             value(x, i, pf) == IF i = 0 THEN x[1].uaOs
                                ELSE IF knownIn(x, i) THEN DeviceOsOf(x[i], pf) ELSE Blank
             f == [i \in 0..n |-> value(q, i, s.platform)]
             g == [i \in 0..(n + 1) |-> value(p, i, platform)]
  <2>1. ExpectedDeviceOs(q) = EarliestNonBlank(f) /\ s.deviceOs = ExpectedDeviceOs(q)
    BY DEF Fits, MatchesEvents, ExpectedDeviceOs, n
  <2>2. ExpectedDeviceOs(p) = EarliestNonBlank(g)
    BY <1>1, <1>2, <1>6 DEF ExpectedDeviceOs
  \* The session has a platform as soon as one of its events has.
  <2>3. s.platform = Blank <=> \A i \in 1..n : q[i].platform = Blank
    <3> DEFINE h == [i \in DOMAIN q |-> q[i].platform]
    <3>1. DOMAIN h = 1..n /\ 1..n \subseteq Nat /\ \A i \in 1..n : h[i] = q[i].platform
      BY <1>2
    <3>2. s.platform = EarliestNonBlank(h)
      BY DEF Fits, MatchesEvents
    <3> HIDE DEF h
    <3>3. QED
      BY <3>1, <3>2, EarliestIs
  <2>4. ASSUME NEW i \in 0..n PROVE g[i] = f[i]
    <3>1. g[i] = value(p, i, platform) /\ f[i] = value(q, i, s.platform)
      BY <1>2
    <3>2. CASE i = 0
      BY <1>2, <3>1, <3>2
    <3>3. CASE i \in 1..n
      <4>1. i # 0 /\ p[i] = q[i] /\ \A j \in 1..i : j \in 1..n /\ p[j] = q[j]
        BY <1>2, <3>3
      <4>2. knownIn(p, i) <=> knownIn(q, i)
        BY <4>1
      <4>3. knownIn(q, i) => s.platform # Blank
        BY <2>3, <4>1
      <4>4. knownIn(q, i) => platform = s.platform
        BY <4>3 DEF platform, FirstNonBlank
      <4> HIDE DEF f, g
      <4>5. QED
        BY <3>1, <4>1, <4>2, <4>4
    <3>4. QED
      BY <1>2, <3>2, <3>3
  <2>5. g[n + 1] = IF platform # Blank THEN DeviceOsOf(e, platform) ELSE Blank
    <3>1. n + 1 \in 0..(n + 1) /\ n + 1 # 0 /\ \A j \in 1..(n + 1) : j \in 1..n \/ j = n + 1
      BY <1>2
    <3>2. knownIn(p, n + 1) <=> s.platform # Blank \/ e.platform # Blank
      BY <1>2, <2>3, <3>1
    <3>3. knownIn(p, n + 1) <=> platform # Blank
      BY <3>2 DEF platform, FirstNonBlank
    <3>4. g[n + 1] = value(p, n + 1, platform)
      BY <3>1
    <3> HIDE DEF g
    <3>5. QED
      BY <1>2, <3>1, <3>3, <3>4
  <2>6. EarliestNonBlank(g) = FirstNonBlank(EarliestNonBlank(f), g[n + 1])
    <3>1. DOMAIN f = 0..n /\ DOMAIN g = 0..(n + 1) /\ n \in Nat /\ 0 <= n + 1
      BY <1>2
    <3> HIDE DEF f, g
    <3>2. QED
      BY <2>4, <3>1, EarliestAppended
  <2> HIDE DEF f, g
  <2>7. QED
    BY <1>1, <2>1, <2>2, <2>5, <2>6 DEF FillDevice, FirstNonBlank, DeviceOsOf
<1>8. QED
  BY <1>1, <1>2, <1>3, <1>4, <1>5, <1>6, <1>7 DEF Fits, MatchesEvents, u, p

\* p and the first n elements of q.
Joined(p, q, n) == [i \in 1..(Len(p) + n) |-> IF i <= Len(p) THEN p[i] ELSE q[i - Len(p)]]

LEMMA JoinedSteps ==
    ASSUME NEW p \in Seq(Event), NEW q \in Seq(Event)
    PROVE  /\ Joined(p, q, 0) = p /\ Joined(p, q, Len(q)) = p \o q
           /\ \A n \in 0..(Len(q) - 1) : Joined(p, q, n + 1) = Append(Joined(p, q, n), q[n + 1])
<1>1. /\ Len(p) \in Nat /\ Len(q) \in Nat /\ p = [i \in 1..Len(p) |-> p[i]]
      /\ \A i \in 1..Len(p) : p[i] \in Event
      /\ \A i \in 1..Len(q) : q[i] \in Event
  OBVIOUS
<1>2. Joined(p, q, 0) = p
  <2>1. Joined(p, q, 0) = [i \in 1..Len(p) |-> p[i]]
    BY <1>1 DEF Joined
  <2>2. QED
    BY <1>1, <2>1
<1>3. Joined(p, q, Len(q)) = p \o q
  <2> DEFINE c == p \o q
             k == Len(p) + Len(q)
  <2>1. c \in Seq(Event) /\ Len(c) = k
        /\ \A i \in 1..k : c[i] = IF i <= Len(p) THEN p[i] ELSE q[i - Len(p)]
    BY ConcatProperties
  <2> HIDE DEF c, k
  <2>2. c = [i \in 1..k |-> c[i]]
    BY <2>1
  <2>3. c = [i \in 1..k |-> IF i <= Len(p) THEN p[i] ELSE q[i - Len(p)]]
    BY <2>1, <2>2
  <2>4. QED
    BY <2>3 DEF Joined, c, k
<1>4. ASSUME NEW n \in 0..(Len(q) - 1)
      PROVE  Joined(p, q, n + 1) = Append(Joined(p, q, n), q[n + 1])
  <2> DEFINE j == Joined(p, q, n)
             k == Joined(p, q, n + 1)
             m == Len(p) + n
  <2>1. m \in Nat /\ n \in Nat /\ Len(p) + (n + 1) = m + 1 /\ n + 1 \in 1..Len(q)
    BY <1>1
  <2>2. j \in Seq(Event) /\ Len(j) = m
    <3>1. \A i \in 1..m : j[i] \in Event
      <4> SUFFICES ASSUME NEW i \in 1..m PROVE j[i] \in Event
        OBVIOUS
      <4>1. i \in 1..Len(p) \/ (~(i <= Len(p)) /\ i - Len(p) \in 1..Len(q))
        BY <1>1
      <4>2. j[i] = IF i <= Len(p) THEN p[i] ELSE q[i - Len(p)]
        BY DEF Joined
      <4>3. CASE i \in 1..Len(p)
        <5>1. j[i] = p[i]
          BY <1>1, <4>2, <4>3
        <5>2. QED
          BY <4>3, <5>1
      <4>4. CASE ~(i <= Len(p)) /\ i - Len(p) \in 1..Len(q)
        <5>1. j[i] = q[i - Len(p)]
          BY <4>2, <4>4
        <5>2. QED
          BY <4>4, <5>1
      <4>5. QED
        BY <4>1, <4>3, <4>4
    <3>2. j = [i \in 1..m |-> j[i]]
      BY DEF Joined
    <3> HIDE DEF j, m
    <3>3. m \in Nat /\ j \in [1..m -> Event]
      BY <2>1, <3>1, <3>2
    <3>4. QED
      BY <3>3, SMTT(30)
  <2>3. k = [i \in 1..(m + 1) |-> IF i <= Len(p) THEN p[i] ELSE q[i - Len(p)]]
    BY <2>1 DEF Joined
  <2>4. \A i \in 1..m : k[i] = j[i]
    BY <2>1, <2>3 DEF Joined
  <2>5. k[m + 1] = q[n + 1]
    <3>1. m + 1 \in 1..(m + 1) /\ ~(m + 1 <= Len(p)) /\ m + 1 - Len(p) = n + 1
      BY <1>1, <2>1
    <3>2. QED
      BY <2>3, <3>1
  <2>6. Append(j, q[n + 1]) = [i \in 1..(m + 1) |-> IF i <= m THEN j[i] ELSE q[n + 1]]
    <3> HIDE DEF j, k, m
    <3>1. QED
      BY <2>1, <2>2
  <2>7. DOMAIN k = 1..(m + 1) /\ k = [i \in 1..(m + 1) |-> k[i]]
    BY <2>3
  <2> HIDE DEF j, k, m
  <2>8. \A i \in 1..(m + 1) : k[i] = IF i <= m THEN j[i] ELSE q[n + 1]
    <3>1. \A i \in 1..(m + 1) : i \in 1..m \/ (i = m + 1 /\ ~(i <= m))
      BY <2>1
    <3>2. QED
      BY <2>4, <2>5, <3>1
  <2>9. k = Append(j, q[n + 1])
    BY <2>6, <2>7, <2>8
  <2>10. QED
    BY <2>9 DEF j, k
<1>5. QED
  BY <1>2, <1>3, <1>4

\* The sorted window has the events of the window, as many, and no other.
LEMMA SortedWindow ==
    ASSUME NEW evs \in Seq(Event), evs # <<>>
    PROVE  /\ SortByClientTs(evs) \in Seq(Event)
           /\ Len(SortByClientTs(evs)) = Len(evs) /\ Len(evs) \in Nat /\ Len(evs) >= 1
           /\ TimeOrder(evs) \in [1..Len(evs) -> 1..Len(evs)]
           /\ \A i \in 1..Len(evs) : \E m \in 1..Len(evs) : SortByClientTs(evs)[m] = evs[i]
           /\ \A m \in 1..Len(evs) : \E i \in 1..Len(evs) : SortByClientTs(evs)[m] = evs[i]
<1> DEFINE n == Len(evs)
           o == TimeOrder(evs)
           sorted == SortByClientTs(evs)
<1>1. n \in Nat /\ n >= 1 /\ DOMAIN evs = 1..n /\ \A i \in 1..n : evs[i] \in Event
  OBVIOUS
<1>2. \A i \in 1..n : ClientTs(evs[i]) \in Int
  BY <1>1, AggAssumption DEF ClientTs
<1>3. o \in [1..n -> 1..n] /\ \A i \in 1..n : \E m \in 1..n : o[m] = i
  BY <1>1, <1>2, TimeOrderSorts
<1>4. sorted = [m \in 1..n |-> evs[o[m]]]
  BY <1>1 DEF SortByClientTs, Reordered
<1> HIDE DEF n, o, sorted
<1>5. \A m \in 1..n : o[m] \in 1..n /\ sorted[m] = evs[o[m]] /\ sorted[m] \in Event
  BY <1>1, <1>3, <1>4
<1>6. sorted \in Seq(Event) /\ Len(sorted) = n
  <2>1. sorted = [m \in 1..n |-> sorted[m]]
    BY <1>4
  <2>2. QED
    BY <1>1, <1>5, <2>1
<1>7. ASSUME NEW i \in 1..n PROVE \E m \in 1..n : sorted[m] = evs[i]
  <2>1. PICK m \in 1..n : o[m] = i
    BY <1>3
  <2>2. sorted[m] = evs[i]
    BY <1>5, <2>1
  <2>3. QED
    BY <2>2
<1>8. QED
  BY <1>1, <1>3, <1>5, <1>6, <1>7 DEF n, o, sorted

\* The window function makes of a session, or of none, what its events and those of
\* the window say, in the order of the loop.
LEMMA WindowFits ==
    ASSUME NEW old, NEW pre, NEW evs \in Seq(Event), evs # <<>>, NEW w,
           (old = NoSession /\ pre = <<>>) \/ (old # NoSession /\ Fits(old, pre))
    PROVE  Fits(ProcessWindow(old, evs, w), pre \o SortByClientTs(evs))
<1> DEFINE sorted == SortByClientTs(evs)
           n      == Len(sorted)
           first  == IF old = NoSession THEN NewSession(sorted[1]) ELSE old
           s0     == [first EXCEPT !.latestWindow = w]
           f      == Updated(s0, sorted)
           Bad    == {m \in Nat : m \in 1..n /\ ~Fits(f[m], Joined(pre, sorted, m))}
<1>1. /\ sorted \in Seq(Event) /\ n \in Nat /\ n >= 1
      /\ \A m \in 1..n : sorted[m] \in Event
  <2>1. sorted \in Seq(Event) /\ n = Len(evs) /\ Len(evs) \in Nat /\ Len(evs) >= 1
    BY SortedWindow
  <2> HIDE DEF sorted
  <2>2. QED
    BY <2>1
<1>2. ProcessWindow(old, evs, w) = [f[n] EXCEPT !.playCount = PlayCount(sorted)]
  BY DEF ProcessWindow
<1>3. (old = NoSession => s0 = [NewSession(sorted[1]) EXCEPT !.latestWindow = w])
      /\ (old # NoSession => Fits(s0, pre))
  BY FitsWith
<1> HIDE DEF sorted, n, s0
<1>4. f[0] = s0 /\ \A m \in 1..n : f[m] = UpdateMetadata(f[m - 1], sorted[m])
  BY <1>1, UpdatedTurns DEF n
<1> HIDE DEF f
<1>5. pre \in Seq(Event)
  <2>1. <<>> \in Seq(Event)
    OBVIOUS
  <2>2. QED
    BY <2>1 DEF Fits
<1>6. /\ Joined(pre, sorted, 0) = pre /\ Joined(pre, sorted, n) = pre \o sorted
      /\ \A m \in 0..(n - 1) :
            Joined(pre, sorted, m + 1) = Append(Joined(pre, sorted, m), sorted[m + 1])
  <2>1. ASSUME NEW q \in Seq(Event)
        PROVE  /\ Joined(pre, q, 0) = pre /\ Joined(pre, q, Len(q)) = pre \o q
               /\ \A m \in 0..(Len(q) - 1) :
                     Joined(pre, q, m + 1) = Append(Joined(pre, q, m), q[m + 1])
    BY <1>5, JoinedSteps
  <2>2. QED
    BY <1>1, <2>1, Zenon DEF n
<1>7. Fits(f[1], Joined(pre, sorted, 1))
  <2>1. f[1] = UpdateMetadata(s0, sorted[1]) /\ Joined(pre, sorted, 1) = Append(pre, sorted[1])
    <3>1. 1 \in 1..n /\ 0 \in 0..(n - 1) /\ 1 - 1 = 0 /\ 0 + 1 = 1
      BY <1>1
    <3>2. QED
      BY <1>4, <1>6, <3>1
  <2>2. sorted[1] \in Event
    BY <1>1
  <2>3. CASE old = NoSession
    <3>1. Append(pre, sorted[1]) = <<sorted[1]>>
      BY <2>2, <2>3
    <3>2. s0 = [NewSession(sorted[1]) EXCEPT !.latestWindow = w]
      BY <1>3, <2>3
    <3>3. Fits(UpdateMetadata([NewSession(sorted[1]) EXCEPT !.latestWindow = w], sorted[1]),
               <<sorted[1]>>)
      BY <2>2, FirstEventFits
    <3>4. QED
      BY <2>1, <3>1, <3>2, <3>3, Zenon
  <2>4. CASE old # NoSession
    BY <1>3, <2>1, <2>2, <2>4, NextEventFits
  <2>5. QED
    BY <2>3, <2>4
<1>8. ASSUME NEW m \in Nat, m \in 1..n, m # 1, Fits(f[m - 1], Joined(pre, sorted, m - 1))
      PROVE  Fits(f[m], Joined(pre, sorted, m))
  <2>1. m - 1 \in 0..(n - 1) /\ (m - 1) + 1 = m
    BY <1>1, <1>8
  <2>2. Joined(pre, sorted, m) = Append(Joined(pre, sorted, m - 1), sorted[m])
    BY <1>6, <2>1
  <2>3. f[m] = UpdateMetadata(f[m - 1], sorted[m]) /\ sorted[m] \in Event
    BY <1>1, <1>4, <1>8
  <2>4. QED
    BY <1>8, <2>2, <2>3, NextEventFits
<1>9. Bad = {}
  <2> SUFFICES ASSUME Bad # {} PROVE FALSE
    OBVIOUS
  <2>1. PICK m \in Bad : \A k \in Bad : m <= k
    <3> HIDE DEF Fits
    <3>1. Bad \in SUBSET Nat
      OBVIOUS
    <3> HIDE DEF Bad
    <3>2. QED
      BY <3>1, Least
  <2>2. m \in Nat /\ m \in 1..n /\ m # 1
    BY <1>7
  <2>3. m - 1 \in Nat /\ m - 1 \in 1..n /\ ~(m <= m - 1)
    BY <1>1, <2>2
  <2>4. Fits(f[m - 1], Joined(pre, sorted, m - 1))
    BY <2>1, <2>3
  <2>5. QED
    BY <1>8, <2>1, <2>2, <2>4
<1>10. Fits(f[n], pre \o sorted)
  <2>1. n \in 1..n
    BY <1>1
  <2>2. QED
    BY <1>1, <1>6, <1>9, <2>1
<1>11. Fits([f[n] EXCEPT !.playCount = PlayCount(sorted)], pre \o sorted)
  BY <1>10, FitsWith
<1>12. QED
  BY <1>2, <1>11 DEF sorted

\* The count of a window whose events are of one session.
LEMMA WindowCounts ==
    ASSUME NEW old, NEW pre, NEW evs \in Seq(Event), evs # <<>>, NEW w,
           (old = NoSession /\ pre = <<>>) \/ (old # NoSession /\ Fits(old, pre)),
           \A i, j \in 1..Len(evs) : VideoSessionId(evs[i]) = VideoSessionId(evs[j])
    PROVE  ProcessWindow(old, evs, w).playCount =
               IF \E i \in 1..Len(evs) : IsPlay(evs[i]) THEN 1 ELSE 0
<1> DEFINE sorted == SortByClientTs(evs)
           n   == Len(evs)
           ids == {VideoSessionId(sorted[i]) : i \in {j \in DOMAIN sorted : IsPlay(sorted[j])}}
           s   == ProcessWindow(old, evs, w)
           k   == VideoSessionId(evs[1])
<1>1. /\ DOMAIN sorted = 1..n
      /\ \A i \in 1..n : \E m \in 1..n : sorted[m] = evs[i]
      /\ \A m \in 1..n : \E i \in 1..n : sorted[m] = evs[i]
  <2>1. /\ sorted \in Seq(Event) /\ Len(sorted) = n
        /\ \A i \in 1..n : \E m \in 1..n : sorted[m] = evs[i]
        /\ \A m \in 1..n : \E i \in 1..n : sorted[m] = evs[i]
    BY SortedWindow
  <2> HIDE DEF sorted, n
  <2>2. QED
    BY <2>1
<1>2. s.playCount = Cardinality(ids)
  <2> DEFINE first  == IF old = NoSession THEN NewSession(sorted[1]) ELSE old
             filled == Updated([first EXCEPT !.latestWindow = w], sorted)[Len(sorted)]
  <2>1. s = [filled EXCEPT !.playCount = PlayCount(sorted)]
    BY DEF ProcessWindow
  <2> HIDE DEF filled
  <2>2. IsSession(s)
    <3>1. Fits(s, pre \o sorted)
      BY WindowFits
    <3>2. QED
      BY <3>1 DEF Fits
  <2> HIDE DEF s, filled, sorted
  <2>3. "playCount" \in DOMAIN filled
    <3>1. DOMAIN s = DOMAIN filled
      BY <2>1
    <3>2. "playCount" \in DOMAIN s
      BY <2>2 DEF IsSession
    <3>3. QED
      BY <3>1, <3>2
  <2>4. s.playCount = PlayCount(sorted)
    BY <2>1, <2>3
  <2>5. QED
    BY <2>4 DEF PlayCount
<1> HIDE DEF sorted, s, n
<1>3. CASE \E i \in 1..n : IsPlay(evs[i])
  <2>1. \A m \in 1..n : VideoSessionId(sorted[m]) = k
    <3>1. 1 \in 1..n
      <4>1. n \in Nat /\ \E i \in 1..n : TRUE
        BY <1>3 DEF n
      <4>2. QED
        BY <4>1
    <3>2. SUFFICES ASSUME NEW m \in 1..n
                   PROVE  VideoSessionId(sorted[m]) = VideoSessionId(evs[1])
      OBVIOUS
    <3>3. PICK i \in 1..n : sorted[m] = evs[i]
      BY <1>1
    <3>4. VideoSessionId(evs[i]) = VideoSessionId(evs[1])
      BY <3>1 DEF n
    <3>5. QED
      BY <3>3, <3>4
  <2>2. \E m \in 1..n : IsPlay(sorted[m])
    BY <1>1, <1>3
  <2>3. ids \subseteq {k}
    BY <1>1, <2>1
  <2>4. k \in ids
    <3>1. PICK m \in 1..n : IsPlay(sorted[m])
      BY <2>2
    <3>2. VideoSessionId(sorted[m]) \in ids
      BY <1>1, <3>1
    <3>3. QED
      BY <2>1, <3>2
  <2>5. ids = {k}
    BY <2>3, <2>4
  <2>6. QED
    BY <1>2, <1>3, <2>5, FS_Singleton DEF s, n
<1>4. CASE ~\E i \in 1..n : IsPlay(evs[i])
  <2>1. ids = {}
    BY <1>1, <1>4
  <2>2. QED
    BY <1>2, <1>4, <2>1, FS_EmptySet DEF s, n
<1>5. QED
  BY <1>3, <1>4

-----------------------------------------------------------------------------
(* What sessions are built from.                                           *)

\* The events of records, in a log.
EventsIn(lg, recs) == [i \in DOMAIN recs |-> lg[recs[i][1]][recs[i][2]]]

\* The log holds the records.
Held(lg, recs) ==
    recs \in Seq(Record) /\ \A i \in 1..Len(recs) : recs[i][2] <= Len(lg[recs[i][1]])

\* Every session is what the events it was built from say.
Built(lg, st, sn) ==
    \A k \in Key :
        /\ Held(lg, sn[k])
        /\ \/ st[k] = NoSession /\ sn[k] = <<>>
           \/ st[k] # NoSession /\ Fits(st[k], EventsIn(lg, sn[k]))

\* A session that went out counts one play if its window has one.
CountsOnePlay(lg, o) ==
    o.kind = "session" =>
        /\ Held(lg, o.recs)
        /\ o.session.playCount =
               IF \E i \in DOMAIN o.recs : IsPlay(EventsIn(lg, o.recs)[i]) THEN 1 ELSE 0

LiveBuilt == Built(log, state, seen)
CkptBuilt == ckpt # NoCheckpoint => Built(log, ckpt.state, ckpt.seen)
AllCounted == \A o \in Outputs : CountsOnePlay(log, o)
Contents  == LiveBuilt /\ CkptBuilt /\ AllCounted

\* A session is not the absence of one.
LEMMA SessionIsSome ==
    ASSUME NEW s, IsSession(s)
    PROVE  s # NoSession
<1>1. "vsid" \in DOMAIN s
  BY DEF IsSession
<1>2. "vsid" \notin DOMAIN NoSession
  BY DEF NoSession
<1>3. QED
  BY <1>1, <1>2

LEMMA HeldFacts ==
    ASSUME NEW lg \in [Subtask -> Seq(Event)], NEW recs, Held(lg, recs)
    PROVE  /\ EventsIn(lg, recs) \in Seq(Event) /\ Len(EventsIn(lg, recs)) = Len(recs)
           /\ Len(recs) \in Nat /\ DOMAIN recs = 1..Len(recs)
           /\ \A i \in 1..Len(recs) :
                 recs[i][1] \in Subtask /\ recs[i][2] \in 1..Len(lg[recs[i][1]])
<1> DEFINE n == Len(recs)
           f == EventsIn(lg, recs)
<1>1. /\ recs \in Seq(Record) /\ n \in Nat /\ DOMAIN recs = 1..n
      /\ \A i \in 1..n : recs[i] \in Record
  BY DEF Held
<1>2. \A i \in 1..n : recs[i][1] \in Subtask /\ recs[i][2] \in Nat \ {0}
                      /\ recs[i][2] <= Len(lg[recs[i][1]])
  BY <1>1 DEF Held, Record
<1>3. \A s \in Subtask : Len(lg[s]) \in Nat /\ \A j \in 1..Len(lg[s]) : lg[s][j] \in Event
  <2> SUFFICES ASSUME NEW s \in Subtask
               PROVE  Len(lg[s]) \in Nat /\ \A j \in 1..Len(lg[s]) : lg[s][j] \in Event
    OBVIOUS
  <2>1. lg[s] \in Seq(Event)
    OBVIOUS
  <2>2. QED
    BY <2>1
<1>4. \A i \in 1..n : recs[i][2] \in 1..Len(lg[recs[i][1]])
  BY <1>2, <1>3
<1>5. f = [i \in 1..n |-> lg[recs[i][1]][recs[i][2]]]
  BY <1>1 DEF EventsIn
<1> HIDE DEF f, n
<1>6. f = [i \in 1..n |-> f[i]] /\ \A i \in 1..n : f[i] \in Event
  <2>1. f = [i \in 1..n |-> f[i]]
    BY <1>5
  <2>2. ASSUME NEW i \in 1..n
        PROVE  f[i] \in Event
    <3>1. f[i] = lg[recs[i][1]][recs[i][2]]
      BY <1>5
    <3>2. recs[i][1] \in Subtask /\ recs[i][2] \in 1..Len(lg[recs[i][1]])
      BY <1>2, <1>4
    <3>3. QED
      BY <1>3, <3>1, <3>2
  <2>3. QED
    BY <2>1, <2>2
<1>7. f \in Seq(Event) /\ Len(f) = n
  <2>1. n \in Nat /\ f \in [1..n -> Event]
    BY <1>1, <1>6
  <2>2. QED
    BY <2>1, SMTT(30)
<1>8. QED
  BY <1>1, <1>2, <1>4, <1>7 DEF f, n

\* A longer log holds the same events.
LEMMA EventsStay ==
    ASSUME NEW f \in [Subtask -> Seq(Event)], NEW g \in [Subtask -> Seq(Event)], Grows(f, g),
           NEW recs, Held(f, recs)
    PROVE  Held(g, recs) /\ EventsIn(g, recs) = EventsIn(f, recs)
<1>1. /\ Len(recs) \in Nat /\ DOMAIN recs = 1..Len(recs)
      /\ \A i \in 1..Len(recs) : recs[i][1] \in Subtask /\ recs[i][2] \in 1..Len(f[recs[i][1]])
  BY HeldFacts
<1>2. \A s \in Subtask : Len(f[s]) \in Nat /\ Len(g[s]) \in Nat /\ Len(f[s]) <= Len(g[s])
  BY DEF Grows
<1>3. \A i \in 1..Len(recs) :
          /\ recs[i][2] <= Len(g[recs[i][1]])
          /\ g[recs[i][1]][recs[i][2]] = f[recs[i][1]][recs[i][2]]
  BY <1>1, <1>2 DEF Grows
<1>4. Held(g, recs)
  BY <1>3 DEF Held
<1>5. EventsIn(g, recs) = EventsIn(f, recs)
  BY <1>1, <1>3 DEF EventsIn
<1>6. QED
  BY <1>4, <1>5

LEMMA BuiltStays ==
    ASSUME NEW f \in [Subtask -> Seq(Event)], NEW g \in [Subtask -> Seq(Event)], Grows(f, g),
           NEW st, NEW sn, Built(f, st, sn)
    PROVE  Built(g, st, sn)
<1> SUFFICES ASSUME NEW k \in Key
             PROVE  /\ Held(g, sn[k])
                    /\ \/ st[k] = NoSession /\ sn[k] = <<>>
                       \/ st[k] # NoSession /\ Fits(st[k], EventsIn(g, sn[k]))
  BY DEF Built
<1>1. /\ Held(f, sn[k])
      /\ \/ st[k] = NoSession /\ sn[k] = <<>>
         \/ st[k] # NoSession /\ Fits(st[k], EventsIn(f, sn[k]))
  BY DEF Built
<1>2. Held(g, sn[k]) /\ EventsIn(g, sn[k]) = EventsIn(f, sn[k])
  BY <1>1, EventsStay
<1>3. QED
  BY <1>1, <1>2

LEMMA CountStays ==
    ASSUME NEW f \in [Subtask -> Seq(Event)], NEW g \in [Subtask -> Seq(Event)], Grows(f, g),
           NEW o, CountsOnePlay(f, o)
    PROVE  CountsOnePlay(g, o)
<1> SUFFICES ASSUME o.kind = "session" PROVE CountsOnePlay(g, o)
  BY DEF CountsOnePlay
<1>1. Held(f, o.recs)
  BY DEF CountsOnePlay
<1>2. Held(g, o.recs) /\ EventsIn(g, o.recs) = EventsIn(f, o.recs)
  BY <1>1, EventsStay
<1>3. QED
  BY <1>2 DEF CountsOnePlay

\* The records of a window are used in the order its events are sorted in.
LEMMA UseOrderSorts ==
    ASSUME log \in [Subtask -> Seq(Event)], NEW recs, Held(log, recs), recs # <<>>
    PROVE  /\ Held(log, UseOrder(recs))
           /\ EventsIn(log, UseOrder(recs)) = SortByClientTs(EventsIn(log, recs))
<1> DEFINE n    == Len(recs)
           evs  == EventsIn(log, recs)
           o    == TimeOrder(evs)
           used == UseOrder(recs)
<1>1. /\ evs \in Seq(Event) /\ Len(evs) = n /\ n \in Nat /\ DOMAIN recs = 1..n
      /\ recs \in Seq(Record) /\ DOMAIN evs = 1..n
      /\ \A i \in 1..n : recs[i][2] <= Len(log[recs[i][1]])
  BY HeldFacts DEF Held
<1>2. evs # <<>>
  <2>1. n # 0
    BY <1>1
  <2> HIDE DEF evs
  <2>2. QED
    BY <1>1, <2>1
<1>3. o \in [1..n -> 1..n]
  <2>1. TimeOrder(evs) \in [1..Len(evs) -> 1..Len(evs)]
    BY <1>1, <1>2, SortedWindow
  <2>2. QED
    BY <1>1, <2>1
<1>4. EventsOf(recs) = evs
  BY DEF EventsOf, EventsIn, EventAt
<1>5. used = [i \in 1..n |-> recs[o[i]]]
  BY <1>1, <1>4 DEF UseOrder, Reordered
<1>6. SortByClientTs(evs) = [i \in 1..n |-> evs[o[i]]]
  BY <1>1 DEF SortByClientTs, Reordered
<1>7. \A i \in 1..n : evs[i] = log[recs[i][1]][recs[i][2]]
  BY <1>1 DEF EventsIn
<1> HIDE DEF used, o, evs, n
<1>8. \A i \in 1..n : o[i] \in 1..n /\ used[i] = recs[o[i]] /\ used[i] \in Record
  BY <1>1, <1>3, <1>5
<1>9. used \in Seq(Record) /\ Len(used) = n /\ DOMAIN used = 1..n
  <2>1. used = [i \in 1..n |-> used[i]]
    BY <1>5
  <2>2. QED
    BY <1>1, <1>8, <2>1
<1>10. Held(log, used)
  BY <1>1, <1>8, <1>9 DEF Held
<1>11. EventsIn(log, used) = SortByClientTs(evs)
  <2>1. EventsIn(log, used) = [i \in 1..n |-> log[used[i][1]][used[i][2]]]
    BY <1>9 DEF EventsIn
  <2>2. \A i \in 1..n : log[used[i][1]][used[i][2]] = evs[o[i]]
    BY <1>7, <1>8
  <2>3. QED
    BY <1>6, <2>1, <2>2
<1>12. QED
  BY <1>10, <1>11 DEF used, evs

\* Records that follow others: their events follow.
LEMMA EventsFollow ==
    ASSUME NEW lg \in [Subtask -> Seq(Event)], NEW p, NEW q, Held(lg, p), Held(lg, q)
    PROVE  Held(lg, p \o q) /\ EventsIn(lg, p \o q) = EventsIn(lg, p) \o EventsIn(lg, q)
<1> DEFINE a == EventsIn(lg, p)
           b == EventsIn(lg, q)
           r == p \o q
           m == Len(p)
           n == Len(q)
<1>1. /\ a \in Seq(Event) /\ Len(a) = m /\ m \in Nat /\ p \in Seq(Record) /\ DOMAIN p = 1..m
      /\ b \in Seq(Event) /\ Len(b) = n /\ n \in Nat /\ q \in Seq(Record) /\ DOMAIN q = 1..n
  BY HeldFacts DEF Held
<1>2. /\ \A i \in 1..m : a[i] = lg[p[i][1]][p[i][2]] /\ p[i][2] <= Len(lg[p[i][1]])
      /\ \A i \in 1..n : b[i] = lg[q[i][1]][q[i][2]] /\ q[i][2] <= Len(lg[q[i][1]])
  BY <1>1 DEF EventsIn, Held
<1>3. /\ r \in Seq(Record) /\ Len(r) = m + n /\ DOMAIN r = 1..(m + n)
      /\ \A i \in 1..(m + n) : r[i] = IF i <= m THEN p[i] ELSE q[i - m]
  <2>1. /\ r \in Seq(Record) /\ Len(r) = m + n
        /\ \A i \in 1..(m + n) : r[i] = IF i <= m THEN p[i] ELSE q[i - m]
    BY <1>1, ConcatProperties
  <2> HIDE DEF r
  <2>2. QED
    BY <2>1
<1>4. /\ Len(a \o b) = m + n /\ a \o b \in Seq(Event)
      /\ \A i \in 1..(m + n) : (a \o b)[i] = IF i <= m THEN a[i] ELSE b[i - m]
  <2>1. a \in Seq(Event) /\ b \in Seq(Event)
    BY <1>1
  <2> HIDE DEF a, b
  <2>2. /\ Len(a \o b) = Len(a) + Len(b) /\ a \o b \in Seq(Event)
        /\ \A i \in 1..(Len(a) + Len(b)) :
              (a \o b)[i] = IF i <= Len(a) THEN a[i] ELSE b[i - Len(a)]
    BY <2>1, ConcatProperties
  <2>3. QED
    BY <1>1, <2>2
<1>5. PICK c : c = a \o b
  OBVIOUS
<1>6. /\ c \in Seq(Event) /\ Len(c) = m + n
      /\ \A i \in 1..(m + n) : c[i] = IF i <= m THEN a[i] ELSE b[i - m]
  BY <1>4, <1>5
<1> HIDE DEF r, a, b, m, n
<1>7. \A i \in 1..(m + n) : (i \in 1..m /\ i <= m) \/ (~(i <= m) /\ i - m \in 1..n)
  BY <1>1
<1>8. \A i \in 1..(m + n) : r[i][2] <= Len(lg[r[i][1]]) /\ lg[r[i][1]][r[i][2]] = c[i]
  <2> SUFFICES ASSUME NEW i \in 1..(m + n)
               PROVE  r[i][2] <= Len(lg[r[i][1]]) /\ lg[r[i][1]][r[i][2]] = c[i]
    OBVIOUS
  <2>1. CASE i \in 1..m /\ i <= m
    <3>1. r[i] = p[i] /\ c[i] = a[i]
      BY <1>3, <1>6, <2>1
    <3>2. QED
      BY <1>2, <2>1, <3>1
  <2>2. CASE ~(i <= m) /\ i - m \in 1..n
    <3>1. r[i] = q[i - m] /\ c[i] = b[i - m]
      BY <1>3, <1>6, <2>2
    <3>2. QED
      BY <1>2, <2>2, <3>1
  <2>3. QED
    BY <1>7, <2>1, <2>2
<1>9. Held(lg, r)
  BY <1>3, <1>8 DEF Held
<1>10. EventsIn(lg, r) = c
  <2>1. EventsIn(lg, r) = [i \in 1..(m + n) |-> lg[r[i][1]][r[i][2]]]
    BY <1>3 DEF EventsIn
  <2>2. c = [i \in 1..(m + n) |-> c[i]]
    BY <1>6
  <2>3. QED
    BY <1>8, <2>1, <2>2
<1>11. QED
  BY <1>5, <1>9, <1>10 DEF r, a, b

-----------------------------------------------------------------------------
(* Every step keeps what the sessions were built from.                     *)

\* What stays as it is while the log grows.
LEMMA ContentsStay ==
    ASSUME IInv, Contents, log' \in [Subtask -> Seq(Event)], Grows(log, log')
    PROVE  /\ Built(log', state, seen)
           /\ ckpt # NoCheckpoint => Built(log', ckpt.state, ckpt.seen)
           /\ \A o \in Outputs : CountsOnePlay(log', o)
<1>1. log \in [Subtask -> Seq(Event)]
  BY DEF IInv, TypesOK
<1>2. Built(log', state, seen)
  BY <1>1, BuiltStays DEF Contents, LiveBuilt
<1>3. ASSUME ckpt # NoCheckpoint PROVE Built(log', ckpt.state, ckpt.seen)
  BY <1>1, <1>3, BuiltStays DEF Contents, CkptBuilt
<1>4. ASSUME NEW o \in Outputs PROVE CountsOnePlay(log', o)
  BY <1>1, <1>4, CountStays DEF Contents, AllCounted
<1>5. QED
  BY <1>2, <1>3, <1>4

\* The steps that use no window: at most a late event goes out.
LEMMA ReadingKeepsContents ==
    ASSUME IInv, Contents, log' \in [Subtask -> Seq(Event)], Grows(log, log'),
           state' = state, seen' = seen, ckpt' = ckpt,
           \A o \in Outputs' : o \in Outputs \/ o.kind = "late"
    PROVE  Contents'
<1>1. /\ Built(log', state, seen)
      /\ ckpt # NoCheckpoint => Built(log', ckpt.state, ckpt.seen)
      /\ \A o \in Outputs : CountsOnePlay(log', o)
  BY ContentsStay
<1>2. \A o \in Outputs' : CountsOnePlay(log', o)
  BY <1>1 DEF CountsOnePlay
<1>3. QED
  BY <1>1, <1>2 DEF Contents, LiveBuilt, CkptBuilt, AllCounted

\* The window function gets the events of a window in the order of arrival, all of
\* the window's key.
LEMMA WindowEvents ==
    ASSUME IInv, NEW k \in Key, NEW w \in Window, Open(k, w)
    PROVE  /\ log \in [Subtask -> Seq(Event)] /\ Held(log, windows[k][w])
           /\ windows[k][w] # <<>> /\ DOMAIN windows[k][w] = 1..Len(windows[k][w])
           /\ EventsOf(windows[k][w]) = EventsIn(log, windows[k][w])
           /\ EventsOf(windows[k][w]) \in Seq(Event) /\ EventsOf(windows[k][w]) # <<>>
           /\ Len(EventsOf(windows[k][w])) = Len(windows[k][w])
           /\ \A i \in 1..Len(windows[k][w]) : VideoSessionId(EventsOf(windows[k][w])[i]) = k
<1> DEFINE recs == windows[k][w]
           evs  == EventsOf(recs)
<1>1. /\ log \in [Subtask -> Seq(Event)] /\ pos \in [Subtask -> Nat]
      /\ \A s \in Subtask : pos[s] <= Len(log[s])
      /\ windows \in [Key -> [Window -> Seq(Record)]]
      /\ \A r \in Range(recs) : Located(log, pos, r, k, w)
  BY DEF IInv, TypesOK, LiveSound, Sound
<1>2. recs \in Seq(Record) /\ recs # <<>>
  BY <1>1 DEF Open
<1> HIDE DEF recs
<1>3. /\ Len(recs) \in Nat /\ Len(recs) # 0 /\ DOMAIN recs = 1..Len(recs)
      /\ \A i \in 1..Len(recs) : recs[i] \in Record
  BY <1>2
<1>4. \A i \in 1..Len(recs) : Located(log, pos, recs[i], k, w) /\ recs[i][1] \in Subtask
  BY <1>1, <1>3 DEF Range, Record
<1>5. \A i \in 1..Len(recs) : recs[i][2] <= Len(log[recs[i][1]])
  <2> SUFFICES ASSUME NEW i \in 1..Len(recs) PROVE recs[i][2] <= Len(log[recs[i][1]])
    OBVIOUS
  <2>1. recs[i][2] <= pos[recs[i][1]] /\ recs[i][1] \in Subtask /\ recs[i][2] \in Nat
    BY <1>3, <1>4 DEF Located, Record
  <2>2. pos[recs[i][1]] \in Nat /\ Len(log[recs[i][1]]) \in Nat
        /\ pos[recs[i][1]] <= Len(log[recs[i][1]])
    BY <1>1, <2>1
  <2>3. QED
    BY <2>1, <2>2
<1>6. Held(log, recs)
  BY <1>2, <1>5 DEF Held
<1>7. evs = EventsIn(log, recs)
  BY DEF EventsOf, EventsIn, EventAt
<1>8. evs \in Seq(Event) /\ Len(evs) = Len(recs)
  BY <1>1, <1>6, <1>7, HeldFacts
<1>9. \A i \in 1..Len(recs) : VideoSessionId(evs[i]) = k
  <2>1. \A i \in 1..Len(recs) : evs[i] = log[recs[i][1]][recs[i][2]]
    BY <1>3, <1>7 DEF EventsIn
  <2>2. QED
    BY <1>4, <2>1 DEF Located
<1> HIDE DEF evs
<1>10. evs # <<>>
  BY <1>3, <1>8
<1>11. QED
  BY <1>1, <1>2, <1>3, <1>6, <1>7, <1>8, <1>9, <1>10 DEF recs, evs

LEMMA FireKeepsContents ==
    ASSUME IInv, Contents, NEW k \in Key, NEW w \in Window, Fire(k, w)
    PROVE  Contents'
<1> DEFINE recs == windows[k][w]
           evs  == EventsOf(recs)
           used == UseOrder(recs)
           pre  == EventsIn(log, seen[k])
           s    == ProcessWindow(state[k], evs, w)
           new  == SessionOutput(k, w, s)
<1>1. /\ Open(k, w) /\ UNCHANGED <<log, ckpt>>
      /\ state' = [state EXCEPT ![k] = s] /\ seen' = [seen EXCEPT ![k] = seen[k] \o used]
      /\ Outputs' = Outputs \cup {new}
  BY DEF Fire, FirstDue, Due, Outputs
<1>2. new.recs = recs /\ new.session = s
  BY DEF SessionOutput
<1>3. /\ log \in [Subtask -> Seq(Event)] /\ Held(log, recs) /\ recs # <<>>
      /\ DOMAIN recs = 1..Len(recs) /\ evs = EventsIn(log, recs)
      /\ evs \in Seq(Event) /\ evs # <<>> /\ Len(evs) = Len(recs)
      /\ \A i \in 1..Len(evs) : VideoSessionId(evs[i]) = k
  BY <1>1, WindowEvents
<1>4. Held(log, used) /\ EventsIn(log, used) = SortByClientTs(evs)
  BY <1>3, UseOrderSorts
<1>5. /\ Held(log, seen[k]) /\ DOMAIN state = Key /\ DOMAIN seen = Key
      /\ (state[k] = NoSession /\ pre = <<>>) \/ (state[k] # NoSession /\ Fits(state[k], pre))
  <2>1. /\ Held(log, seen[k])
        /\ \/ state[k] = NoSession /\ seen[k] = <<>>
           \/ state[k] # NoSession /\ Fits(state[k], pre)
    BY DEF Contents, LiveBuilt, Built
  <2>2. seen[k] = <<>> => pre = <<>>
    <3>1. pre = [i \in DOMAIN seen[k] |-> log[seen[k][i][1]][seen[k][i][2]]]
      BY DEF EventsIn
    <3>2. DOMAIN <<>> = {} /\ <<>> \in Seq(Event)
      OBVIOUS
    <3>3. /\ pre \in Seq(Event) /\ Len(pre) = Len(seen[k])
      BY <1>3, <2>1, HeldFacts
    <3> HIDE DEF pre
    <3>4. QED
      BY <3>3
  <2>3. DOMAIN state = Key /\ DOMAIN seen = Key
    BY DEF IInv, LiveSound, Sound
  <2>4. QED
    BY <2>1, <2>2, <2>3
<1> HIDE DEF recs, evs, used, pre, s, new
<1>6. Fits(s, pre \o SortByClientTs(evs))
  BY <1>3, <1>5, WindowFits DEF s
<1>7. s.playCount = IF \E i \in 1..Len(evs) : IsPlay(evs[i]) THEN 1 ELSE 0
  <2>1. \A i, j \in 1..Len(evs) : VideoSessionId(evs[i]) = VideoSessionId(evs[j])
    BY <1>3
  <2>2. QED
    BY <1>3, <1>5, <2>1, WindowCounts DEF s
<1>8. /\ Held(log, seen[k] \o used)
      /\ EventsIn(log, seen[k] \o used) = pre \o SortByClientTs(evs)
  BY <1>3, <1>4, <1>5, EventsFollow DEF pre
<1>9. s # NoSession
  BY <1>6, SessionIsSome DEF Fits
<1>10. LiveBuilt'
  <2> SUFFICES ASSUME NEW l \in Key
               PROVE  /\ Held(log, seen'[l])
                      /\ \/ state'[l] = NoSession /\ seen'[l] = <<>>
                         \/ state'[l] # NoSession /\ Fits(state'[l], EventsIn(log, seen'[l]))
    BY <1>1 DEF LiveBuilt, Built
  <2>1. CASE l = k
    <3>1. state'[l] = s /\ seen'[l] = seen[k] \o used
      BY <1>1, <1>5, <2>1
    <3>2. QED
      BY <1>6, <1>8, <1>9, <3>1
  <2>2. CASE l # k
    <3>1. state'[l] = state[l] /\ seen'[l] = seen[l]
      BY <1>1, <1>5, <2>2
    <3>2. QED
      BY <3>1 DEF Contents, LiveBuilt, Built
  <2>3. QED
    BY <2>1, <2>2
<1>11. CkptBuilt'
  BY <1>1 DEF Contents, CkptBuilt
<1>12. CountsOnePlay(log, new)
  BY <1>2, <1>3, <1>7 DEF CountsOnePlay
<1>13. AllCounted'
  BY <1>1, <1>12 DEF Contents, AllCounted
<1>14. QED
  BY <1>10, <1>11, <1>13 DEF Contents

\* A key without a session has nothing it was built from.
LEMMA NothingIsBuilt ==
    ASSUME NEW lg
    PROVE  Held(lg, <<>>)
<1>1. <<>> \in Seq(Record) /\ Len(<<>>) = 0 /\ 1..0 = {}
  OBVIOUS
<1>2. QED
  BY <1>1 DEF Held

LEMMA ExpireStateKeepsContents ==
    ASSUME IInv, Contents, NEW k \in Key, ExpireState(k)
    PROVE  Contents'
<1>1. /\ UNCHANGED <<log, ckpt>> /\ Outputs' = Outputs
      /\ state' = [state EXCEPT ![k] = NoSession] /\ seen' = [seen EXCEPT ![k] = <<>>]
  BY DEF ExpireState, sinks, Outputs
<1>2. DOMAIN state = Key /\ DOMAIN seen = Key
  BY DEF IInv, LiveSound, Sound
<1>3. LiveBuilt'
  <2> SUFFICES ASSUME NEW l \in Key
               PROVE  /\ Held(log, seen'[l])
                      /\ \/ state'[l] = NoSession /\ seen'[l] = <<>>
                         \/ state'[l] # NoSession /\ Fits(state'[l], EventsIn(log, seen'[l]))
    BY <1>1 DEF LiveBuilt, Built
  <2>1. CASE l = k
    <3>1. state'[l] = NoSession /\ seen'[l] = <<>>
      BY <1>1, <1>2, <2>1
    <3>2. QED
      BY <3>1, NothingIsBuilt
  <2>2. CASE l # k
    <3>1. state'[l] = state[l] /\ seen'[l] = seen[l]
      BY <1>1, <1>2, <2>2
    <3>2. QED
      BY <3>1 DEF Contents, LiveBuilt, Built
  <2>3. QED
    BY <2>1, <2>2
<1>4. QED
  BY <1>1, <1>3 DEF Contents, CkptBuilt, AllCounted

LEMMA CheckpointKeepsContents ==
    ASSUME IInv, Contents, Checkpoint
    PROVE  Contents'
<1>1. /\ UNCHANGED <<log, state, seen>> /\ ckpt' = Snapshot /\ Outputs' = Outputs
  BY DEF Checkpoint, handler, Outputs
<1>2. Snapshot.state = state /\ Snapshot.seen = seen
  BY DEF Snapshot
<1>3. QED
  BY <1>1, <1>2 DEF Contents, LiveBuilt, CkptBuilt, AllCounted

LEMMA RestartKeepsContents ==
    ASSUME IInv, Contents, Restore \/ StartFromLatest
    PROVE  Contents'
<1>1. /\ UNCHANGED <<log, ckpt>> /\ Outputs' \subseteq Outputs
  BY DEF Restore, StartFromLatest, Fail, Outputs
<1>2. CkptBuilt' /\ AllCounted'
  BY <1>1 DEF Contents, CkptBuilt, AllCounted
<1>3. CASE Restore
  <2>1. ckpt # NoCheckpoint /\ state' = ckpt.state /\ seen' = ckpt.seen
    BY <1>3 DEF Restore
  <2>2. LiveBuilt'
    BY <1>1, <2>1 DEF Contents, LiveBuilt, CkptBuilt
  <2>3. QED
    BY <1>2, <2>2 DEF Contents
<1>4. CASE StartFromLatest
  <2>1. state' = [k \in Key |-> NoSession] /\ seen' = [k \in Key |-> <<>>]
    BY <1>4 DEF StartFromLatest
  <2>2. LiveBuilt'
    BY <2>1, NothingIsBuilt DEF LiveBuilt, Built
  <2>3. QED
    BY <1>2, <2>2 DEF Contents
<1>5. QED
  BY <1>3, <1>4

LEMMA NextKeepsContents == IInv /\ Contents /\ [Next]_vars => Contents'
<1> SUFFICES ASSUME IInv, Contents, [Next]_vars PROVE Contents'
  OBVIOUS
<1>1. log \in [Subtask -> Seq(Event)] /\ Grows(log, log)
  BY GrowsSelf DEF IInv, TypesOK
<1>2. ASSUME NEW s \in Subtask, NEW e \in Event, Arrive(s, e) PROVE Contents'
  <2>1. UNCHANGED <<state, seen, ckpt>> /\ Outputs' = Outputs
    BY <1>2 DEF Arrive, handler, sinks, Outputs
  <2>2. QED
    BY <1>2, <2>1, ArriveGrows, ReadingKeepsContents
<1>3. ASSUME NEW s \in Subtask, ReadOther(s) \/ ReadOnTime(s) \/ EmitWatermark(s)
      PROVE  Contents'
  <2>1. UNCHANGED <<log, state, seen, ckpt>> /\ Outputs' = Outputs
    BY <1>3 DEF ReadOther, ReadOnTime, EmitWatermark, handler, sinks, Outputs
  <2>2. QED
    BY <1>1, <2>1, ReadingKeepsContents
<1>4. ASSUME NEW s \in Subtask, ReadLate(s) PROVE Contents'
  <2>1. /\ UNCHANGED <<log, state, seen, ckpt>>
        /\ Outputs' = Outputs \cup {LateOutput(NextRecord(s))}
    BY <1>4 DEF ReadLate, handler, Outputs
  <2>2. LateOutput(NextRecord(s)).kind = "late"
    BY DEF LateOutput
  <2>3. \A o \in Outputs' : o \in Outputs \/ o.kind = "late"
    BY <2>1, <2>2
  <2>4. QED
    BY <1>1, <2>1, <2>3, ReadingKeepsContents
<1>5. CASE \E k \in Key, w \in Window : Fire(k, w)
  BY <1>5, FireKeepsContents
<1>6. CASE \E k \in Key : ExpireState(k)
  BY <1>6, ExpireStateKeepsContents
<1>10. CASE \E o \in sinkBuf : PutFails(o)
  <2>1. UNCHANGED <<log, state, seen, ckpt>> /\ Outputs' = Outputs
    BY <1>10 DEF PutFails, handler, Outputs
  <2>2. QED
    BY <1>1, <2>1, ReadingKeepsContents
<1>7. CASE Checkpoint \/ Restore \/ StartFromLatest
  BY <1>7, CheckpointKeepsContents, RestartKeepsContents
<1>8. CASE UNCHANGED vars
  <2>1. UNCHANGED <<log, state, seen, ckpt>> /\ Outputs' = Outputs
    BY <1>8 DEF vars, handler, sinks, Outputs
  <2>2. QED
    BY <1>1, <2>1, ReadingKeepsContents
<1>9. QED
  BY <1>2, <1>3, <1>4, <1>5, <1>6, <1>7, <1>8, <1>10 DEF Next

LEMMA InitImpliesContents == Init => Contents
<1> SUFFICES ASSUME Init PROVE Contents
  OBVIOUS
<1>1. /\ state = [k \in Key |-> NoSession] /\ seen = [k \in Key |-> <<>>]
      /\ ckpt = NoCheckpoint /\ Outputs = {}
  BY DEF Init, Outputs
<1>2. QED
  BY <1>1, NothingIsBuilt DEF Contents, LiveBuilt, Built, CkptBuilt, AllCounted

LEMMA ContentsImply ==
    ASSUME Contents
    PROVE  SessionContents /\ OnePlayPerWindow
<1>1. SessionContents
  BY DEF Contents, LiveBuilt, Built, Fits, SessionContents, EventsIn, EventsOf, EventAt
<1>2. OnePlayPerWindow
  <2> SUFFICES ASSUME NEW o \in Outputs, o.kind = "session"
               PROVE  o.session.playCount =
                          IF \E i \in DOMAIN o.recs : IsPlay(EventAt(o.recs[i])) THEN 1 ELSE 0
    BY DEF OnePlayPerWindow
  <2>1. o.session.playCount =
            IF \E i \in DOMAIN o.recs : IsPlay(EventsIn(log, o.recs)[i]) THEN 1 ELSE 0
    BY DEF Contents, AllCounted, CountsOnePlay
  <2>2. \A i \in DOMAIN o.recs : EventsIn(log, o.recs)[i] = EventAt(o.recs[i])
    BY DEF EventsIn, EventAt
  <2>3. QED
    BY <2>1, <2>2
<1>3. QED
  BY <1>1, <1>2

LEMMA ContentsInvariance == Spec => []Contents
BY Invariance, InitImpliesContents, NextKeepsContents, PTL DEF Spec

-----------------------------------------------------------------------------
(* The theorems.                                                           *)

\* Every variable of the job has its type, whatever is read and restored
\* (ProcessVideoMetrics.load and the runtime under it).
THEOREM TypeCorrect == Spec => []TypeOK
BY Invariance, InvariantImplies, PTL

\* Nothing but a failed put loses a video event read since the job started from
\* LATEST, however often it was restored: the event is in a window, or in a session
\* or late event that a sink holds, that is in its stream or whose put failed
\* (windows, side output and sinks under one checkpoint, as load wires them).
THEOREM LostOnlyByPutCorrect == Spec => []LostOnlyByPut
BY Invariance, InvariantImplies, PTL

\* In one run of the job no event is used by two outputs, and none that was
\* used is still in a window (the tumbling windows of load).
THEOREM UsedOnceCorrect == Spec => []UsedOnce
BY Invariance, InvariantImplies, PTL

\* In one run of the job the handler works on the minutes of a session in their
\* order (the timers of the windows, and late events going to the side output).
THEOREM OrderCorrect == Spec => []MinutesInOrder
BY Invariance, InvariantImplies, PTL

\* A late event is behind one of its own subtask received more than the grace
\* period after the end of its minute (forBoundedOutOfOrderness in load).
THEOREM LateCorrect == Spec => []LateMeansOverdue
BY Invariance, InvariantImplies, PTL

\* The state of a session is what the events it was built from say: the earliest
\* start, every attribute from the first event that has it, whatever the grouping
\* into windows, the restarts and the expired states were (the sort in
\* PrismVideoSessionHandler.process, the loop of updateVideoSessionMetadata).
THEOREM ContentsCorrect == Spec => []SessionContents
BY ContentsInvariance, ContentsImply, PTL

\* A session that goes out counts one play if its window holds a play event and
\* none if not, however often the player sent it (Play.java).
THEOREM PlaysCorrect == Spec => []OnePlayPerWindow
BY ContentsInvariance, ContentsImply, PTL
=============================================================================
