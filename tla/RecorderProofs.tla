--------------------------- MODULE RecorderProofs ---------------------------
(***************************************************************************)
(* Theorems about Recorder: type correctness; that a capture is driven     *)
(* from at most one place, and none is left running behind everybody's     *)
(* back; that toggles act on what they decided; that rows are backed, what *)
(* is handed over stays whole and settled rows stay; and that Recorder     *)
(* implements RecordingLife; however many connections, watchers,           *)
(* recordings, tracks and errors there are.                                *)
(*                                                                         *)
(* OneHolder is not inductive: it does not say that a recorder about to be *)
(* stored, or a track about to be started, is one nobody else can reach.   *)
(* IInv counts what a handler has minted as its own from the moment it is  *)
(* minted (Claims), and says that the claims of the handlers, the slot's   *)
(* recorder and the meeting never overlap and that all of them speak of    *)
(* recordings already minted, so that the next one is free.  NoOrphan-     *)
(* Capture needs more: where handlers have recorders in their hands at     *)
(* all, and who may start (JInv).  The guard of the toggles keeps a        *)
(* decision standing until it is acted on (Guarded).  Audio is on disk     *)
(* before it is handed over, whatever has raced (OnDisk); the rows need    *)
(* one owner each, from the insert to the hand-over or the delete, and     *)
(* what each place of the owner says of its row (Ordered): without the     *)
(* places, a row could be Queued when a rollback still has to delete it.   *)
(* For RecordingLife it remains to say what a step does with each          *)
(* recording (Handled): nothing, or its owner goes on, takes it from or    *)
(* leaves it to the slot or the meeting, hands it over, drops it or fails. *)
(* The owner's places before and after are then the stages.                *)
(***************************************************************************)
EXTENDS Recorder, FiniteSetTheorems, TLAPS

Locals == [at : Places, rec : Recs \cup {None}, take : Recs \cup {None}, tracks : SeqRecs]

WatcherPlaces ==
  {"idle", "armed", "fired", "teardown", "join", "mark", "handoff", "enqueue"}

\* Where a handler works on tracks, and where on none.
OnTracks == Flipping \cup {"haltAll", "align", "trackWav", "trackQueue", "trackFail"}
NoTracks == WatcherPlaces \cup {"reserve", "toggle", "meetStart", "meetCheck",
                                "meetOpen", "meetLock"}

\* What the locals m of a handler say that it alone may put anywhere.
Claims(m, r) ==
  \/ m.take = r
  \/ m.at \in Minted /\ m.rec = r
  \/ m.at \notin Flipping /\ r \in Elems(m.tracks)
  \/ m.at \in Opening /\ m.rec <= r /\ r < m.rec + Tracks - Len(m.tracks)

\* The locals m of actor a when n is the next recording to be minted.
Shape(a, m, n) ==
  /\ m \in Locals
  /\ a \in Watchers => m.at \in WatcherPlaces
  /\ m.at \in OnRec => m.rec \in Recs
  /\ m.at \in OnTracks => m.tracks # <<>>
  /\ m.at \in NoTracks => m.tracks = <<>>
  /\ m.at \in Opening => Len(m.tracks) < Tracks /\ m.rec + Tracks - Len(m.tracks) <= n

Shapes == me = [a \in Actors |-> me[a]] /\ \A a \in Actors : Shape(a, me[a], nextRec)

Exclusive ==
  /\ \A r \in Recs : \A a, b \in Actors :
       Claims(me[a], r) /\ Claims(me[b], r) => a = b
  /\ \A r \in Recs : \A a \in Actors :
       Claims(me[a], r) => handle # r /\ r \notin Elems(meeting) /\ r < nextRec
  /\ \A r \in Recs : handle = r => r \notin Elems(meeting) /\ r < nextRec
  /\ \A r \in Elems(meeting) : r < nextRec

Flags == activePaused \in BOOLEAN /\ meetingPaused \in BOOLEAN /\ raced \in BOOLEAN

Stores ==
  /\ active \in Recs \cup {None}
  /\ handle \in Recs \cup {None}
  /\ meeting \in SeqRecs
  /\ activeLock \in Clients \cup {None}
  /\ meetingLock \in Clients \cup {None}
  /\ toggleGuard \in Clients \cup {None}
  /\ cap \in [Recs -> {"none", "live", "ending", "ended"}]
  /\ row \in [Recs -> Statuses]
  /\ wav \in [Recs -> Recs \cup {None}]
  /\ handed \subseteq Recs
  /\ nextRec \in 1 .. MaxRecs + 1
  /\ faults \in 0 .. MaxFaults
  /\ lost \subseteq Recs /\ late \subseteq Recs

IInv == Flags /\ Stores /\ Shapes /\ Exclusive

-----------------------------------------------------------------------------
(* Sequences of recordings.                                                *)

LEMMA SeqRecsAre ==
  ASSUME NEW t
  PROVE  t \in SeqRecs <=> t \in Seq(Recs) /\ Len(t) <= Tracks
<1>1. ASSUME t \in SeqRecs PROVE t \in Seq(Recs) /\ Len(t) <= Tracks
  <2>1. PICK n \in 0 .. Tracks : t \in [1 .. n -> Recs]
    BY <1>1 DEF SeqRecs
  <2>2. n \in Nat
    BY <2>1, BoundAssumption
  <2> QED
    BY <2>1, <2>2, BoundAssumption
<1>2. ASSUME t \in Seq(Recs), Len(t) <= Tracks PROVE t \in SeqRecs
  <2>1. Len(t) \in 0 .. Tracks /\ t \in [1 .. Len(t) -> Recs]
    BY <1>2, BoundAssumption
  <2> QED
    BY <2>1 DEF SeqRecs
<1> QED
  BY <1>1, <1>2

LEMMA EmptySeq == <<>> \in SeqRecs /\ Elems(<<>>) = {}
<1>1. <<>> \in Seq(Recs) /\ Len(<<>>) <= Tracks
  BY BoundAssumption
<1>2. <<>> \in SeqRecs
  BY <1>1, SeqRecsAre, Zenon
<1>3. Elems(<<>>) = {}
  BY DEF Elems
<1> QED
  BY <1>2, <1>3

LEMMA HeadTail ==
  ASSUME NEW t \in SeqRecs, t # <<>>
  PROVE  /\ Head(t) \in Recs /\ Head(t) \in Elems(t)
         /\ Tail(t) \in SeqRecs /\ Elems(Tail(t)) \subseteq Elems(t)
         /\ Len(t) # 1 => Tail(t) # <<>>
<1>1. t \in Seq(Recs) /\ Len(t) <= Tracks /\ Len(t) \in Nat /\ Len(t) # 0
  BY SeqRecsAre
<1>2. Head(t) = t[1] /\ 1 \in DOMAIN t
  BY <1>1
<1>3. /\ Tail(t) \in Seq(Recs) /\ Len(Tail(t)) = Len(t) - 1
      /\ \A i \in 1 .. Len(t) - 1 : Tail(t)[i] = t[i + 1]
  BY <1>1
<1>4. Tail(t) \in SeqRecs
  <2>1. Len(Tail(t)) <= Tracks
    BY <1>1, <1>3, BoundAssumption
  <2> QED
    BY <2>1, <1>3, SeqRecsAre, Zenon
<1>5. ASSUME NEW r \in Elems(Tail(t)) PROVE r \in Elems(t)
  <2>1. PICK i \in 1 .. Len(t) - 1 : r = Tail(t)[i]
    BY <1>1, <1>3 DEF Elems
  <2>2. i + 1 \in DOMAIN t /\ r = t[i + 1]
    BY <2>1, <1>1, <1>3
  <2> QED
    BY <2>2 DEF Elems
<1>6. Len(t) # 1 => Tail(t) # <<>>
  <2>1. Len(t) # 1 => Len(Tail(t)) # 0
    BY <1>1, <1>3
  <2>2. Len(<<>>) = 0
    OBVIOUS
  <2> QED
    BY <2>1, <2>2, Zenon
<1>7. Head(t) \in Recs /\ Head(t) \in Elems(t)
  BY <1>1, <1>2 DEF Elems
<1> QED
  BY <1>4, <1>5, <1>6, <1>7

LEMMA AppendTo ==
  ASSUME NEW t \in SeqRecs, NEW r \in Recs, Len(t) < Tracks
  PROVE  /\ Append(t, r) \in SeqRecs
         /\ Len(Append(t, r)) = Len(t) + 1
         /\ Elems(Append(t, r)) = Elems(t) \cup {r}
<1>1. t \in Seq(Recs) /\ Len(t) \in Nat
  BY SeqRecsAre
<1>2. /\ Append(t, r) \in Seq(Recs) /\ Len(Append(t, r)) = Len(t) + 1
      /\ DOMAIN Append(t, r) = 1 .. Len(t) + 1 /\ DOMAIN t = 1 .. Len(t)
      /\ Append(t, r)[Len(t) + 1] = r
      /\ \A i \in 1 .. Len(t) : Append(t, r)[i] = t[i]
  BY <1>1
<1>3. Append(t, r) \in SeqRecs
  <2>1. Len(Append(t, r)) <= Tracks
    BY <1>1, <1>2, BoundAssumption
  <2> QED
    BY <2>1, <1>2, SeqRecsAre, Zenon
<1>4. Elems(Append(t, r)) = Elems(t) \cup {r}
  BY <1>1, <1>2 DEF Elems
<1> QED
  BY <1>2, <1>3, <1>4

LEMMA ElemsAreRecs ==
  ASSUME NEW t \in SeqRecs
  PROVE  Elems(t) \subseteq Recs
BY SeqRecsAre DEF Elems

-----------------------------------------------------------------------------
(* How the locals of one handler change.                                   *)

\* Nothing is claimed, stored or put in the meeting that was not the
\* handler's, the slot's, the meeting's or just minted; the others claim
\* nothing new.
LEMMA Steps ==
  ASSUME IInv, NEW a \in Actors,
         me' = [b \in Actors |-> me'[b]], Shape(a, me'[a], nextRec'),
         \A b \in Actors \ {a} :
           /\ Shape(b, me'[b], nextRec')
           /\ \A r \in Recs : Claims(me'[b], r) => Claims(me[b], r),
         nextRec' \in Int, nextRec <= nextRec',
         \A r \in Recs :
           Claims(me'[a], r) \/ handle' = r \/ r \in Elems(meeting') =>
             \/ Claims(me[a], r) \/ handle = r \/ r \in Elems(meeting)
             \/ nextRec <= r /\ r < nextRec',
         \A r \in Recs :
           /\ Claims(me'[a], r) => handle' # r /\ r \notin Elems(meeting')
           /\ handle' = r => r \notin Elems(meeting'),
         meeting' \in SeqRecs
  PROVE  Shapes' /\ Exclusive'
<1>1. nextRec \in Int /\ \A r \in Recs : r \in Int
  BY BoundAssumption DEF IInv, Stores, Recs
<1>2. Shapes'
  BY DEF Shapes
<1> DEFINE Pool(r) == Claims(me[a], r) \/ handle = r \/ r \in Elems(meeting)
                        \/ (nextRec <= r /\ r < nextRec')
<1>3. ASSUME NEW r \in Recs, Pool(r), NEW b \in Actors, b # a, Claims(me[b], r)
      PROVE FALSE
  BY <1>3, <1>1 DEF IInv, Exclusive
<1>4. ASSUME NEW r \in Recs, Pool(r) PROVE r < nextRec'
  BY <1>4, <1>1 DEF IInv, Exclusive
<1>5. \A r \in Recs : Claims(me'[a], r) \/ handle' = r \/ r \in Elems(meeting') => Pool(r)
  OBVIOUS
<1> HIDE DEF Pool
<1>6. \A r \in Recs : \A b, c \in Actors :
        Claims(me'[b], r) /\ Claims(me'[c], r) => b = c
  <2> SUFFICES ASSUME NEW r \in Recs, NEW b \in Actors, NEW c \in Actors,
                      Claims(me'[b], r), Claims(me'[c], r), b # c
               PROVE FALSE
    OBVIOUS
  <2>1. CASE b = a
    BY <2>1, <1>3, <1>5
  <2>2. CASE c = a
    BY <2>2, <1>3, <1>5
  <2>3. CASE b # a /\ c # a
    BY <2>3 DEF IInv, Exclusive
  <2> QED
    BY <2>1, <2>2, <2>3
<1>7. \A r \in Recs : \A b \in Actors :
        Claims(me'[b], r) => handle' # r /\ r \notin Elems(meeting') /\ r < nextRec'
  <2> SUFFICES ASSUME NEW r \in Recs, NEW b \in Actors, Claims(me'[b], r)
               PROVE handle' # r /\ r \notin Elems(meeting') /\ r < nextRec'
    OBVIOUS
  <2>1. CASE b = a
    BY <2>1, <1>4, <1>5
  <2>2. CASE b # a
    <3>1. Claims(me[b], r) /\ r < nextRec
      BY <2>2 DEF IInv, Exclusive
    <3> QED
      BY <3>1, <2>2, <1>1, <1>3, <1>5
  <2> QED
    BY <2>1, <2>2
<1>8. \A r \in Recs : handle' = r => r \notin Elems(meeting') /\ r < nextRec'
  BY <1>4, <1>5
<1>9. \A r \in Elems(meeting') : r < nextRec'
  BY <1>4, <1>5, ElemsAreRecs
<1> QED
  BY <1>2, <1>6, <1>7, <1>8, <1>9 DEF Exclusive

\* A later next recording leaves the shape of locals as it is.
LEMMA ShapeGrows ==
  ASSUME IInv, NEW b \in Actors, NEW n \in Int, nextRec <= n
  PROVE  Shape(b, me[b], n)
<1>1. Shape(b, me[b], nextRec) /\ nextRec \in Int
  BY BoundAssumption DEF IInv, Shapes, Stores
<1>2. me[b].at \in Opening =>
        /\ me[b].rec \in Int /\ Len(me[b].tracks) \in Int /\ Tracks \in Int
  BY <1>1, SeqRecsAre, BoundAssumption DEF Shape, OnRec, Locals, Recs
<1>3. me[b].at \in Opening =>
        Len(me[b].tracks) < Tracks /\ me[b].rec + Tracks - Len(me[b].tracks) <= n
  BY <1>1, <1>2 DEF Shape
<1> QED
  BY <1>1, <1>3 DEF Shape

\* The same when one handler's locals become m and the others' stay.
LEMMA Moves ==
  ASSUME IInv, NEW a \in Actors, NEW m,
         me' = [me EXCEPT ![a] = m], Shape(a, m, nextRec'),
         nextRec' \in Int, nextRec <= nextRec',
         \A r \in Recs :
           Claims(m, r) \/ handle' = r \/ r \in Elems(meeting') =>
             \/ Claims(me[a], r) \/ handle = r \/ r \in Elems(meeting)
             \/ nextRec <= r /\ r < nextRec',
         \A r \in Recs :
           /\ Claims(m, r) => handle' # r /\ r \notin Elems(meeting')
           /\ handle' = r => r \notin Elems(meeting'),
         meeting' \in SeqRecs
  PROVE  Shapes' /\ Exclusive'
<1>1. me' = [b \in Actors |-> me'[b]] /\ me'[a] = m
        /\ \A b \in Actors \ {a} : me'[b] = me[b]
  BY DEF IInv, Shapes
<1>2. \A b \in Actors \ {a} : Shape(b, me'[b], nextRec')
  BY <1>1, ShapeGrows
<1> HIDE DEF IInv, Shape, Claims
<1> QED
  BY <1>1, <1>2, Steps

\* A handler moves on and claims nothing new; slot and meeting stay.
LEMMA Stays ==
  ASSUME IInv, NEW a \in Actors, NEW m,
         me' = [me EXCEPT ![a] = m], Shape(a, m, nextRec),
         handle' = handle, meeting' = meeting, nextRec' = nextRec,
         \A r \in Recs : Claims(m, r) => Claims(me[a], r)
  PROVE  Shapes' /\ Exclusive'
<1>1. nextRec \in Int /\ meeting \in SeqRecs
  BY BoundAssumption DEF IInv, Stores
<1>2. \A r \in Recs :
        /\ Claims(m, r) => handle # r /\ r \notin Elems(meeting)
        /\ handle = r => r \notin Elems(meeting)
  BY DEF IInv, Exclusive
<1>3. nextRec <= nextRec
  BY <1>1
<1> HIDE DEF IInv, Shape, Claims
<1> QED
  BY <1>1, <1>2, <1>3, Moves

\* From which place to which a handler may go without touching its locals.
Path(a, p, q) ==
  /\ q \in Places
  /\ a \in Clients \/ q \in WatcherPlaces \/ p \notin WatcherPlaces
  /\ q \in OnRec => p \in OnRec
  /\ q \in OnTracks => p \in OnTracks
  /\ q \in NoTracks => p \in NoTracks
  /\ q \in Minted => p \in Minted
  /\ q \in Opening => p \in Opening
  /\ p \in Flipping => q \in Flipping

LEMMA Going ==
  ASSUME IInv, NEW a \in Actors, NEW q, Goto(a, q), Path(a, me[a].at, q),
         handle' = handle, meeting' = meeting, nextRec' = nextRec
  PROVE  Shapes' /\ Exclusive'
<1> DEFINE m == [me[a] EXCEPT !.at = q]
<1>1. Shape(a, me[a], nextRec) /\ me = [b \in Actors |-> me[b]]
  BY DEF IInv, Shapes
<1>2. me' = [me EXCEPT ![a] = m]
  BY <1>1 DEF Goto
<1>3. /\ m \in Locals /\ m.at = q
      /\ m.rec = me[a].rec /\ m.take = me[a].take /\ m.tracks = me[a].tracks
  BY <1>1 DEF Shape, Locals, Path
<1>4. a \in Watchers => a \notin Clients
  BY ActorsAssumption
<1>5. Shape(a, m, nextRec)
  BY <1>1, <1>3, <1>4 DEF Shape, Path
<1>6. \A r \in Recs : Claims(m, r) => Claims(me[a], r)
  BY <1>3 DEF Claims, Path
<1> HIDE DEF m
<1> QED
  BY <1>2, <1>5, <1>6, Stays

LEMMA Returning ==
  ASSUME IInv, NEW a \in Actors, me' = [me EXCEPT ![a] = Idle],
         handle' = handle, meeting' = meeting, nextRec' = nextRec
  PROVE  Shapes' /\ Exclusive'
<1>1. Idle \in Locals
  BY EmptySeq DEF Idle, Locals, Places
<1>2. Shape(a, Idle, nextRec)
  BY <1>1 DEF Shape, Idle, WatcherPlaces, OnRec, OnTracks, Minted, Opening, Flipping
<1>3. \A r \in Recs : ~Claims(Idle, r)
  BY EmptySeq, ActorsAssumption DEF Claims, Idle, Minted, Opening
<1> QED
  BY <1>2, <1>3, Stays

\* The next track of the list, at the place where the handler is or was.
LEMMA NextTrackMoves ==
  ASSUME IInv, NEW a \in Actors, NEW q, NextTrack(a, q), me[a].tracks # <<>>,
         me[a].at \in {"drop", "abort"} \cup OnTracks, q \in {"drop", "abort"} \cup OnTracks,
         me[a].at \in Flipping <=> q \in Flipping,
         handle' = handle, meeting' = meeting, nextRec' = nextRec
  PROVE  Shapes' /\ Exclusive'
<1>1. Shape(a, me[a], nextRec) /\ me = [b \in Actors |-> me[b]]
  BY DEF IInv, Shapes
<1>2. CASE Len(me[a].tracks) = 1
  BY <1>2, Returning DEF NextTrack, Return
<1>3. CASE Len(me[a].tracks) # 1
  <2> DEFINE m == [me[a] EXCEPT !.at = q, !.tracks = Tail(@)]
  <2>1. me' = [me EXCEPT ![a] = m]
    BY <1>1, <1>3 DEF NextTrack
  <2>2. /\ me[a].tracks \in SeqRecs /\ Tail(me[a].tracks) \in SeqRecs
        /\ Elems(Tail(me[a].tracks)) \subseteq Elems(me[a].tracks)
        /\ Tail(me[a].tracks) # <<>>
    BY <1>1, <1>3, HeadTail DEF Shape, Locals
  <2>3. /\ m \in Locals /\ m.at = q
        /\ m.rec = me[a].rec /\ m.take = me[a].take /\ m.tracks = Tail(me[a].tracks)
    BY <1>1, <2>2 DEF Shape, Locals, Places, OnTracks, Flipping
  <2>4. q \notin WatcherPlaces \cup OnRec \cup NoTracks \cup Opening \cup Minted
    BY DEF WatcherPlaces, OnRec, NoTracks, Opening, Minted, OnTracks, Flipping
  <2>5. a \notin Watchers
    BY <1>1 DEF Shape, WatcherPlaces, OnTracks, Flipping
  <2>6. Shape(a, m, nextRec)
    BY <2>2, <2>3, <2>4, <2>5 DEF Shape
  <2>7. \A r \in Recs : Claims(m, r) => Claims(me[a], r)
    BY <2>2, <2>3, <2>4 DEF Claims
  <2> HIDE DEF m
  <2> QED
    BY <2>1, <2>6, <2>7, Stays
<1> QED
  BY <1>2, <1>3

LEMMA Rests ==
  ASSUME IInv, me' = me, handle' = handle, meeting' = meeting, nextRec' = nextRec
  PROVE  Shapes' /\ Exclusive'
<1> HIDE DEF Claims, Shape, Elems
<1> QED
  BY DEF IInv, Shapes, Exclusive

\* What the handlers write, and from which locals.
LEMMA LocalsAre ==
  ASSUME IInv, NEW a \in Actors
  PROVE  /\ me[a].rec \in Recs \cup {None} /\ me[a].take \in Recs \cup {None}
         /\ me[a].tracks \in SeqRecs
         /\ me[a].at \in OnRec => me[a].rec \in Recs
         /\ me[a].at \in OnTracks => me[a].tracks # <<>>
         /\ me[a].tracks # <<>> => Head(me[a].tracks) \in Recs
BY HeadTail DEF IInv, Shapes, Shape, Locals

LEMMA Writes ==
  ASSUME IInv
  PROVE  /\ \A r : cap' = Halted(cap, r) =>
              cap' \in [Recs -> {"none", "live", "ending", "ended"}]
         /\ \A r : \A s \in Statuses : UpdateStatus(r, s) => row' \in [Recs -> Statuses]
         /\ \A r \in Recs : Fails(r) => faults' \in 0 .. MaxFaults /\ lost' \subseteq Recs
         /\ Refused => faults' \in 0 .. MaxFaults /\ lost' \subseteq Recs
         /\ Works => faults' \in 0 .. MaxFaults /\ lost' \subseteq Recs
         /\ \A a : Return(a) => /\ activeLock' \in Clients \cup {None}
                                /\ meetingLock' \in Clients \cup {None}
                                /\ toggleGuard' \in Clients \cup {None}
<1>1. \A r : cap' = Halted(cap, r) =>
        cap' \in [Recs -> {"none", "live", "ending", "ended"}]
  BY DEF IInv, Stores, Halted
<1>2. \A r : \A s \in Statuses : UpdateStatus(r, s) => row' \in [Recs -> Statuses]
  BY DEF IInv, Stores, UpdateStatus
<1>3. /\ \A r \in Recs : Fails(r) => faults' \in 0 .. MaxFaults /\ lost' \subseteq Recs
      /\ Refused => faults' \in 0 .. MaxFaults /\ lost' \subseteq Recs
      /\ Works => faults' \in 0 .. MaxFaults /\ lost' \subseteq Recs
  BY BoundAssumption DEF IInv, Stores, Fails, Refused, Works
<1>4. \A a : Return(a) => /\ activeLock' \in Clients \cup {None}
                          /\ meetingLock' \in Clients \cup {None}
                          /\ toggleGuard' \in Clients \cup {None}
  BY DEF IInv, Stores, Return, Release
<1> QED
  BY <1>1, <1>2, <1>3, <1>4, Zenon

-----------------------------------------------------------------------------
(* One lemma per handler, one step per action.                             *)

LEMMA StartSteps ==
  ASSUME IInv, NEW a \in Actors,
         \/ StartCheckMeeting(a) \/ StartRefused(a) \/ StartInsertRow(a)
         \/ StartOpenSource(a) \/ StartClearSlot(a) \/ StartDropRow(a)
  PROVE  IInv'
<1>1. ASSUME StartCheckMeeting(a) PROVE IInv'
  <2>1. Flags'
    BY <1>1, Zenon DEF StartCheckMeeting, IInv, Flags, slots, ghosts
  <2>2. Stores'
    BY <1>1, LocalsAre, Writes
    DEF StartCheckMeeting, At, Calls, IInv, Stores, slots, locks, store, ghosts
  <2>3. handle' = handle /\ meeting' = meeting /\ nextRec' = nextRec
    BY <1>1 DEF StartCheckMeeting, slots
  <2>4. Goto(a, "reserve")
    BY <1>1 DEF StartCheckMeeting, Return
  <2>5. Path(a, me[a].at, "reserve")
    BY <1>1 DEF StartCheckMeeting, At, Calls, Path, Places, WatcherPlaces, OnRec,
      OnTracks, NoTracks, Minted, Opening, Flipping
  <2>6. Shapes' /\ Exclusive'
    BY <2>3, <2>4, <2>5, Going
  <2> QED
    BY <2>1, <2>2, <2>6 DEF IInv
<1>2. ASSUME StartRefused(a) PROVE IInv'
  <2>1. Flags'
    BY <1>2, Zenon DEF StartRefused, IInv, Flags, slots, ghosts
  <2>2. Stores'
    BY <1>2, LocalsAre, Writes
    DEF StartRefused, At, IInv, Stores, slots, locks, store, ghosts
  <2>3. handle' = handle /\ meeting' = meeting /\ nextRec' = nextRec
    BY <1>2 DEF StartRefused, slots
  <2>4. me' = [me EXCEPT ![a] = Idle]
    BY <1>2 DEF StartRefused, Return
  <2>5. Shapes' /\ Exclusive'
    BY <2>3, <2>4, Returning
  <2> QED
    BY <2>1, <2>2, <2>5 DEF IInv
<1>3. ASSUME StartInsertRow(a) PROVE IInv'
  <2>1. Flags'
    BY <1>3, Zenon DEF StartInsertRow, IInv, Flags, slots, ghosts
  <2>2. Stores'
    BY <1>3, LocalsAre, Writes
    DEF StartInsertRow, At, OnRec, Minted, Statuses, IInv, Stores, slots,
         locks, store, ghosts
  <2>3. handle' = handle /\ meeting' = meeting /\ nextRec' = nextRec
    BY <1>3 DEF StartInsertRow, slots
  <2>4. Goto(a, "open") \/ Goto(a, "clear")
    BY <1>3 DEF StartInsertRow, Return
  <2>5. Path(a, me[a].at, "open") /\ Path(a, me[a].at, "clear")
    BY <1>3 DEF StartInsertRow, At, Path, Places, WatcherPlaces, OnRec, OnTracks,
      NoTracks, Minted, Opening, Flipping
  <2>6. Shapes' /\ Exclusive'
    BY <2>3, <2>4, <2>5, Going
  <2> QED
    BY <2>1, <2>2, <2>6 DEF IInv
<1>4. ASSUME StartOpenSource(a) PROVE IInv'
  <2>1. Flags'
    BY <1>4, Zenon DEF StartOpenSource, IInv, Flags, slots, ghosts
  <2>2. Stores'
    BY <1>4, LocalsAre, Writes
    DEF StartOpenSource, At, OnRec, Minted, IInv, Stores, slots, locks, store,
         ghosts
  <2>3. handle' = handle /\ meeting' = meeting /\ nextRec' = nextRec
    BY <1>4 DEF StartOpenSource, slots
  <2>4. Goto(a, "store") \/ Goto(a, "clear")
    BY <1>4 DEF StartOpenSource, Return
  <2>5. Path(a, me[a].at, "store") /\ Path(a, me[a].at, "clear")
    BY <1>4 DEF StartOpenSource, At, Path, Places, WatcherPlaces, OnRec, OnTracks,
      NoTracks, Minted, Opening, Flipping
  <2>6. Shapes' /\ Exclusive'
    BY <2>3, <2>4, <2>5, Going
  <2> QED
    BY <2>1, <2>2, <2>6 DEF IInv
<1>5. ASSUME StartClearSlot(a) PROVE IInv'
  <2>1. Flags'
    BY <1>5, Zenon DEF StartClearSlot, IInv, Flags, slots, ghosts
  <2>2. Stores'
    BY <1>5, LocalsAre, Writes
    DEF StartClearSlot, At, IInv, Stores, slots, locks, store, ghosts
  <2>3. handle' = handle /\ meeting' = meeting /\ nextRec' = nextRec
    BY <1>5 DEF StartClearSlot, slots
  <2>4. Goto(a, "unrow")
    BY <1>5 DEF StartClearSlot, Return
  <2>5. Path(a, me[a].at, "unrow")
    BY <1>5 DEF StartClearSlot, At, Path, Places, WatcherPlaces, OnRec, OnTracks,
      NoTracks, Minted, Opening, Flipping
  <2>6. Shapes' /\ Exclusive'
    BY <2>3, <2>4, <2>5, Going
  <2> QED
    BY <2>1, <2>2, <2>6 DEF IInv
<1>6. ASSUME StartDropRow(a) PROVE IInv'
  <2>1. Flags'
    BY <1>6, Zenon DEF StartDropRow, IInv, Flags, slots, ghosts
  <2>2. Stores'
    BY <1>6, LocalsAre, Writes
    DEF StartDropRow, At, OnRec, Statuses, IInv, Stores, slots, locks, store,
         ghosts
  <2>3. handle' = handle /\ meeting' = meeting /\ nextRec' = nextRec
    BY <1>6 DEF StartDropRow, slots
  <2>4. me' = [me EXCEPT ![a] = Idle]
    BY <1>6 DEF StartDropRow, Return
  <2>5. Shapes' /\ Exclusive'
    BY <2>3, <2>4, Returning
  <2> QED
    BY <2>1, <2>2, <2>5 DEF IInv
<1> QED
  BY <1>1, <1>2, <1>3, <1>4, <1>5, <1>6

LEMMA StopSteps ==
  ASSUME IInv, NEW a \in Actors,
         \/ StopTakeHalf(a) \/ StopSend(a) \/ StopWriteWav(a) \/ StopMark(a)
         \/ StopFastLane(a) \/ StopMarkQueued(a) \/ StopEnqueue(a)
  PROVE  IInv'
<1>1. ASSUME StopTakeHalf(a) PROVE IInv'
  <2>1. Flags'
    BY <1>1, Zenon DEF StopTakeHalf, IInv, Flags, slots, ghosts
  <2>2. Stores'
    BY <1>1, LocalsAre, Writes
    DEF StopTakeHalf, At, IInv, Stores, slots, locks, store, ghosts
  <2>3. handle' = handle /\ meeting' = meeting /\ nextRec' = nextRec
    BY <1>1 DEF StopTakeHalf, slots
  <2>4. me' = [me EXCEPT ![a] = Idle]
    BY <1>1 DEF StopTakeHalf, Return
  <2>5. Shapes' /\ Exclusive'
    BY <2>3, <2>4, Returning
  <2> QED
    BY <2>1, <2>2, <2>5 DEF IInv
<1>2. ASSUME StopSend(a) PROVE IInv'
  <2>1. Flags'
    BY <1>2, Zenon DEF StopSend, IInv, Flags, slots, ghosts
  <2>2. Stores'
    BY <1>2, LocalsAre, Writes
    DEF StopSend, At, IInv, Stores, slots, locks, store, ghosts
  <2>3. handle' = handle /\ meeting' = meeting /\ nextRec' = nextRec
    BY <1>2 DEF StopSend, slots
  <2>4. Goto(a, "join")
    BY <1>2 DEF StopSend, Return
  <2>5. Path(a, me[a].at, "join")
    BY <1>2 DEF StopSend, At, Path, Places, WatcherPlaces, OnRec, OnTracks, NoTracks,
      Minted, Opening, Flipping
  <2>6. Shapes' /\ Exclusive'
    BY <2>3, <2>4, <2>5, Going
  <2> QED
    BY <2>1, <2>2, <2>6 DEF IInv
<1>3. ASSUME StopWriteWav(a) PROVE IInv'
  <2>1. Flags'
    BY <1>3, Zenon DEF StopWriteWav, IInv, Flags, slots, ghosts
  <2>2. Stores'
    BY <1>3, LocalsAre, Writes
    DEF StopWriteWav, At, OnRec, IInv, Stores, slots, locks, store, ghosts
  <2>3. handle' = handle /\ meeting' = meeting /\ nextRec' = nextRec
    BY <1>3 DEF StopWriteWav, slots
  <2>4. Goto(a, "mark") \/ me' = [me EXCEPT ![a] = Idle]
    BY <1>3 DEF StopWriteWav, Return
  <2>5. Path(a, me[a].at, "mark")
    BY <1>3 DEF StopWriteWav, At, Path, Places, WatcherPlaces, OnRec, OnTracks, NoTracks,
      Minted, Opening, Flipping
  <2>6. Shapes' /\ Exclusive'
    BY <2>3, <2>4, <2>5, Going, Returning
  <2> QED
    BY <2>1, <2>2, <2>6 DEF IInv
<1>4. ASSUME StopMark(a) PROVE IInv'
  <2>1. Flags'
    BY <1>4, Zenon DEF StopMark, IInv, Flags, slots, ghosts
  <2>2. Stores'
    BY <1>4, LocalsAre, Writes
    DEF StopMark, At, OnRec, Statuses, IInv, Stores, slots, locks, store,
         ghosts
  <2>3. handle' = handle /\ meeting' = meeting /\ nextRec' = nextRec
    BY <1>4 DEF StopMark, slots
  <2>4. Goto(a, "handoff") \/ me' = [me EXCEPT ![a] = Idle]
    BY <1>4 DEF StopMark, Return
  <2>5. Path(a, me[a].at, "handoff")
    BY <1>4 DEF StopMark, At, Path, Places, WatcherPlaces, OnRec, OnTracks, NoTracks,
      Minted, Opening, Flipping
  <2>6. Shapes' /\ Exclusive'
    BY <2>3, <2>4, <2>5, Going, Returning
  <2> QED
    BY <2>1, <2>2, <2>6 DEF IInv
<1>5. ASSUME StopFastLane(a) PROVE IInv'
  <2>1. Flags'
    BY <1>5, Zenon DEF StopFastLane, IInv, Flags, slots, ghosts
  <2>2. Stores'
    BY <1>5, LocalsAre, Writes
    DEF StopFastLane, At, OnRec, IInv, Stores, slots, locks, store, ghosts
  <2>3. handle' = handle /\ meeting' = meeting /\ nextRec' = nextRec
    BY <1>5 DEF StopFastLane, slots
  <2>4. me' = [me EXCEPT ![a] = Idle]
    BY <1>5 DEF StopFastLane, Return
  <2>5. Shapes' /\ Exclusive'
    BY <2>3, <2>4, Returning
  <2> QED
    BY <2>1, <2>2, <2>5 DEF IInv
<1>6. ASSUME StopMarkQueued(a) PROVE IInv'
  <2>1. Flags'
    BY <1>6, Zenon DEF StopMarkQueued, IInv, Flags, slots, ghosts
  <2>2. Stores'
    BY <1>6, LocalsAre, Writes
    DEF StopMarkQueued, At, OnRec, Statuses, IInv, Stores, slots, locks, store,
         ghosts
  <2>3. handle' = handle /\ meeting' = meeting /\ nextRec' = nextRec
    BY <1>6 DEF StopMarkQueued, slots
  <2>4. Goto(a, "enqueue") \/ me' = [me EXCEPT ![a] = Idle]
    BY <1>6 DEF StopMarkQueued, Return
  <2>5. Path(a, me[a].at, "enqueue")
    BY <1>6 DEF StopMarkQueued, At, Path, Places, WatcherPlaces, OnRec, OnTracks,
      NoTracks, Minted, Opening, Flipping
  <2>6. Shapes' /\ Exclusive'
    BY <2>3, <2>4, <2>5, Going, Returning
  <2> QED
    BY <2>1, <2>2, <2>6 DEF IInv
<1>7. ASSUME StopEnqueue(a) PROVE IInv'
  <2>1. Flags'
    BY <1>7, Zenon DEF StopEnqueue, IInv, Flags, slots, ghosts
  <2>2. Stores'
    BY <1>7, LocalsAre, Writes
    DEF StopEnqueue, At, OnRec, IInv, Stores, slots, locks, store, ghosts
  <2>3. handle' = handle /\ meeting' = meeting /\ nextRec' = nextRec
    BY <1>7 DEF StopEnqueue, slots
  <2>4. me' = [me EXCEPT ![a] = Idle]
    BY <1>7 DEF StopEnqueue, Return
  <2>5. Shapes' /\ Exclusive'
    BY <2>3, <2>4, Returning
  <2> QED
    BY <2>1, <2>2, <2>5 DEF IInv
<1> QED
  BY <1>1, <1>2, <1>3, <1>4, <1>5, <1>6, <1>7

LEMMA WatcherSteps ==
  ASSUME IInv, NEW r \in Recs, WatcherFindsNothing(r) \/ CaptureEnds(r)
  PROVE  IInv'
<1> DEFINE w == Watcher(r)
<1>1. w \in Actors
  BY DEF Actors, Watchers
<1>2. ASSUME WatcherFindsNothing(r) PROVE IInv'
  <2>1. Flags' /\ Stores'
    BY <1>2 DEF WatcherFindsNothing, IInv, Flags, Stores, slots, locks, store, ghosts
  <2>2. me' = [me EXCEPT ![w] = Idle]
        /\ handle' = handle /\ meeting' = meeting /\ nextRec' = nextRec
    BY <1>2 DEF WatcherFindsNothing, slots
  <2> QED
    BY <1>1, <2>1, <2>2, Returning DEF IInv
<1>3. ASSUME CaptureEnds(r) PROVE IInv'
  <2>1. Flags'
    BY <1>3, Zenon DEF CaptureEnds, IInv, Flags, slots, ghosts
  <2>2. Stores'
    BY <1>3 DEF CaptureEnds, IInv, Stores, slots, locks, store, ghosts
  <2>3. handle' = handle /\ meeting' = meeting /\ nextRec' = nextRec
    BY <1>3 DEF CaptureEnds, slots
  <2>4. CASE At(w, "armed")
    <3>1. Goto(w, "fired")
      BY <1>3, <2>4 DEF CaptureEnds, Goto
    <3>2. Path(w, me[w].at, "fired")
      BY <2>4 DEF At, Path, Places, WatcherPlaces, OnRec, OnTracks, NoTracks, Minted,
                  Opening, Flipping
    <3> QED
      BY <1>1, <2>1, <2>2, <2>3, <3>1, <3>2, Going DEF IInv
  <2>5. CASE ~At(w, "armed")
    BY <1>3, <2>1, <2>2, <2>3, <2>5, Rests DEF CaptureEnds, IInv
  <2> QED
    BY <2>4, <2>5
<1> QED
  BY <1>2, <1>3

LEMMA CancelSteps ==
  ASSUME IInv, NEW a \in Actors,
         \/ CancelSend(a) \/ CancelDeleteRow(a) \/ AbortNothing(a)
         \/ DropCapture(a) \/ DropRow(a)
  PROVE  IInv'
<1>1. ASSUME CancelSend(a) PROVE IInv'
  <2>1. Flags'
    BY <1>1, Zenon DEF CancelSend, IInv, Flags, slots, ghosts
  <2>2. Stores'
    BY <1>1, LocalsAre, Writes
    DEF CancelSend, At, IInv, Stores, slots, locks, store, ghosts
  <2>3. handle' = handle /\ meeting' = meeting /\ nextRec' = nextRec
    BY <1>1 DEF CancelSend, slots
  <2>4. Goto(a, "delete")
    BY <1>1 DEF CancelSend, Return
  <2>5. Path(a, me[a].at, "delete")
    BY <1>1 DEF CancelSend, At, Path, Places, WatcherPlaces, OnRec, OnTracks, NoTracks,
      Minted, Opening, Flipping
  <2>6. Shapes' /\ Exclusive'
    BY <2>3, <2>4, <2>5, Going
  <2> QED
    BY <2>1, <2>2, <2>6 DEF IInv
<1>2. ASSUME CancelDeleteRow(a) PROVE IInv'
  <2>1. Flags'
    BY <1>2, Zenon DEF CancelDeleteRow, IInv, Flags, slots, ghosts
  <2>2. Stores'
    BY <1>2, LocalsAre, Writes
    DEF CancelDeleteRow, At, OnRec, Statuses, IInv, Stores, slots, locks,
         store, ghosts
  <2>3. handle' = handle /\ meeting' = meeting /\ nextRec' = nextRec
    BY <1>2 DEF CancelDeleteRow, slots
  <2>4. me' = [me EXCEPT ![a] = Idle]
    BY <1>2 DEF CancelDeleteRow, Return
  <2>5. Shapes' /\ Exclusive'
    BY <2>3, <2>4, Returning
  <2> QED
    BY <2>1, <2>2, <2>5 DEF IInv
<1>3. ASSUME AbortNothing(a) PROVE IInv'
  <2>1. Flags'
    BY <1>3, Zenon DEF AbortNothing, IInv, Flags, slots, ghosts
  <2>2. Stores'
    BY <1>3, LocalsAre, Writes
    DEF AbortNothing, At, IInv, Stores, slots, locks, store, ghosts
  <2>3. handle' = handle /\ meeting' = meeting /\ nextRec' = nextRec
    BY <1>3 DEF AbortNothing, slots
  <2>4. me' = [me EXCEPT ![a] = Idle]
    BY <1>3 DEF AbortNothing, Return
  <2>5. Shapes' /\ Exclusive'
    BY <2>3, <2>4, Returning
  <2> QED
    BY <2>1, <2>2, <2>5 DEF IInv
<1>4. ASSUME DropCapture(a) PROVE IInv'
  <2>1. Flags'
    BY <1>4, Zenon DEF DropCapture, IInv, Flags, slots, ghosts
  <2>2. Stores'
    BY <1>4, Writes DEF DropCapture, IInv, Stores, slots, locks, store, ghosts
  <2> QED
    BY <1>4, <2>1, <2>2, Rests DEF DropCapture, slots, IInv
<1>5. ASSUME DropRow(a) PROVE IInv'
  <2>1. Flags'
    BY <1>5, Zenon DEF DropRow, IInv, Flags, slots, ghosts
  <2>2. NextTrack(a, me[a].at) => /\ activeLock' \in Clients \cup {None}
                                  /\ meetingLock' \in Clients \cup {None}
                                  /\ toggleGuard' \in Clients \cup {None}
    BY Writes DEF NextTrack, IInv, Stores, locks
  <2>3. Stores'
    BY <1>5, <2>2, LocalsAre, Writes
    DEF DropRow, At, Drops, Statuses, IInv, Stores, slots, locks, store, ghosts
  <2>4. handle' = handle /\ meeting' = meeting /\ nextRec' = nextRec
    BY <1>5 DEF DropRow, slots
  <2>5. me[a].tracks # <<>>
    BY <1>5, LocalsAre DEF DropRow, At, OnTracks, Flipping, Drops
  <2>6. Shapes' /\ Exclusive'
    BY <1>5, <2>4, <2>5, NextTrackMoves DEF DropRow, At, OnTracks, Flipping, Drops
  <2> QED
    BY <2>1, <2>3, <2>6 DEF IInv
<1> QED
  BY <1>1, <1>2, <1>3, <1>4, <1>5

LEMMA MeetingStopSteps ==
  ASSUME IInv, NEW a \in Actors,
         \/ MeetingStopTake(a) \/ MeetingHaltAll(a) \/ MeetingAlign(a)
         \/ MeetingWriteTrack(a) \/ MeetingEnqueueTrack(a) \/ MeetingFailTrack(a)
  PROVE  IInv'
<1>1. ASSUME MeetingStopTake(a) PROVE IInv'
  <2>1. Flags'
    BY <1>1 DEF MeetingStopTake, IInv, Flags, ghosts
  <2>2. Stores'
    BY <1>1, EmptySeq, Writes DEF MeetingStopTake, IInv, Stores, locks, store, ghosts
  <2>3. handle' = handle /\ nextRec' = nextRec /\ meeting' = <<>>
    BY <1>1 DEF MeetingStopTake
  <2>4. CASE meeting = <<>>
    <3>1. me' = [me EXCEPT ![a] = Idle]
      BY <1>1, <2>4 DEF MeetingStopTake, Return
    <3> QED
      BY <2>1, <2>2, <2>3, <2>4, <3>1, Returning DEF IInv
  <2>5. CASE meeting # <<>>
    <3> DEFINE m == [me[a] EXCEPT !.at = "haltAll", !.tracks = meeting]
    <3>1. Shape(a, me[a], nextRec) /\ me = [b \in Actors |-> me[b]]
      BY DEF IInv, Shapes
    <3>2. me' = [me EXCEPT ![a] = m]
      BY <1>1, <2>5, <3>1 DEF MeetingStopTake
    <3>3. /\ m \in Locals /\ m.at = "haltAll"
          /\ m.rec = me[a].rec /\ m.take = me[a].take /\ m.tracks = meeting
      BY <3>1 DEF Shape, Locals, IInv, Stores, Places
    <3>4. a \notin Watchers
      BY <1>1, <3>1 DEF MeetingStopTake, At, Shape, WatcherPlaces
    <3>5. Shape(a, m, nextRec')
      BY <2>5, <3>3, <3>4 DEF Shape, OnRec, OnTracks, NoTracks, Minted, Opening,
                              WatcherPlaces
    <3>6. \A r \in Recs : Claims(m, r) => Claims(me[a], r) \/ r \in Elems(meeting)
      BY <3>3 DEF Claims, Minted, Opening
    <3>7. \A r \in Recs : Claims(m, r) => handle' # r /\ r \notin Elems(meeting')
      BY <2>3, <3>6, EmptySeq DEF IInv, Exclusive
    <3>8. \A r \in Recs : r \notin Elems(meeting')
      BY <2>3, EmptySeq
    <3>9. nextRec' \in Int /\ nextRec <= nextRec' /\ meeting' \in SeqRecs
      BY <2>2, <2>3, BoundAssumption DEF Stores
    <3>10. \A r \in Recs :
             Claims(m, r) \/ handle' = r \/ r \in Elems(meeting') =>
               Claims(me[a], r) \/ handle = r \/ r \in Elems(meeting)
      BY <2>3, <3>6, <3>8
    <3> HIDE DEF m
    <3>11. Shapes' /\ Exclusive'
      BY <3>2, <3>5, <3>7, <3>8, <3>9, <3>10, Moves
    <3> QED
      BY <2>1, <2>2, <3>11 DEF IInv
  <2> QED
    BY <2>4, <2>5
<1>2. ASSUME MeetingHaltAll(a) PROVE IInv'
  <2>1. Flags'
    BY <1>2, Zenon DEF MeetingHaltAll, IInv, Flags, slots, ghosts
  <2>2. Stores'
    BY <1>2, LocalsAre, Writes
    DEF MeetingHaltAll, At, IInv, Stores, slots, locks, store, ghosts
  <2>3. handle' = handle /\ meeting' = meeting /\ nextRec' = nextRec
    BY <1>2 DEF MeetingHaltAll, slots
  <2>4. Goto(a, "align")
    BY <1>2 DEF MeetingHaltAll, Return
  <2>5. Path(a, me[a].at, "align")
    BY <1>2 DEF MeetingHaltAll, At, Path, Places, WatcherPlaces, OnRec, OnTracks,
      NoTracks, Minted, Opening, Flipping
  <2>6. Shapes' /\ Exclusive'
    BY <2>3, <2>4, <2>5, Going
  <2> QED
    BY <2>1, <2>2, <2>6 DEF IInv
<1>3. ASSUME MeetingAlign(a) PROVE IInv'
  <2>1. Flags'
    BY <1>3, Zenon DEF MeetingAlign, IInv, Flags, slots, ghosts
  <2>2. Stores'
    BY <1>3, LocalsAre, Writes
    DEF MeetingAlign, At, IInv, Stores, slots, locks, store, ghosts
  <2>3. handle' = handle /\ meeting' = meeting /\ nextRec' = nextRec
    BY <1>3 DEF MeetingAlign, slots
  <2>4. Goto(a, "trackWav")
    BY <1>3 DEF MeetingAlign, Return
  <2>5. Path(a, me[a].at, "trackWav")
    BY <1>3 DEF MeetingAlign, At, Path, Places, WatcherPlaces, OnRec, OnTracks, NoTracks,
      Minted, Opening, Flipping
  <2>6. Shapes' /\ Exclusive'
    BY <2>3, <2>4, <2>5, Going
  <2> QED
    BY <2>1, <2>2, <2>6 DEF IInv
<1>4. ASSUME MeetingWriteTrack(a) PROVE IInv'
  <2>1. Flags'
    BY <1>4, Zenon DEF MeetingWriteTrack, IInv, Flags, slots, ghosts
  <2>2. Stores'
    BY <1>4, LocalsAre, Writes
    DEF MeetingWriteTrack, At, OnTracks, Statuses, IInv, Stores, slots, locks,
         store, ghosts
  <2>3. handle' = handle /\ meeting' = meeting /\ nextRec' = nextRec
    BY <1>4 DEF MeetingWriteTrack, slots
  <2>4. Goto(a, "trackQueue") \/ Goto(a, "trackFail")
    BY <1>4 DEF MeetingWriteTrack, Return
  <2>5. Path(a, me[a].at, "trackQueue") /\ Path(a, me[a].at, "trackFail")
    BY <1>4 DEF MeetingWriteTrack, At, Path, Places, WatcherPlaces, OnRec, OnTracks,
      NoTracks, Minted, Opening, Flipping
  <2>6. Shapes' /\ Exclusive'
    BY <2>3, <2>4, <2>5, Going
  <2> QED
    BY <2>1, <2>2, <2>6 DEF IInv
<1>5. ASSUME MeetingEnqueueTrack(a) PROVE IInv'
  <2>1. Flags'
    BY <1>5, Zenon DEF MeetingEnqueueTrack, IInv, Flags, slots, ghosts
  <2>2. NextTrack(a, "trackWav") => /\ activeLock' \in Clients \cup {None}
                                    /\ meetingLock' \in Clients \cup {None}
                                    /\ toggleGuard' \in Clients \cup {None}
    BY Writes DEF NextTrack, IInv, Stores, locks
  <2>3. Stores'
    BY <1>5, <2>2, LocalsAre, Writes
    DEF MeetingEnqueueTrack, At, OnTracks, IInv, Stores, slots, locks, store,
         ghosts
  <2>4. handle' = handle /\ meeting' = meeting /\ nextRec' = nextRec
    BY <1>5 DEF MeetingEnqueueTrack, slots
  <2>5. NextTrack(a, "trackWav") \/ Goto(a, "trackFail")
    BY <1>5 DEF MeetingEnqueueTrack
  <2>6. me[a].at \in OnTracks \ Flipping /\ me[a].tracks # <<>>
    BY <1>5, LocalsAre DEF MeetingEnqueueTrack, At, OnTracks, Flipping
  <2>7. "trackWav" \in OnTracks \ Flipping
    BY DEF OnTracks, Flipping
  <2>8. Path(a, me[a].at, "trackFail")
    BY <1>5 DEF MeetingEnqueueTrack, At, Path, Places, WatcherPlaces, OnRec, OnTracks,
                NoTracks, Minted, Opening, Flipping
  <2>9. Shapes' /\ Exclusive'
    BY <2>4, <2>5, <2>6, <2>7, <2>8, NextTrackMoves, Going
  <2> QED
    BY <2>1, <2>3, <2>9 DEF IInv
<1>6. ASSUME MeetingFailTrack(a) PROVE IInv'
  <2>1. Flags'
    BY <1>6, Zenon DEF MeetingFailTrack, IInv, Flags, slots, ghosts
  <2>2. NextTrack(a, "trackWav") => /\ activeLock' \in Clients \cup {None}
                                    /\ meetingLock' \in Clients \cup {None}
                                    /\ toggleGuard' \in Clients \cup {None}
    BY Writes DEF NextTrack, IInv, Stores, locks
  <2>3. Stores'
    BY <1>6, <2>2, LocalsAre, Writes
    DEF MeetingFailTrack, At, OnTracks, Statuses, IInv, Stores, slots, locks,
         store, ghosts
  <2>4. handle' = handle /\ meeting' = meeting /\ nextRec' = nextRec
    BY <1>6 DEF MeetingFailTrack, slots
  <2>5. me[a].tracks # <<>>
    BY <1>6, LocalsAre DEF MeetingFailTrack, At, OnTracks, Flipping
  <2>6. Shapes' /\ Exclusive'
    BY <1>6, <2>4, <2>5, NextTrackMoves DEF MeetingFailTrack, At, OnTracks, Flipping
  <2> QED
    BY <2>1, <2>3, <2>6 DEF IInv
<1> QED
  BY <1>1, <1>2, <1>3, <1>4, <1>5, <1>6

LEMMA PauseSteps ==
  ASSUME IInv, NEW a \in Actors,
         \/ PauseSingle(a) \/ ResumeSingle(a) \/ PauseMeeting(a) \/ ResumeMeeting(a)
         \/ FlipRow(a)
  PROVE  IInv'
<1>1. ASSUME PauseSingle(a) \/ ResumeSingle(a) PROVE IInv'
  <2>1. Flags'
    BY <1>1 DEF PauseSingle, ResumeSingle, IInv, Flags
  <2>2. Stores'
    BY <1>1, Writes DEF PauseSingle, ResumeSingle, IInv, Stores, locks, Statuses
  <2>3. me' = me /\ handle' = handle /\ meeting' = meeting /\ nextRec' = nextRec
    BY <1>1 DEF PauseSingle, ResumeSingle
  <2> QED
    BY <2>1, <2>2, <2>3, Rests DEF IInv
<1>2. ASSUME NEW place \in Flipping, NEW pausing \in BOOLEAN, a \in Clients,
             FlipMeeting(a, place, pausing)
      PROVE IInv'
  <2>1. Flags'
    BY <1>2, Zenon DEF FlipMeeting, IInv, Flags, ghosts
  <2>2. Stores'
    BY <1>2 DEF FlipMeeting, IInv, Stores, store, ghosts
  <2> DEFINE m == [me[a] EXCEPT !.at = place, !.tracks = meeting]
  <2>3. Shape(a, me[a], nextRec) /\ me = [b \in Actors |-> me[b]]
    BY DEF IInv, Shapes
  <2>4. me' = [me EXCEPT ![a] = m]
    BY <1>2, <2>3 DEF FlipMeeting
  <2>5. /\ m \in Locals /\ m.at = place
        /\ m.rec = me[a].rec /\ m.take = me[a].take /\ m.tracks = meeting
    BY <2>3 DEF Shape, Locals, IInv, Stores, Places, Flipping
  <2>6. a \notin Watchers /\ meeting # <<>>
    BY <1>2, ActorsAssumption DEF FlipMeeting
  <2>7. Shape(a, m, nextRec)
    BY <2>5, <2>6 DEF Shape, OnRec, OnTracks, NoTracks, Minted, Opening, WatcherPlaces,
                      Flipping
  <2>8. \A r \in Recs : Claims(m, r) => Claims(me[a], r)
    BY <2>5 DEF Claims, Minted, Opening, Flipping
  <2>9. handle' = handle /\ meeting' = meeting /\ nextRec' = nextRec
    BY <1>2 DEF FlipMeeting
  <2> HIDE DEF m
  <2>10. Shapes' /\ Exclusive'
    BY <2>4, <2>7, <2>8, <2>9, Stays
  <2> QED
    BY <2>1, <2>2, <2>10 DEF IInv
<1>3. ASSUME PauseMeeting(a) PROVE IInv'
  BY <1>2, <1>3 DEF PauseMeeting, Calls, Flipping
<1>4. ASSUME ResumeMeeting(a) PROVE IInv'
  BY <1>2, <1>4 DEF ResumeMeeting, Calls, Flipping
<1>5. ASSUME FlipRow(a) PROVE IInv'
  <2>1. Flags'
    BY <1>5, Zenon DEF FlipRow, IInv, Flags, slots, ghosts
  <2>2. NextTrack(a, me[a].at) => /\ activeLock' \in Clients \cup {None}
                                  /\ meetingLock' \in Clients \cup {None}
                                  /\ toggleGuard' \in Clients \cup {None}
    BY Writes DEF NextTrack, IInv, Stores, locks
  <2>3. Stores'
    BY <1>5, <2>2, LocalsAre, Writes
    DEF FlipRow, At, OnTracks, Flipping, Statuses, IInv, Stores, slots, locks,
         store, ghosts
  <2>4. handle' = handle /\ meeting' = meeting /\ nextRec' = nextRec
    BY <1>5 DEF FlipRow, slots
  <2>5. NextTrack(a, me[a].at) \/ me' = [me EXCEPT ![a] = Idle]
    BY <1>5 DEF FlipRow, Return
  <2>6. me[a].at \in OnTracks /\ me[a].tracks # <<>>
    BY <1>5, LocalsAre DEF FlipRow, OnTracks, Flipping
  <2>7. Shapes' /\ Exclusive'
    BY <2>4, <2>5, <2>6, NextTrackMoves, Returning
  <2> QED
    BY <2>1, <2>3, <2>7 DEF IInv
<1> QED
  BY <1>1, <1>3, <1>4, <1>5

LEMMA MeetingSteps ==
  ASSUME IInv, NEW a \in Actors,
         \/ MeetingStartCall(a) \/ MeetingStopCall(a) \/ ToggleCall(a) \/ ToggleDecide(a)
         \/ MeetingCheckActive(a) \/ MeetingCheckMeeting(a) \/ MeetingOpenSources(a)
         \/ MeetingInsertRow(a) \/ MeetingTrackFails(a)
  PROVE  IInv'
<1>1. ASSUME MeetingStartCall(a) PROVE IInv'
  <2>1. Flags'
    BY <1>1, Zenon DEF MeetingStartCall, IInv, Flags, slots, ghosts
  <2>2. Stores'
    BY <1>1, LocalsAre, Writes
    DEF MeetingStartCall, At, Calls, IInv, Stores, slots, locks, store, ghosts
  <2>3. handle' = handle /\ meeting' = meeting /\ nextRec' = nextRec
    BY <1>1 DEF MeetingStartCall, slots
  <2>4. Goto(a, "meetStart")
    BY <1>1 DEF MeetingStartCall, Return
  <2>5. Path(a, me[a].at, "meetStart")
    BY <1>1 DEF MeetingStartCall, At, Calls, Path, Places, WatcherPlaces, OnRec, OnTracks,
      NoTracks, Minted, Opening, Flipping
  <2>6. Shapes' /\ Exclusive'
    BY <2>3, <2>4, <2>5, Going
  <2> QED
    BY <2>1, <2>2, <2>6 DEF IInv
<1>2. ASSUME MeetingStopCall(a) PROVE IInv'
  <2>1. Flags'
    BY <1>2, Zenon DEF MeetingStopCall, IInv, Flags, slots, ghosts
  <2>2. Stores'
    BY <1>2, LocalsAre, Writes
    DEF MeetingStopCall, At, Calls, IInv, Stores, slots, locks, store, ghosts
  <2>3. handle' = handle /\ meeting' = meeting /\ nextRec' = nextRec
    BY <1>2 DEF MeetingStopCall, slots
  <2>4. Goto(a, "meetStop")
    BY <1>2 DEF MeetingStopCall, Return
  <2>5. Path(a, me[a].at, "meetStop")
    BY <1>2 DEF MeetingStopCall, At, Calls, Path, Places, WatcherPlaces, OnRec, OnTracks,
      NoTracks, Minted, Opening, Flipping
  <2>6. Shapes' /\ Exclusive'
    BY <2>3, <2>4, <2>5, Going
  <2> QED
    BY <2>1, <2>2, <2>6 DEF IInv
<1>3. ASSUME ToggleCall(a) PROVE IInv'
  <2>1. Flags'
    BY <1>3, Zenon DEF ToggleCall, IInv, Flags, slots, ghosts
  <2>2. Stores'
    BY <1>3, LocalsAre, Writes
    DEF ToggleCall, At, Calls, IInv, Stores, slots, locks, store, ghosts
  <2>3. handle' = handle /\ meeting' = meeting /\ nextRec' = nextRec
    BY <1>3 DEF ToggleCall, slots
  <2>4. Goto(a, "toggle")
    BY <1>3 DEF ToggleCall, Return
  <2>5. Path(a, me[a].at, "toggle")
    BY <1>3 DEF ToggleCall, At, Calls, Path, Places, WatcherPlaces, OnRec, OnTracks,
      NoTracks, Minted, Opening, Flipping
  <2>6. Shapes' /\ Exclusive'
    BY <2>3, <2>4, <2>5, Going
  <2> QED
    BY <2>1, <2>2, <2>6 DEF IInv
<1>4. ASSUME ToggleDecide(a) PROVE IInv'
  <2>1. Flags'
    BY <1>4, Zenon DEF ToggleDecide, IInv, Flags, slots, ghosts
  <2>2. Stores'
    BY <1>4, LocalsAre, Writes
    DEF ToggleDecide, At, IInv, Stores, slots, locks, store, ghosts
  <2>3. handle' = handle /\ meeting' = meeting /\ nextRec' = nextRec
    BY <1>4 DEF ToggleDecide, slots
  <2>4. Goto(a, "meetStop") \/ Goto(a, "meetStart")
    BY <1>4 DEF ToggleDecide, Return
  <2>5. Path(a, me[a].at, "meetStop") /\ Path(a, me[a].at, "meetStart")
    BY <1>4 DEF ToggleDecide, At, Path, Places, WatcherPlaces, OnRec, OnTracks, NoTracks,
      Minted, Opening, Flipping
  <2>6. Shapes' /\ Exclusive'
    BY <2>3, <2>4, <2>5, Going
  <2> QED
    BY <2>1, <2>2, <2>6 DEF IInv
<1>5. ASSUME MeetingCheckActive(a) PROVE IInv'
  <2>1. Flags'
    BY <1>5, Zenon DEF MeetingCheckActive, IInv, Flags, slots, ghosts
  <2>2. Stores'
    BY <1>5, LocalsAre, Writes
    DEF MeetingCheckActive, At, IInv, Stores, slots, locks, store, ghosts
  <2>3. handle' = handle /\ meeting' = meeting /\ nextRec' = nextRec
    BY <1>5 DEF MeetingCheckActive, slots
  <2>4. Goto(a, "meetCheck") \/ me' = [me EXCEPT ![a] = Idle]
    BY <1>5 DEF MeetingCheckActive, Return
  <2>5. Path(a, me[a].at, "meetCheck")
    BY <1>5 DEF MeetingCheckActive, At, Path, Places, WatcherPlaces, OnRec, OnTracks,
      NoTracks, Minted, Opening, Flipping
  <2>6. Shapes' /\ Exclusive'
    BY <2>3, <2>4, <2>5, Going, Returning
  <2> QED
    BY <2>1, <2>2, <2>6 DEF IInv
<1>6. ASSUME MeetingCheckMeeting(a) PROVE IInv'
  <2>1. Flags'
    BY <1>6, Zenon DEF MeetingCheckMeeting, IInv, Flags, slots, ghosts
  <2>2. Stores'
    BY <1>6, LocalsAre, Writes
    DEF MeetingCheckMeeting, At, IInv, Stores, slots, locks, store, ghosts
  <2>3. handle' = handle /\ meeting' = meeting /\ nextRec' = nextRec
    BY <1>6 DEF MeetingCheckMeeting, slots
  <2>4. Goto(a, "meetOpen") \/ me' = [me EXCEPT ![a] = Idle]
    BY <1>6 DEF MeetingCheckMeeting, Return
  <2>5. Path(a, me[a].at, "meetOpen")
    BY <1>6 DEF MeetingCheckMeeting, At, Path, Places, WatcherPlaces, OnRec, OnTracks,
      NoTracks, Minted, Opening, Flipping
  <2>6. Shapes' /\ Exclusive'
    BY <2>3, <2>4, <2>5, Going, Returning
  <2> QED
    BY <2>1, <2>2, <2>6 DEF IInv
<1>7. ASSUME MeetingOpenSources(a) PROVE IInv'
  <2>1. Flags'
    BY <1>7, Zenon DEF MeetingOpenSources, IInv, Flags, slots, ghosts
  <2>2. Stores'
    BY <1>7, LocalsAre, Writes
    DEF MeetingOpenSources, At, IInv, Stores, slots, locks, store, ghosts
  <2>3. handle' = handle /\ meeting' = meeting /\ nextRec' = nextRec
    BY <1>7 DEF MeetingOpenSources, slots
  <2>4. Goto(a, "meetLock") \/ me' = [me EXCEPT ![a] = Idle]
    BY <1>7 DEF MeetingOpenSources, Return
  <2>5. Path(a, me[a].at, "meetLock")
    BY <1>7 DEF MeetingOpenSources, At, Path, Places, WatcherPlaces, OnRec, OnTracks,
      NoTracks, Minted, Opening, Flipping
  <2>6. Shapes' /\ Exclusive'
    BY <2>3, <2>4, <2>5, Going, Returning
  <2> QED
    BY <2>1, <2>2, <2>6 DEF IInv
<1>8. ASSUME MeetingInsertRow(a) PROVE IInv'
  <2>1. Flags'
    BY <1>8, Zenon DEF MeetingInsertRow, IInv, Flags, slots, ghosts
  <2>2. Stores'
    BY <1>8, LocalsAre, Writes
    DEF MeetingInsertRow, At, Statuses, IInv, Stores, slots, locks, store,
         ghosts
  <2>3. handle' = handle /\ meeting' = meeting /\ nextRec' = nextRec
    BY <1>8 DEF MeetingInsertRow, slots
  <2>4. Goto(a, "trackStart") \/ Goto(a, "abort")
    BY <1>8 DEF MeetingInsertRow, Return
  <2>5. Path(a, me[a].at, "trackStart") /\ Path(a, me[a].at, "abort")
    BY <1>8 DEF MeetingInsertRow, At, Path, Places, WatcherPlaces, OnRec, OnTracks,
      NoTracks, Minted, Opening, Flipping
  <2>6. Shapes' /\ Exclusive'
    BY <2>3, <2>4, <2>5, Going
  <2> QED
    BY <2>1, <2>2, <2>6 DEF IInv
<1>9. ASSUME MeetingTrackFails(a) PROVE IInv'
  <2>1. Flags'
    BY <1>9, Zenon DEF MeetingTrackFails, IInv, Flags, slots, ghosts
  <2>2. Stores'
    BY <1>9, LocalsAre, Writes
    DEF MeetingTrackFails, At, Statuses, IInv, Stores, slots, locks, store,
         ghosts
  <2>3. handle' = handle /\ meeting' = meeting /\ nextRec' = nextRec
    BY <1>9 DEF MeetingTrackFails, slots
  <2>4. Goto(a, "abort")
    BY <1>9 DEF MeetingTrackFails, Return
  <2>5. Path(a, me[a].at, "abort")
    BY <1>9 DEF MeetingTrackFails, At, Path, Places, WatcherPlaces, OnRec, OnTracks,
      NoTracks, Minted, Opening, Flipping
  <2>6. Shapes' /\ Exclusive'
    BY <2>3, <2>4, <2>5, Going
  <2> QED
    BY <2>1, <2>2, <2>6 DEF IInv
<1> QED
  BY <1>1, <1>2, <1>3, <1>4, <1>5, <1>6, <1>7, <1>8, <1>9

LEMMA MintSteps ==
  ASSUME IInv, NEW a \in Actors, StartReserve(a) \/ MeetingLock(a)
  PROVE  IInv'
<1>1. ASSUME StartReserve(a) PROVE IInv'
  <2>1. Flags'
    BY <1>1, Zenon DEF StartReserve, IInv, Flags, slots, ghosts
  <2>2. Stores'
    BY <1>1, BoundAssumption
    DEF StartReserve, Room, Recs, IInv, Stores, slots, locks, store, ghosts
  <2>3. Shape(a, me[a], nextRec) /\ me = [b \in Actors |-> me[b]]
    BY DEF IInv, Shapes
  <2> DEFINE m == [me[a] EXCEPT !.at = "insert", !.rec = nextRec]
  <2>4. me' = [me EXCEPT ![a] = m]
    BY <1>1, <2>3 DEF StartReserve
  <2>5. nextRec \in Recs /\ nextRec' = nextRec + 1 /\ nextRec \in Int
    BY <1>1, BoundAssumption DEF StartReserve, Room, Recs, IInv, Stores
  <2>6. /\ m \in Locals /\ m.at = "insert"
        /\ m.rec = nextRec /\ m.take = me[a].take /\ m.tracks = me[a].tracks
    BY <2>3, <2>5 DEF Shape, Locals, Places
  <2>7. a \notin Watchers
    BY <1>1, <2>3 DEF StartReserve, At, Shape, WatcherPlaces
  <2>8. Shape(a, m, nextRec')
    BY <2>5, <2>6, <2>7 DEF Shape, OnRec, OnTracks, NoTracks, Minted, Opening,
                            WatcherPlaces, Flipping
  <2>9. me[a].at \notin Flipping
    BY <1>1 DEF StartReserve, At, Flipping
  <2>10. \A r \in Recs : Claims(m, r) => Claims(me[a], r) \/ r = nextRec
    BY <2>6, <2>9 DEF Claims, Minted, Opening
  <2>11. handle' = handle /\ meeting' = meeting /\ meeting \in SeqRecs
    BY <1>1 DEF StartReserve, IInv, Stores
  <2>12. handle # nextRec /\ nextRec \notin Elems(meeting)
    BY <2>5 DEF IInv, Exclusive
  <2>13. \A r \in Recs :
           /\ Claims(m, r) => handle' # r /\ r \notin Elems(meeting')
           /\ handle' = r => r \notin Elems(meeting')
    BY <2>10, <2>11, <2>12 DEF IInv, Exclusive
  <2>14. \A r \in Recs :
           Claims(m, r) \/ handle' = r \/ r \in Elems(meeting') =>
             \/ Claims(me[a], r) \/ handle = r \/ r \in Elems(meeting)
             \/ nextRec <= r /\ r < nextRec'
    BY <2>5, <2>10, <2>11
  <2>15. nextRec' \in Int /\ nextRec <= nextRec' /\ meeting' \in SeqRecs
    BY <2>5, <2>11
  <2> HIDE DEF m
  <2>16. Shapes' /\ Exclusive'
    BY <2>4, <2>8, <2>13, <2>14, <2>15, Moves
  <2> QED
    BY <2>1, <2>2, <2>16 DEF IInv
<1>2. ASSUME MeetingLock(a) PROVE IInv'
  <2>1. Flags'
    BY <1>2, Zenon DEF MeetingLock, IInv, Flags, slots, ghosts
  <2>2. me[a].at = "meetLock" /\ a \in Clients
    <3>1. me[a].at = "meetLock" /\ Shape(a, me[a], nextRec)
      BY <1>2 DEF MeetingLock, At, IInv, Shapes
    <3> QED
      BY <3>1 DEF Shape, WatcherPlaces, Actors
  <2>3. Stores'
    BY <1>2, <2>2, Writes, BoundAssumption
    DEF MeetingLock, Room, IInv, Stores, slots, store, ghosts
  <2>4. CASE meeting # <<>> \/ ~Room(Tracks)
    <3>1. me' = [me EXCEPT ![a] = Idle]
          /\ handle' = handle /\ meeting' = meeting /\ nextRec' = nextRec
      BY <1>2, <2>4 DEF MeetingLock, Return, slots
    <3> QED
      BY <2>1, <2>3, <3>1, Returning DEF IInv
  <2>5. CASE ~(meeting # <<>> \/ ~Room(Tracks))
    <3> DEFINE m == [me[a] EXCEPT !.at = "trackRow", !.rec = nextRec]
    <3>1. Shape(a, me[a], nextRec) /\ me = [b \in Actors |-> me[b]]
      BY DEF IInv, Shapes
    <3>2. me' = [me EXCEPT ![a] = m]
      BY <1>2, <2>5, <3>1 DEF MeetingLock
    <3>3. /\ nextRec \in Recs /\ nextRec' = nextRec + Tracks /\ nextRec \in Int
          /\ Tracks \in Int /\ Tracks > 0
      BY <1>2, <2>5, BoundAssumption DEF MeetingLock, Room, Recs, IInv, Stores
    <3>4. /\ m \in Locals /\ m.at = "trackRow"
          /\ m.rec = nextRec /\ m.take = me[a].take /\ m.tracks = me[a].tracks
      BY <3>1, <3>3 DEF Shape, Locals, Places
    <3>5. me[a].tracks = <<>> /\ Len(me[a].tracks) = 0
      BY <2>2, <3>1 DEF Shape, NoTracks
    <3>6. a \notin Watchers
      BY <2>2, ActorsAssumption
    <3>7. Shape(a, m, nextRec')
      BY <3>3, <3>4, <3>5, <3>6
      DEF Shape, OnRec, OnTracks, NoTracks, Minted, Opening, WatcherPlaces, Flipping
    <3>8. \A r \in Recs :
            Claims(m, r) => Claims(me[a], r) \/ (nextRec <= r /\ r < nextRec')
      BY <2>2, <3>3, <3>4, <3>5 DEF Claims, Minted, Opening, Flipping
    <3>9. handle' = handle /\ meeting' = meeting /\ meeting \in SeqRecs
      BY <1>2 DEF MeetingLock, slots, IInv, Stores
    <3>10. \A r \in Recs : nextRec <= r => handle # r /\ r \notin Elems(meeting)
      BY <3>3 DEF IInv, Exclusive, Recs
    <3>11. \A r \in Recs :
             /\ Claims(m, r) => handle' # r /\ r \notin Elems(meeting')
             /\ handle' = r => r \notin Elems(meeting')
      BY <3>8, <3>9, <3>10 DEF IInv, Exclusive
    <3>12. \A r \in Recs :
             Claims(m, r) \/ handle' = r \/ r \in Elems(meeting') =>
               \/ Claims(me[a], r) \/ handle = r \/ r \in Elems(meeting)
               \/ nextRec <= r /\ r < nextRec'
      BY <3>8, <3>9
    <3>13. nextRec' \in Int /\ nextRec <= nextRec' /\ meeting' \in SeqRecs
      BY <3>3, <3>9
    <3> HIDE DEF m
    <3>14. Shapes' /\ Exclusive'
      BY <3>2, <3>7, <3>11, <3>12, <3>13, Moves
    <3> QED
      BY <2>1, <2>3, <3>14 DEF IInv
  <2> QED
    BY <2>4, <2>5
<1> QED
  BY <1>1, <1>2

LEMMA TakeSteps ==
  ASSUME IInv, NEW a \in Actors, StopTake(a) \/ CancelTake(a) \/ CancelTakeMeeting(a)
  PROVE  IInv'
<1>1. ASSUME StopTake(a) PROVE IInv'
  <2>1. Flags'
    BY <1>1, Zenon DEF StopTake, IInv, Flags, slots, ghosts
  <2>2. Stores'
    BY <1>1
    DEF StopTake, IInv, Stores, slots, locks, store, ghosts
  <2>3. Shape(a, me[a], nextRec) /\ me = [b \in Actors |-> me[b]]
    BY DEF IInv, Shapes
  <2> DEFINE m == [me[a] EXCEPT !.at = "teardown", !.rec = active, !.take = handle]
  <2>4. me' = [me EXCEPT ![a] = m]
    BY <1>1, <2>3 DEF StopTake
  <2>5. active \in Recs /\ handle \in Recs \cup {None}
    BY <1>1 DEF StopTake, IInv, Stores
  <2>6. /\ m \in Locals /\ m.at = "teardown"
        /\ m.rec = active /\ m.take = handle /\ m.tracks = me[a].tracks
    BY <2>3, <2>5 DEF Shape, Locals, Places
  <2>7. me[a].at \in NoTracks \ Flipping
    BY <1>1 DEF StopTake, CallsStop, Calls, At, NoTracks, WatcherPlaces, Flipping
  <2>8. Shape(a, m, nextRec)
    BY <2>3, <2>5, <2>6, <2>7
    DEF Shape, OnRec, OnTracks, NoTracks, Minted, Opening, WatcherPlaces, Flipping
  <2>9. \A r \in Recs : Claims(m, r) => Claims(me[a], r) \/ handle = r
    BY <2>6, <2>7 DEF Claims, Minted, Opening
  <2>10. handle' = None /\ meeting' = meeting /\ nextRec' = nextRec
    BY <1>1 DEF StopTake
  <2>11. nextRec' \in Int /\ nextRec <= nextRec' /\ meeting' \in SeqRecs
    BY <2>10, BoundAssumption DEF IInv, Stores
  <2>12. \A r \in Recs : handle' # r
    BY <2>10, ActorsAssumption
  <2>13. \A r \in Recs : Claims(m, r) => r \notin Elems(meeting')
    BY <2>9, <2>10 DEF IInv, Exclusive
  <2>14. \A r \in Recs :
           Claims(m, r) \/ handle' = r \/ r \in Elems(meeting') =>
             Claims(me[a], r) \/ handle = r \/ r \in Elems(meeting)
    BY <2>9, <2>10, <2>12
  <2> HIDE DEF m
  <2>15. Shapes' /\ Exclusive'
    BY <2>4, <2>8, <2>10, <2>11, <2>12, <2>13, <2>14, Moves
  <2> QED
    BY <2>1, <2>2, <2>15 DEF IInv
<1>2. ASSUME CancelTake(a) PROVE IInv'
  <2>1. Flags'
    BY <1>2, Zenon DEF CancelTake, IInv, Flags, slots, ghosts
  <2>2. Stores'
    BY <1>2
    DEF CancelTake, IInv, Stores, slots, locks, store, ghosts
  <2>3. Shape(a, me[a], nextRec) /\ me = [b \in Actors |-> me[b]]
    BY DEF IInv, Shapes
  <2> DEFINE m == [me[a] EXCEPT !.at = "cancel", !.rec = active, !.take = handle]
  <2>4. me' = [me EXCEPT ![a] = m]
    BY <1>2, <2>3 DEF CancelTake
  <2>5. active \in Recs /\ handle \in Recs \cup {None}
    BY <1>2 DEF CancelTake, IInv, Stores
  <2>6. /\ m \in Locals /\ m.at = "cancel"
        /\ m.rec = active /\ m.take = handle /\ m.tracks = me[a].tracks
    BY <2>3, <2>5 DEF Shape, Locals, Places
  <2>7. me[a].at \in NoTracks \ Flipping /\ a \notin Watchers
    BY <1>2, ActorsAssumption DEF CancelTake, Calls, At, NoTracks, WatcherPlaces, Flipping
  <2>8. Shape(a, m, nextRec)
    BY <2>3, <2>5, <2>6, <2>7
    DEF Shape, OnRec, OnTracks, NoTracks, Minted, Opening, WatcherPlaces, Flipping
  <2>9. \A r \in Recs : Claims(m, r) => Claims(me[a], r) \/ handle = r
    BY <2>6, <2>7 DEF Claims, Minted, Opening
  <2>10. handle' = None /\ meeting' = meeting /\ nextRec' = nextRec
    BY <1>2 DEF CancelTake
  <2>11. nextRec' \in Int /\ nextRec <= nextRec' /\ meeting' \in SeqRecs
    BY <2>10, BoundAssumption DEF IInv, Stores
  <2>12. \A r \in Recs : handle' # r
    BY <2>10, ActorsAssumption
  <2>13. \A r \in Recs : Claims(m, r) => r \notin Elems(meeting')
    BY <2>9, <2>10 DEF IInv, Exclusive
  <2>14. \A r \in Recs :
           Claims(m, r) \/ handle' = r \/ r \in Elems(meeting') =>
             Claims(me[a], r) \/ handle = r \/ r \in Elems(meeting)
    BY <2>9, <2>10, <2>12
  <2> HIDE DEF m
  <2>15. Shapes' /\ Exclusive'
    BY <2>4, <2>8, <2>10, <2>11, <2>12, <2>13, <2>14, Moves
  <2> QED
    BY <2>1, <2>2, <2>15 DEF IInv
<1>3. ASSUME CancelTakeMeeting(a) PROVE IInv'
  <2>1. Flags'
    BY <1>3, Zenon DEF CancelTakeMeeting, IInv, Flags, slots, ghosts
  <2>2. Stores'
    BY <1>3, EmptySeq
    DEF CancelTakeMeeting, IInv, Stores, slots, locks, store, ghosts
  <2>3. Shape(a, me[a], nextRec) /\ me = [b \in Actors |-> me[b]]
    BY DEF IInv, Shapes
  <2> DEFINE m == [me[a] EXCEPT !.at = "drop", !.tracks = meeting]
  <2>4. me' = [me EXCEPT ![a] = m]
    BY <1>3, <2>3 DEF CancelTakeMeeting
  <2>5. /\ m \in Locals /\ m.at = "drop"
        /\ m.rec = me[a].rec /\ m.take = me[a].take /\ m.tracks = meeting
    BY <2>3 DEF Shape, Locals, Places, IInv, Stores
  <2>6. a \notin Watchers
    BY <1>3, ActorsAssumption DEF CancelTakeMeeting, Calls
  <2>7. Shape(a, m, nextRec)
    BY <2>3, <2>5, <2>6
    DEF Shape, OnRec, OnTracks, NoTracks, Minted, Opening, WatcherPlaces, Flipping
  <2>8. \A r \in Recs : Claims(m, r) => Claims(me[a], r) \/ r \in Elems(meeting)
    BY <2>5 DEF Claims, Minted, Opening
  <2>9. handle' = handle /\ meeting' = <<>> /\ nextRec' = nextRec
    BY <1>3 DEF CancelTakeMeeting
  <2>10. nextRec' \in Int /\ nextRec <= nextRec' /\ meeting' \in SeqRecs
    BY <2>9, EmptySeq, BoundAssumption DEF IInv, Stores
  <2>11. \A r \in Recs : r \notin Elems(meeting')
    BY <2>9, EmptySeq
  <2>12. \A r \in Recs : Claims(m, r) => handle' # r
    BY <2>8, <2>9 DEF IInv, Exclusive
  <2>13. \A r \in Recs :
           Claims(m, r) \/ handle' = r \/ r \in Elems(meeting') =>
             Claims(me[a], r) \/ handle = r \/ r \in Elems(meeting)
    BY <2>8, <2>9, <2>11
  <2> HIDE DEF m
  <2>14. Shapes' /\ Exclusive'
    BY <2>4, <2>7, <2>9, <2>10, <2>11, <2>12, <2>13, Moves
  <2> QED
    BY <2>1, <2>2, <2>14 DEF IInv
<1> QED
  BY <1>1, <1>2, <1>3

LEMMA StoreStep ==
  ASSUME IInv, NEW a \in Actors, StartStoreHandle(a)
  PROVE  IInv'
<1> DEFINE rec == me[a].rec
           w == Watcher(rec)
<1>1. Shape(a, me[a], nextRec) /\ me = [b \in Actors |-> me[b]] /\ me[a].at = "store"
  BY DEF IInv, Shapes, StartStoreHandle, At
<1>2. rec \in Recs /\ a \notin Watchers
  BY <1>1 DEF Shape, OnRec, Minted, WatcherPlaces
<1>3. w \in Actors /\ w \in Watchers /\ w # a
  BY <1>2 DEF Actors, Watchers
<1>4. PICK q \in {"armed", "fired"} :
        me' = [me EXCEPT ![a] = Idle, ![w].at = q]
  BY DEF StartStoreHandle
<1>5. handle' = rec /\ meeting' = meeting /\ nextRec' = nextRec
  BY DEF StartStoreHandle
<1>6. Flags'
  BY DEF StartStoreHandle, IInv, Flags, ghosts
<1>7. Stores'
  BY <1>2, Writes DEF StartStoreHandle, IInv, Stores, locks, store, ghosts
<1> HIDE DEF w
<1>8. me'[a] = Idle /\ me' = [b \in Actors |-> me'[b]]
        /\ me'[w] = [me[w] EXCEPT !.at = q]
        /\ \A b \in Actors : b # a /\ b # w => me'[b] = me[b]
  BY <1>1, <1>3, <1>4
<1>9. Shape(a, Idle, nextRec') /\ \A r \in Recs : ~Claims(Idle, r)
  BY EmptySeq, ActorsAssumption
  DEF Shape, Locals, Places, Idle, WatcherPlaces, OnRec, OnTracks, NoTracks, Minted,
      Opening, Flipping, Claims
<1>10. Shape(w, me[w], nextRec) /\ me[w].at \in WatcherPlaces
  BY <1>3 DEF IInv, Shapes, Shape
<1>11. /\ me'[w] \in Locals /\ me'[w].at = q /\ me'[w].rec = me[w].rec
       /\ me'[w].take = me[w].take /\ me'[w].tracks = me[w].tracks
  BY <1>8, <1>10 DEF Shape, Locals, Places
<1>12. Shape(w, me'[w], nextRec')
  BY <1>10, <1>11
  DEF Shape, OnRec, OnTracks, NoTracks, Minted, Opening, WatcherPlaces, Flipping
<1>13. \A r \in Recs : Claims(me'[w], r) => Claims(me[w], r)
  BY <1>10, <1>11 DEF Claims, Minted, Opening, WatcherPlaces, Flipping
<1>14. \A b \in Actors \ {a} :
         /\ Shape(b, me'[b], nextRec')
         /\ \A r \in Recs : Claims(me'[b], r) => Claims(me[b], r)
  <2> SUFFICES ASSUME NEW b \in Actors \ {a}
               PROVE  /\ Shape(b, me'[b], nextRec')
                      /\ \A r \in Recs : Claims(me'[b], r) => Claims(me[b], r)
    OBVIOUS
  <2>1. CASE b = w
    BY <2>1, <1>12, <1>13
  <2>2. CASE b # w
    BY <2>2, <1>5, <1>8 DEF IInv, Shapes
  <2> QED
    BY <2>1, <2>2
<1>15. nextRec' \in Int /\ nextRec <= nextRec' /\ meeting' \in SeqRecs
  BY <1>5, BoundAssumption DEF IInv, Stores
<1>16. Claims(me[a], rec)
  BY <1>1 DEF Claims, Minted
<1>17. rec \notin Elems(meeting)
  BY <1>2, <1>16 DEF IInv, Exclusive
<1> HIDE DEF rec, Claims, Shape
<1>18. Shapes' /\ Exclusive'
  BY <1>5, <1>8, <1>9, <1>14, <1>15, <1>16, <1>17, Steps
<1> QED
  BY <1>6, <1>7, <1>18 DEF IInv

\* What is left of the recordings minted for a meeting when one has started.
LEMMA Remaining ==
  ASSUME NEW x \in Int, NEW r \in Int, NEW t \in Int, NEW l \in Int,
         NEW k, k = l + 1, x + 1 <= r, r < x + 1 + t - k
  PROVE  x <= r /\ r < x + t - l
OBVIOUS

LEMMA TrackStep ==
  ASSUME IInv, NEW a \in Actors, MeetingStartTrack(a)
  PROVE  IInv'
<1> DEFINE rec == me[a].rec
           started == Append(me[a].tracks, rec)
<1>1. /\ Shape(a, me[a], nextRec) /\ me = [b \in Actors |-> me[b]]
      /\ me[a].at = "trackStart"
  BY DEF IInv, Shapes, MeetingStartTrack, At
<1>2. /\ rec \in Recs /\ a \notin Watchers /\ me[a].tracks \in SeqRecs
      /\ Len(me[a].tracks) < Tracks /\ rec + Tracks - Len(me[a].tracks) <= nextRec
  BY <1>1 DEF Shape, Locals, OnRec, Opening, WatcherPlaces
<1>3. /\ started \in SeqRecs /\ Len(started) = Len(me[a].tracks) + 1
      /\ Elems(started) = Elems(me[a].tracks) \cup {rec}
  BY <1>2, AppendTo
<1>4. /\ rec \in Int /\ Tracks \in Int /\ Len(me[a].tracks) \in Nat
      /\ nextRec \in 1 .. MaxRecs + 1 /\ nextRec \in Int /\ MaxRecs \in Nat
  BY <1>2, SeqRecsAre, BoundAssumption DEF Recs, IInv, Stores
<1>5. \A r \in Elems(started) : r \in Recs /\ Claims(me[a], r)
  BY <1>1, <1>2, <1>3, <1>4, ElemsAreRecs DEF Claims, Opening, Flipping
<1>6. handle' = handle /\ nextRec' = nextRec
  BY DEF MeetingStartTrack
<1>7. CASE Len(started) < Tracks
  <2>1. Flags'
    BY <1>7, Zenon DEF MeetingStartTrack, IInv, Flags, ghosts
  <2>2. Stores'
    BY <1>7 DEF MeetingStartTrack, IInv, Stores, locks, store, ghosts
  <2> DEFINE m == [me[a] EXCEPT !.at = "trackRow", !.rec = rec + 1, !.tracks = started]
  <2>3. me' = [me EXCEPT ![a] = m] /\ meeting' = meeting
    BY <1>1, <1>7 DEF MeetingStartTrack
  <2>4. rec + 1 \in Recs
    BY <1>2, <1>3, <1>4, <1>7 DEF Recs
  <2> HIDE DEF started, rec
  <2>5. /\ m \in Locals /\ m.at = "trackRow"
        /\ m.rec = rec + 1 /\ m.take = me[a].take /\ m.tracks = started
    BY <1>1, <1>3, <2>4 DEF Shape, Locals, Places
  <2> HIDE DEF m
  <2>6. Shape(a, m, nextRec)
    BY <1>2, <1>3, <1>4, <1>7, <2>4, <2>5
    DEF Shape, OnRec, OnTracks, NoTracks, Minted, Opening, WatcherPlaces, Flipping
  <2>7. ASSUME NEW r \in Recs, Claims(m, r) PROVE Claims(me[a], r)
    <3>1. CASE m.take = r
      BY <3>1, <2>5 DEF Claims
    <3>2. CASE r \in Elems(started)
      BY <3>2, <1>5
    <3>3. CASE rec + 1 <= r /\ r < rec + 1 + Tracks - Len(started)
      <4>1. rec <= r /\ r < rec + Tracks - Len(me[a].tracks)
        <5>1. /\ r \in Int /\ Len(me[a].tracks) \in Int
              /\ Len(started) = Len(me[a].tracks) + 1
          BY <1>3, <1>4 DEF Recs
        <5> DEFINE k == Len(started)
        <5>2. k = Len(me[a].tracks) + 1 /\ rec + 1 <= r /\ r < rec + 1 + Tracks - k
          BY <3>3, <5>1, Zenon
        <5> HIDE DEF k
        <5> QED
          BY <1>4, <5>1, <5>2, Remaining
      <4> QED
        BY <4>1, <1>1 DEF Claims, Opening, rec
    <3> QED
      BY <2>5, <2>7, <3>1, <3>2, <3>3 DEF Claims, Minted
  <2>8. Shapes' /\ Exclusive'
    BY <1>6, <2>3, <2>6, <2>7, Stays
  <2> QED
    BY <2>1, <2>2, <2>8 DEF IInv
<1>8. CASE ~(Len(started) < Tracks)
  <2>1. Flags'
    BY <1>8 DEF MeetingStartTrack, IInv, Flags, ghosts
  <2>2. meeting' = started /\ Return(a)
    BY <1>8 DEF MeetingStartTrack
  <2>3. Stores'
    BY <1>3, <1>8, <2>2, Writes DEF MeetingStartTrack, IInv, Stores, store, ghosts
  <2> HIDE DEF started, rec
  <2>4. Shape(a, Idle, nextRec') /\ \A r \in Recs : ~Claims(Idle, r)
    BY EmptySeq, ActorsAssumption
    DEF Shape, Locals, Places, Idle, WatcherPlaces, OnRec, OnTracks, NoTracks, Minted,
        Opening, Flipping, Claims
  <2>5. me' = [me EXCEPT ![a] = Idle]
    BY <2>2 DEF Return
  <2>6. \A r \in Recs : handle' = r => r \notin Elems(meeting')
    BY <1>5, <1>6, <2>2 DEF IInv, Exclusive
  <2>7. nextRec' \in Int /\ nextRec <= nextRec' /\ meeting' \in SeqRecs
    BY <1>3, <1>4, <1>6, <2>2
  <2>8. \A r \in Recs :
          Claims(Idle, r) \/ handle' = r \/ r \in Elems(meeting') =>
            Claims(me[a], r) \/ handle = r
    BY <1>5, <1>6, <2>2, <2>4
  <2>9. Shapes' /\ Exclusive'
    BY <2>4, <2>5, <2>6, <2>7, <2>8, Moves
  <2> QED
    BY <2>1, <2>3, <2>9 DEF IInv
<1> QED
  BY <1>7, <1>8

-----------------------------------------------------------------------------
(* The invariant holds initially and every step preserves it.              *)

LEMMA InitIInv == Init => IInv
<1> SUFFICES ASSUME Init PROVE IInv
  OBVIOUS
<1>1. Flags
  BY DEF Init, Flags
<1>2. Stores
  BY EmptySeq, BoundAssumption DEF Init, Stores, Statuses
<1>3. \A a \in Actors : me[a] = Idle
  BY DEF Init
<1>4. ASSUME NEW a \in Actors PROVE Shape(a, Idle, nextRec)
  BY EmptySeq
  DEF Shape, Locals, Places, Idle, WatcherPlaces, OnRec, OnTracks, NoTracks, Minted,
      Opening, Flipping
<1>5. \A r \in Recs : ~Claims(Idle, r)
  BY EmptySeq, ActorsAssumption DEF Claims, Idle, Minted, Opening
<1>6. Shapes
  BY <1>3, <1>4 DEF Init, Shapes
<1>7. \A r \in Recs : handle # r /\ r \notin Elems(meeting)
  BY EmptySeq, ActorsAssumption DEF Init
<1>8. Elems(meeting) = {}
  BY EmptySeq DEF Init
<1> HIDE DEF Claims
<1>9. Exclusive
  BY <1>3, <1>5, <1>7, <1>8 DEF Exclusive
<1> QED
  BY <1>1, <1>2, <1>6, <1>9 DEF IInv

LEMMA StutterIInv == IInv /\ UNCHANGED vars => IInv'
<1> SUFFICES ASSUME IInv, UNCHANGED vars PROVE IInv'
  OBVIOUS
<1>1. me' = me /\ handle' = handle /\ meeting' = meeting /\ nextRec' = nextRec
  BY DEF vars, slots
<1>2. Flags' /\ Stores'
  BY DEF IInv, Flags, Stores, vars, slots, locks, store, ghosts
<1> QED
  BY <1>1, <1>2, Rests DEF IInv

LEMMA StepIInv == IInv /\ [Next]_vars => IInv'
<1> SUFFICES ASSUME IInv, [Next]_vars PROVE IInv'
  OBVIOUS
<1>1. ASSUME NEW a \in Clients, Request(a) PROVE IInv'
  <2>1. a \in Actors
    BY DEF Actors
  <2> QED
    BY <1>1, <2>1, StartSteps, StopSteps, TakeSteps, PauseSteps, MeetingSteps DEF Request
<1>2. ASSUME NEW a \in Actors, Acquires(a) PROVE IInv'
  BY <1>2, StartSteps, MintSteps, MeetingSteps, MeetingStopSteps DEF Acquires
<1>3. ASSUME NEW a \in Actors, Continues(a) PROVE IInv'
  BY <1>3, StartSteps, StoreStep, StopSteps, CancelSteps, PauseSteps, MeetingSteps,
     TrackStep, MeetingStopSteps DEF Continues
<1>4. ASSUME NEW r \in Recs, CaptureEnds(r) PROVE IInv'
  BY <1>4, WatcherSteps
<1>5. ASSUME NEW r \in Recs, WatcherWakes(r) PROVE IInv'
  <2>1. Watcher(r) \in Actors
    BY DEF Actors, Watchers
  <2> QED
    BY <1>5, <2>1, TakeSteps, StopSteps, WatcherSteps DEF WatcherWakes
<1> QED
  BY <1>1, <1>2, <1>3, <1>4, <1>5, StutterIInv DEF Next

LEMMA Invariance == Spec => []IInv
BY InitIInv, StepIInv, PTL DEF Spec

-----------------------------------------------------------------------------
(* Theorems.                                                               *)

(* Every variable keeps its type, whatever the handlers interleave.        *)
THEOREM TypeCorrect == Spec => []TypeOK
<1>1. IInv => TypeOK
  <2> SUFFICES ASSUME IInv PROVE TypeOK
    OBVIOUS
  <2>1. me \in [Actors -> [at : Places, rec : Recs \cup {None},
                           take : Recs \cup {None}, tracks : SeqRecs]]
    BY DEF IInv, Shapes, Shape, Locals
  <2>2. Flags /\ Stores
    BY DEF IInv
  <2> QED
    BY <2>1, <2>2 DEF TypeOK, Flags, Stores
<1> QED
  BY <1>1, Invariance, PTL

(* A capture is driven from at most one place (the takes of stop, cancel,  *)
(* stop_meeting and the drops of a failed start), for any number of        *)
(* connections, watchers, recordings, tracks and errors.                   *)
THEOREM CaptureHasOneHolder == Spec => []OneHolder
<1>1. IInv => OneHolder
  <2> SUFFICES ASSUME IInv, NEW r \in Recs PROVE Cardinality(Holders(r)) <= 1
    BY DEF OneHolder
  <2>1. \A a \in Actors : HeldBy(a, r) => Claims(me[a], r)
    BY DEF HeldBy, At, Claims, Minted, Flipping
  <2>2. \A a, b \in Actors : HeldBy(a, r) /\ HeldBy(b, r) => a = b
    BY <2>1 DEF IInv, Exclusive
  <2>3. \A a \in Actors : HeldBy(a, r) => handle # r /\ r \notin Elems(meeting)
    BY <2>1 DEF IInv, Exclusive
  <2>4. handle = r => r \notin Elems(meeting)
    BY DEF IInv, Exclusive
  <2>5. \A x, y \in Holders(r) : x = y
    BY <2>2, <2>3, <2>4 DEF Holders
  <2>6. CASE Holders(r) = {}
    BY <2>6, FS_EmptySet
  <2>7. CASE Holders(r) # {}
    <3>1. PICK x : x \in Holders(r)
      BY <2>7
    <3>2. Holders(r) = {x}
      BY <2>5, <3>1
    <3> QED
      BY <3>2, FS_Singleton
  <2> QED
    BY <2>6, <2>7
<1> QED
  BY <1>1, Invariance, PTL

-----------------------------------------------------------------------------
(* No capture is left running behind everybody's back.                     *)
(*                                                                         *)
(* Tidy: a handler has a recorder or tracks in its hands only where it     *)
(* works on them, and past the step that ends them they do not run.  Kept: *)
(* what runs is in somebody's hands.  Home: until a stop or cancel has hit *)
(* a start in flight, a stored recorder is that of the slot's recording,   *)
(* the slot of a start is its own, and there is one start at a time.       *)
(* Sleeping: the watcher of a recording is spawned by the last step of its *)
(* start.                                                                  *)

Starting == {"insert", "open", "store", "clear"}
Ending == {"join", "mark", "handoff", "enqueue", "delete"}
Handling == Ending \cup {"teardown", "cancel"}
Halting == {"align", "trackWav", "trackQueue", "trackFail"}
Tracking == {"drop", "abort", "haltAll"} \cup Opening \cup Flipping \cup Halting

Neat(m, c) ==
  /\ m.at \notin Handling => m.take = None
  /\ m.at \notin Tracking => m.tracks = <<>>
  /\ m.at \in Ending => \A r \in Recs : m.take = r => c[r] # "live"
  /\ m.at \in Halting => \A r \in Elems(m.tracks) : c[r] # "live"

Holds(m, r) ==
  \/ m.take = r
  \/ m.at = "store" /\ m.rec = r
  \/ m.at \notin Flipping /\ r \in Elems(m.tracks)

Tidy == \A a \in Actors : Neat(me[a], cap)

Kept ==
  \A r \in Recs : cap[r] = "live" =>
    \/ handle = r \/ r \in Elems(meeting)
    \/ \E a \in Actors : Holds(me[a], r)

Home ==
  /\ handle # None => active = handle
  /\ \A a \in Actors : me[a].at \in Starting => active = me[a].rec /\ handle = None
  /\ \A a, b \in Actors : me[a].at \in Starting /\ me[b].at \in Starting => a = b

HomeUnlessRaced == ~raced => Home

Sleeping ==
  \A r \in Recs : me[Watcher(r)].at # "idle" =>
    r < nextRec /\ \A a \in Actors : me[a].at \in Minted => me[a].rec # r

JInv == Tidy /\ Kept /\ HomeUnlessRaced /\ Sleeping

LEMMA HoldsClaims ==
  ASSUME NEW m, NEW r, Holds(m, r)
  PROVE  Claims(m, r)
BY DEF Holds, Claims, Minted

\* One handler's locals become m; what starts to run it has minted itself,
\* and what runs does not fall out of its hands, the slot's or the meeting's.
LEMMA Keeps ==
  ASSUME IInv, JInv, NEW a \in Actors, NEW m,
         me' = [me EXCEPT ![a] = m], Neat(m, cap'),
         \A r \in Recs : cap'[r] = "live" =>
           \/ cap[r] = "live"
           \/ Claims(me[a], r) /\ (Holds(m, r) \/ r \in Elems(meeting')),
         \A r \in Recs :
           cap'[r] = "live" /\ (Holds(me[a], r) \/ handle = r \/ r \in Elems(meeting)) =>
             Holds(m, r) \/ handle' = r \/ r \in Elems(meeting')
  PROVE  Tidy' /\ Kept'
<1>1. me'[a] = m /\ \A b \in Actors : b # a => me'[b] = me[b]
  BY DEF IInv, Shapes
<1>2. ASSUME NEW b \in Actors, b # a PROVE Neat(me[b], cap')
  <2>1. Neat(me[b], cap) /\ me[b].tracks \in SeqRecs
    BY LocalsAre DEF JInv, Tidy
  <2>2. ASSUME NEW r \in Recs, Claims(me[b], r), cap[r] # "live" PROVE cap'[r] # "live"
    BY <1>2, <2>2 DEF IInv, Exclusive
  <2>3. me[b].at \in Ending => \A r \in Recs : me[b].take = r => cap'[r] # "live"
    BY <2>1, <2>2 DEF Neat, Claims
  <2>4. me[b].at \in Halting => \A r \in Elems(me[b].tracks) : cap'[r] # "live"
    <3> SUFFICES ASSUME me[b].at \in Halting, NEW r \in Elems(me[b].tracks)
                 PROVE cap'[r] # "live"
      OBVIOUS
    <3>1. r \in Recs
      BY <2>1, ElemsAreRecs
    <3>2. Claims(me[b], r)
      BY DEF Claims, Halting, Flipping
    <3> QED
      BY <2>1, <2>2, <3>1, <3>2 DEF Neat
  <2> QED
    BY <2>1, <2>3, <2>4 DEF Neat
<1>3. Tidy'
  BY <1>1, <1>2 DEF Tidy
<1>4. ASSUME NEW r \in Recs, cap'[r] = "live"
      PROVE  handle' = r \/ r \in Elems(meeting') \/ \E b \in Actors : Holds(me'[b], r)
  <2>1. CASE cap[r] # "live"
    BY <1>1, <1>4, <2>1
  <2>2. CASE cap[r] = "live"
    <3>1. handle = r \/ r \in Elems(meeting) \/ \E b \in Actors : Holds(me[b], r)
      BY <2>2 DEF JInv, Kept
    <3>2. CASE handle = r \/ r \in Elems(meeting) \/ Holds(me[a], r)
      BY <1>1, <1>4, <3>2
    <3>3. CASE \E b \in Actors \ {a} : Holds(me[b], r)
      BY <1>1, <3>3
    <3> QED
      BY <3>1, <3>2, <3>3
  <2> QED
    BY <2>1, <2>2
<1>5. Kept'
  BY <1>4 DEF Kept
<1> QED
  BY <1>3, <1>5

LEMMA HomeStays ==
  ASSUME IInv, JInv, NEW a \in Actors, NEW m, me' = [me EXCEPT ![a] = m],
         m.at \in Starting => me[a].at \in Starting /\ m.rec = me[a].rec,
         active' = active, handle' = handle, raced' = raced
  PROVE  HomeUnlessRaced'
<1>1. me'[a] = m /\ \A b \in Actors : b # a => me'[b] = me[b]
  BY DEF IInv, Shapes
<1>2. \A b \in Actors : me'[b].at \in Starting =>
        me[b].at \in Starting /\ me'[b].rec = me[b].rec
  BY <1>1
<1>3. Home => Home'
  BY <1>2 DEF Home
<1>4. raced' = raced /\ (~raced => Home)
  BY DEF JInv, HomeUnlessRaced
<1> QED
  BY <1>3, <1>4 DEF HomeUnlessRaced

LEMMA SleepStays ==
  ASSUME IInv, JInv, NEW a \in Actors, NEW m, me' = [me EXCEPT ![a] = m],
         nextRec' \in Int, nextRec <= nextRec',
         m.at # "idle" /\ me[a].at = "idle" => a \in Clients,
         m.at \in Minted =>
           (me[a].at \in Minted /\ m.rec = me[a].rec) \/ m.rec = nextRec
  PROVE  Sleeping'
<1>1. me'[a] = m /\ \A b \in Actors : b # a => me'[b] = me[b]
  BY DEF IInv, Shapes
<1>2. nextRec \in Int /\ \A r \in Recs : r \in Int /\ Watcher(r) \in Actors
  BY BoundAssumption DEF IInv, Stores, Recs, Actors, Watchers
<1> SUFFICES ASSUME NEW r \in Recs, me'[Watcher(r)].at # "idle"
             PROVE  /\ r < nextRec'
                    /\ \A b \in Actors : me'[b].at \in Minted => me'[b].rec # r
  BY DEF Sleeping
<1>3. Watcher(r) \notin Clients
  BY ActorsAssumption DEF Watchers
<1>4. me[Watcher(r)].at # "idle"
  BY <1>1, <1>2, <1>3
<1>5. r < nextRec /\ \A b \in Actors : me[b].at \in Minted => me[b].rec # r
  BY <1>4 DEF JInv, Sleeping
<1>6. ASSUME NEW b \in Actors, me'[b].at \in Minted PROVE me'[b].rec # r
  BY <1>1, <1>2, <1>5, <1>6
<1> QED
  BY <1>2, <1>5, <1>6

\* From which place to which a handler may go with the same locals, when
\* the captures, the slot and the meeting stay.
Way(p, q) ==
  /\ q \notin Handling => p \notin Handling
  /\ q \notin Tracking => p \notin Tracking
  /\ q \in Ending => p \in Ending
  /\ q \in Halting => p \in Halting
  /\ p # "store"
  /\ q \in Flipping => p \in Flipping
  /\ q \in Starting => p \in Starting
  /\ q \in Minted => p \in Minted

Calm ==
  /\ cap' = cap /\ active' = active /\ handle' = handle /\ meeting' = meeting
  /\ nextRec' = nextRec /\ raced' = raced

LEMMA Goes ==
  ASSUME IInv, JInv, NEW a \in Actors, NEW q, Goto(a, q), Way(me[a].at, q), Calm,
         me[a].at = "idle" => a \in Clients
  PROVE  JInv'
<1> DEFINE m == [me[a] EXCEPT !.at = q]
<1>1. me[a] \in Locals /\ me = [b \in Actors |-> me[b]] /\ Neat(me[a], cap)
  BY DEF IInv, Shapes, Shape, JInv, Tidy
<1>2. me' = [me EXCEPT ![a] = m]
  BY <1>1 DEF Goto
<1>3. m.at = q /\ m.rec = me[a].rec /\ m.take = me[a].take /\ m.tracks = me[a].tracks
  BY <1>1 DEF Locals
<1> HIDE DEF m
<1>4. Neat(m, cap')
  BY <1>1, <1>3 DEF Neat, Way, Calm
<1>5. \A r \in Recs : Holds(me[a], r) => Holds(m, r)
  BY <1>3 DEF Holds, Way
<1>6. Tidy' /\ Kept'
  BY <1>2, <1>4, <1>5, Keeps DEF Calm
<1>7. HomeUnlessRaced'
  BY <1>2, <1>3, HomeStays DEF Calm, Way
<1>8. nextRec' \in Int /\ nextRec <= nextRec'
  BY BoundAssumption DEF Calm, IInv, Stores
<1>9. Sleeping'
  BY <1>2, <1>3, <1>8, SleepStays DEF Way
<1> QED
  BY <1>6, <1>7, <1>9 DEF JInv

LEMMA IdleIsNeat ==
  ASSUME NEW c
  PROVE  /\ Neat(Idle, c) /\ Idle.at \notin Starting
         /\ Idle.at = "idle" /\ Idle.at \notin Minted
         /\ \A r \in Recs : ~Holds(Idle, r)
BY EmptySeq, ActorsAssumption
DEF Neat, Idle, Holds, Starting, Minted, Handling, Ending, Tracking, Halting, Opening,
    Flipping

\* A handler that returns has nothing that runs in its hands.
LEMMA Comes ==
  ASSUME IInv, JInv, NEW a \in Actors, me' = [me EXCEPT ![a] = Idle], Calm,
         me[a].at \notin {"store", "teardown", "cancel"},
         me[a].at \in Flipping \/ \A r \in Elems(me[a].tracks) : cap[r] # "live"
  PROVE  JInv'
<1>1. Neat(me[a], cap)
  BY DEF JInv, Tidy
<1>2. \A r \in Recs : cap[r] = "live" => ~Holds(me[a], r)
  BY <1>1, ActorsAssumption DEF Neat, Holds, Handling
<1>3. Tidy' /\ Kept'
  BY <1>2, IdleIsNeat, Keeps DEF Calm
<1>4. HomeUnlessRaced'
  BY IdleIsNeat, HomeStays DEF Calm
<1>5. nextRec' \in Int /\ nextRec <= nextRec'
  BY BoundAssumption DEF Calm, IInv, Stores
<1>6. Sleeping'
  BY <1>5, IdleIsNeat, SleepStays
<1> QED
  BY <1>3, <1>4, <1>6 DEF JInv

\* What a handler leaves at these places it has ended, or never had.
LEMMA Leaves ==
  ASSUME IInv, JInv, NEW a \in Actors, me' = [me EXCEPT ![a] = Idle], Calm,
         me[a].at \notin {"store", "teardown", "cancel", "drop", "abort", "haltAll"} \cup Opening
  PROVE  JInv'
<1>1. Neat(me[a], cap)
  BY DEF JInv, Tidy
<1>2. me[a].at \in Flipping \/ \A r \in Elems(me[a].tracks) : cap[r] # "live"
  BY <1>1, EmptySeq DEF Neat, Tracking
<1> QED
  BY <1>2, Comes

LEMMA NothingChanges ==
  ASSUME IInv, JInv, me' = me, Calm
  PROVE  JInv'
<1>1. Tidy' /\ Kept' /\ Sleeping'
  BY DEF JInv, Tidy, Kept, Sleeping, Calm
<1>2. Home => Home'
  BY DEF Home, Calm
<1>3. raced' = raced /\ (~raced => Home)
  BY DEF JInv, HomeUnlessRaced, Calm
<1>4. HomeUnlessRaced'
  BY <1>2, <1>3, Zenon DEF HomeUnlessRaced
<1> QED
  BY <1>1, <1>4 DEF JInv

LEMMA HeadOrTail ==
  ASSUME NEW t \in SeqRecs, t # <<>>, NEW r \in Elems(t)
  PROVE  r = Head(t) \/ r \in Elems(Tail(t))
<1>1. t \in Seq(Recs) /\ Len(t) \in Nat /\ Len(t) # 0 /\ Head(t) = t[1]
  BY SeqRecsAre
<1>2. /\ Tail(t) \in Seq(Recs) /\ DOMAIN Tail(t) = 1 .. Len(t) - 1
      /\ \A j \in 1 .. Len(t) - 1 : Tail(t)[j] = t[j + 1]
  BY <1>1
<1>3. PICK i \in 1 .. Len(t) : r = t[i]
  BY <1>1 DEF Elems
<1>4. CASE i = 1
  BY <1>1, <1>3, <1>4
<1>5. CASE i # 1
  <2>1. i - 1 \in DOMAIN Tail(t) /\ Tail(t)[i - 1] = r
    BY <1>1, <1>2, <1>3, <1>5
  <2> QED
    BY <2>1 DEF Elems
<1> QED
  BY <1>4, <1>5

\* The head of the list is dropped when its capture does not run.
LEMMA NextTrackKeeps ==
  ASSUME IInv, JInv, NEW a \in Actors, NEW q, NextTrack(a, q), me[a].tracks # <<>>, Calm,
         \/ me[a].at \in Flipping /\ q \in Flipping
         \/ /\ me[a].at \in {"drop", "abort"} /\ q = me[a].at
            /\ cap[Head(me[a].tracks)] # "live"
         \/ me[a].at \in Halting /\ q \in Halting
  PROVE  JInv'
<1>1. /\ me[a] \in Locals /\ me = [b \in Actors |-> me[b]] /\ Neat(me[a], cap)
      /\ me[a].tracks \in SeqRecs
  BY DEF IInv, Shapes, Shape, JInv, Tidy, Locals
<1>2. \/ me[a].at \in Flipping /\ q \in Flipping
      \/ /\ me[a].at \notin Flipping /\ q \notin Flipping
         /\ cap[Head(me[a].tracks)] # "live"
  BY <1>1, HeadTail DEF Flipping, Halting, Neat
<1>3. /\ me[a].at \notin Handling /\ q \notin Handling /\ q \in Tracking
      /\ q \in Halting => me[a].at \in Halting
      /\ q \notin Starting /\ q # "store" /\ q \notin Ending
      /\ me[a].at \notin {"store", "teardown", "cancel"}
  BY DEF Handling, Ending, Tracking, Halting, Flipping, Starting
<1>4. CASE Len(me[a].tracks) = 1
  <2>1. me' = [me EXCEPT ![a] = Idle]
    BY <1>4 DEF NextTrack, Return
  <2>2. \A r \in Elems(me[a].tracks) : r = Head(me[a].tracks)
    BY <1>1, <1>4, SeqRecsAre DEF Elems
  <2> QED
    BY <1>2, <1>3, <2>1, <2>2, Comes
<1>5. CASE Len(me[a].tracks) # 1
  <2> DEFINE m == [me[a] EXCEPT !.at = q, !.tracks = Tail(@)]
  <2>1. me' = [me EXCEPT ![a] = m]
    BY <1>1, <1>5 DEF NextTrack
  <2>2. /\ m.at = q /\ m.rec = me[a].rec /\ m.take = me[a].take
        /\ m.tracks = Tail(me[a].tracks)
    BY <1>1 DEF Locals
  <2> HIDE DEF m
  <2>3. Elems(Tail(me[a].tracks)) \subseteq Elems(me[a].tracks)
    BY <1>1, HeadTail
  <2>4. \A r \in Elems(me[a].tracks) :
          r = Head(me[a].tracks) \/ r \in Elems(Tail(me[a].tracks))
    BY <1>1, HeadOrTail
  <2>5. Neat(m, cap')
    BY <1>1, <1>3, <2>2, <2>3 DEF Neat, Calm
  <2>6. \A r \in Recs : cap[r] = "live" /\ Holds(me[a], r) => Holds(m, r)
    BY <1>2, <1>3, <2>2, <2>4 DEF Holds
  <2>7. Tidy' /\ Kept'
    BY <2>1, <2>5, <2>6, Keeps DEF Calm
  <2>8. HomeUnlessRaced'
    BY <1>3, <2>1, <2>2, HomeStays DEF Calm
  <2>9. nextRec' \in Int /\ nextRec <= nextRec'
    BY BoundAssumption DEF Calm, IInv, Stores
  <2>10. q \notin Minted /\ me[a].at # "idle"
    BY DEF Minted, Halting, Flipping
  <2>11. Sleeping'
    BY <2>1, <2>2, <2>9, <2>10, SleepStays
  <2> QED
    BY <2>7, <2>8, <2>11 DEF JInv
<1> QED
  BY <1>4, <1>5

LEMMA CalmStartSteps ==
  ASSUME IInv, JInv, NEW a \in Actors,
         \/ StartCheckMeeting(a) \/ StartRefused(a) \/ StartInsertRow(a)
         \/ StartDropRow(a)
  PROVE  JInv'
<1>1. ASSUME StartCheckMeeting(a) PROVE JInv'
  <2>1. Goto(a, "reserve")
    BY <1>1 DEF StartCheckMeeting, Return
  <2>2. Calm
    BY <1>1 DEF StartCheckMeeting, Calm, slots, ghosts
  <2>3. me[a].at = "idle" /\ a \in Clients
    BY <1>1 DEF StartCheckMeeting, At, Calls
  <2>4. Way("idle", "reserve")
    BY DEF Way, Handling, Ending, Tracking, Halting, Opening, Flipping, Starting,
           Minted
  <2> QED
    BY <2>1, <2>2, <2>3, <2>4, Goes
<1>2. ASSUME StartRefused(a) PROVE JInv'
  <2>1. me' = [me EXCEPT ![a] = Idle]
    BY <1>2 DEF StartRefused, Return
  <2>2. Calm
    BY <1>2 DEF StartRefused, Calm, slots, ghosts
  <2>3. me[a].at = "reserve"
    BY <1>2 DEF StartRefused, At
  <2> QED
    BY <2>1, <2>2, <2>3, Leaves DEF Opening
<1>3. ASSUME StartInsertRow(a) PROVE JInv'
  <2>1. Goto(a, "open") \/ Goto(a, "clear")
    BY <1>3 DEF StartInsertRow, Return
  <2>2. Calm
    BY <1>3 DEF StartInsertRow, Calm, slots, ghosts
  <2>3. me[a].at = "insert"
    BY <1>3 DEF StartInsertRow, At
  <2>4. Way("insert", "open") /\ Way("insert", "clear")
    BY DEF Way, Handling, Ending, Tracking, Halting, Opening, Flipping, Starting,
           Minted
  <2> QED
    BY <2>1, <2>2, <2>3, <2>4, Goes
<1>4. ASSUME StartDropRow(a) PROVE JInv'
  <2>1. me' = [me EXCEPT ![a] = Idle]
    BY <1>4 DEF StartDropRow, Return
  <2>2. Calm
    BY <1>4 DEF StartDropRow, Calm, slots, ghosts
  <2>3. me[a].at = "unrow"
    BY <1>4 DEF StartDropRow, At
  <2> QED
    BY <2>1, <2>2, <2>3, Leaves DEF Opening
<1> QED
  BY <1>1, <1>2, <1>3, <1>4

LEMMA CalmStopSteps ==
  ASSUME IInv, JInv, NEW a \in Actors,
         \/ StopWriteWav(a) \/ StopMark(a) \/ StopFastLane(a)
         \/ StopMarkQueued(a) \/ StopEnqueue(a) \/ CancelDeleteRow(a)
  PROVE  JInv'
<1>1. ASSUME StopWriteWav(a) PROVE JInv'
  <2>1. Goto(a, "mark") \/ me' = [me EXCEPT ![a] = Idle]
    BY <1>1 DEF StopWriteWav, Return
  <2>2. Calm
    BY <1>1 DEF StopWriteWav, Calm, slots, ghosts
  <2>3. me[a].at = "join"
    BY <1>1 DEF StopWriteWav, At
  <2>4. Way("join", "mark")
    BY DEF Way, Handling, Ending, Tracking, Halting, Opening, Flipping, Starting,
           Minted
  <2> QED
    BY <2>1, <2>2, <2>3, <2>4, Goes, Leaves DEF Opening
<1>2. ASSUME StopMark(a) PROVE JInv'
  <2>1. Goto(a, "handoff") \/ me' = [me EXCEPT ![a] = Idle]
    BY <1>2 DEF StopMark, Return
  <2>2. Calm
    BY <1>2 DEF StopMark, Calm, slots, ghosts
  <2>3. me[a].at = "mark"
    BY <1>2 DEF StopMark, At
  <2>4. Way("mark", "handoff")
    BY DEF Way, Handling, Ending, Tracking, Halting, Opening, Flipping, Starting,
           Minted
  <2> QED
    BY <2>1, <2>2, <2>3, <2>4, Goes, Leaves DEF Opening
<1>3. ASSUME StopFastLane(a) PROVE JInv'
  <2>1. me' = [me EXCEPT ![a] = Idle]
    BY <1>3 DEF StopFastLane, Return
  <2>2. Calm
    BY <1>3 DEF StopFastLane, Calm, slots, ghosts
  <2>3. me[a].at = "handoff"
    BY <1>3 DEF StopFastLane, At
  <2> QED
    BY <2>1, <2>2, <2>3, Leaves DEF Opening
<1>4. ASSUME StopMarkQueued(a) PROVE JInv'
  <2>1. Goto(a, "enqueue") \/ me' = [me EXCEPT ![a] = Idle]
    BY <1>4 DEF StopMarkQueued, Return
  <2>2. Calm
    BY <1>4 DEF StopMarkQueued, Calm, slots, ghosts
  <2>3. me[a].at = "handoff"
    BY <1>4 DEF StopMarkQueued, At
  <2>4. Way("handoff", "enqueue")
    BY DEF Way, Handling, Ending, Tracking, Halting, Opening, Flipping, Starting,
           Minted
  <2> QED
    BY <2>1, <2>2, <2>3, <2>4, Goes, Leaves DEF Opening
<1>5. ASSUME StopEnqueue(a) PROVE JInv'
  <2>1. me' = [me EXCEPT ![a] = Idle]
    BY <1>5 DEF StopEnqueue, Return
  <2>2. Calm
    BY <1>5 DEF StopEnqueue, Calm, slots, ghosts
  <2>3. me[a].at = "enqueue"
    BY <1>5 DEF StopEnqueue, At
  <2> QED
    BY <2>1, <2>2, <2>3, Leaves DEF Opening
<1>6. ASSUME CancelDeleteRow(a) PROVE JInv'
  <2>1. me' = [me EXCEPT ![a] = Idle]
    BY <1>6 DEF CancelDeleteRow, Return
  <2>2. Calm
    BY <1>6 DEF CancelDeleteRow, Calm, slots, ghosts
  <2>3. me[a].at = "delete"
    BY <1>6 DEF CancelDeleteRow, At
  <2> QED
    BY <2>1, <2>2, <2>3, Leaves DEF Opening
<1> QED
  BY <1>1, <1>2, <1>3, <1>4, <1>5, <1>6

LEMMA CalmMeetingSteps ==
  ASSUME IInv, JInv, NEW a \in Actors,
         \/ MeetingStartCall(a) \/ MeetingStopCall(a) \/ ToggleCall(a)
         \/ ToggleDecide(a) \/ MeetingCheckActive(a)
         \/ MeetingCheckMeeting(a) \/ MeetingOpenSources(a)
         \/ MeetingInsertRow(a) \/ MeetingTrackFails(a) \/ MeetingAlign(a)
         \/ MeetingWriteTrack(a)
  PROVE  JInv'
<1>1. ASSUME MeetingStartCall(a) PROVE JInv'
  <2>1. Goto(a, "meetStart")
    BY <1>1 DEF MeetingStartCall, Return
  <2>2. Calm
    BY <1>1 DEF MeetingStartCall, Calm, slots, ghosts
  <2>3. me[a].at = "idle" /\ a \in Clients
    BY <1>1 DEF MeetingStartCall, At, Calls
  <2>4. Way("idle", "meetStart")
    BY DEF Way, Handling, Ending, Tracking, Halting, Opening, Flipping, Starting,
           Minted
  <2> QED
    BY <2>1, <2>2, <2>3, <2>4, Goes
<1>2. ASSUME MeetingStopCall(a) PROVE JInv'
  <2>1. Goto(a, "meetStop")
    BY <1>2 DEF MeetingStopCall, Return
  <2>2. Calm
    BY <1>2 DEF MeetingStopCall, Calm, slots, ghosts
  <2>3. me[a].at = "idle" /\ a \in Clients
    BY <1>2 DEF MeetingStopCall, At, Calls
  <2>4. Way("idle", "meetStop")
    BY DEF Way, Handling, Ending, Tracking, Halting, Opening, Flipping, Starting,
           Minted
  <2> QED
    BY <2>1, <2>2, <2>3, <2>4, Goes
<1>3. ASSUME ToggleCall(a) PROVE JInv'
  <2>1. Goto(a, "toggle")
    BY <1>3 DEF ToggleCall, Return
  <2>2. Calm
    BY <1>3 DEF ToggleCall, Calm, slots, ghosts
  <2>3. me[a].at = "idle" /\ a \in Clients
    BY <1>3 DEF ToggleCall, At, Calls
  <2>4. Way("idle", "toggle")
    BY DEF Way, Handling, Ending, Tracking, Halting, Opening, Flipping, Starting,
           Minted
  <2> QED
    BY <2>1, <2>2, <2>3, <2>4, Goes
<1>4. ASSUME ToggleDecide(a) PROVE JInv'
  <2>1. Goto(a, "meetStop") \/ Goto(a, "meetStart")
    BY <1>4 DEF ToggleDecide, Return
  <2>2. Calm
    BY <1>4 DEF ToggleDecide, Calm, slots, ghosts
  <2>3. me[a].at = "toggle"
    BY <1>4 DEF ToggleDecide, At
  <2>4. Way("toggle", "meetStop") /\ Way("toggle", "meetStart")
    BY DEF Way, Handling, Ending, Tracking, Halting, Opening, Flipping, Starting,
           Minted
  <2> QED
    BY <2>1, <2>2, <2>3, <2>4, Goes
<1>5. ASSUME MeetingCheckActive(a) PROVE JInv'
  <2>1. Goto(a, "meetCheck") \/ me' = [me EXCEPT ![a] = Idle]
    BY <1>5 DEF MeetingCheckActive, Return
  <2>2. Calm
    BY <1>5 DEF MeetingCheckActive, Calm, slots, ghosts
  <2>3. me[a].at = "meetStart"
    BY <1>5 DEF MeetingCheckActive, At
  <2>4. Way("meetStart", "meetCheck")
    BY DEF Way, Handling, Ending, Tracking, Halting, Opening, Flipping, Starting,
           Minted
  <2> QED
    BY <2>1, <2>2, <2>3, <2>4, Goes, Leaves DEF Opening
<1>6. ASSUME MeetingCheckMeeting(a) PROVE JInv'
  <2>1. Goto(a, "meetOpen") \/ me' = [me EXCEPT ![a] = Idle]
    BY <1>6 DEF MeetingCheckMeeting, Return
  <2>2. Calm
    BY <1>6 DEF MeetingCheckMeeting, Calm, slots, ghosts
  <2>3. me[a].at = "meetCheck"
    BY <1>6 DEF MeetingCheckMeeting, At
  <2>4. Way("meetCheck", "meetOpen")
    BY DEF Way, Handling, Ending, Tracking, Halting, Opening, Flipping, Starting,
           Minted
  <2> QED
    BY <2>1, <2>2, <2>3, <2>4, Goes, Leaves DEF Opening
<1>7. ASSUME MeetingOpenSources(a) PROVE JInv'
  <2>1. Goto(a, "meetLock") \/ me' = [me EXCEPT ![a] = Idle]
    BY <1>7 DEF MeetingOpenSources, Return
  <2>2. Calm
    BY <1>7 DEF MeetingOpenSources, Calm, slots, ghosts
  <2>3. me[a].at = "meetOpen"
    BY <1>7 DEF MeetingOpenSources, At
  <2>4. Way("meetOpen", "meetLock")
    BY DEF Way, Handling, Ending, Tracking, Halting, Opening, Flipping, Starting,
           Minted
  <2> QED
    BY <2>1, <2>2, <2>3, <2>4, Goes, Leaves DEF Opening
<1>8. ASSUME MeetingInsertRow(a) PROVE JInv'
  <2>1. Goto(a, "trackStart") \/ Goto(a, "abort")
    BY <1>8 DEF MeetingInsertRow, Return
  <2>2. Calm
    BY <1>8 DEF MeetingInsertRow, Calm, slots, ghosts
  <2>3. me[a].at = "trackRow"
    BY <1>8 DEF MeetingInsertRow, At
  <2>4. Way("trackRow", "trackStart") /\ Way("trackRow", "abort")
    BY DEF Way, Handling, Ending, Tracking, Halting, Opening, Flipping, Starting,
           Minted
  <2> QED
    BY <2>1, <2>2, <2>3, <2>4, Goes
<1>9. ASSUME MeetingTrackFails(a) PROVE JInv'
  <2>1. Goto(a, "abort")
    BY <1>9 DEF MeetingTrackFails, Return
  <2>2. Calm
    BY <1>9 DEF MeetingTrackFails, Calm, slots, ghosts
  <2>3. me[a].at = "trackStart"
    BY <1>9 DEF MeetingTrackFails, At
  <2>4. Way("trackStart", "abort")
    BY DEF Way, Handling, Ending, Tracking, Halting, Opening, Flipping, Starting,
           Minted
  <2> QED
    BY <2>1, <2>2, <2>3, <2>4, Goes
<1>10. ASSUME MeetingAlign(a) PROVE JInv'
  <2>1. Goto(a, "trackWav")
    BY <1>10 DEF MeetingAlign, Return
  <2>2. Calm
    BY <1>10 DEF MeetingAlign, Calm, slots, ghosts
  <2>3. me[a].at = "align"
    BY <1>10 DEF MeetingAlign, At
  <2>4. Way("align", "trackWav")
    BY DEF Way, Handling, Ending, Tracking, Halting, Opening, Flipping, Starting,
           Minted
  <2> QED
    BY <2>1, <2>2, <2>3, <2>4, Goes
<1>11. ASSUME MeetingWriteTrack(a) PROVE JInv'
  <2>1. Goto(a, "trackQueue") \/ Goto(a, "trackFail")
    BY <1>11 DEF MeetingWriteTrack, Return
  <2>2. Calm
    BY <1>11 DEF MeetingWriteTrack, Calm, slots, ghosts
  <2>3. me[a].at = "trackWav"
    BY <1>11 DEF MeetingWriteTrack, At
  <2>4. Way("trackWav", "trackQueue") /\ Way("trackWav", "trackFail")
    BY DEF Way, Handling, Ending, Tracking, Halting, Opening, Flipping, Starting,
           Minted
  <2> QED
    BY <2>1, <2>2, <2>3, <2>4, Goes
<1> QED
  BY <1>1, <1>2, <1>3, <1>4, <1>5, <1>6, <1>7, <1>8, <1>9, <1>10, <1>11

LEMMA TrackListSteps ==
  ASSUME IInv, JInv, NEW a \in Actors,
         \/ AbortNothing(a) \/ DropRow(a) \/ FlipRow(a) \/ MeetingEnqueueTrack(a)
         \/ MeetingFailTrack(a)
  PROVE  JInv'
<1>1. ASSUME AbortNothing(a) PROVE JInv'
  <2>1. me' = [me EXCEPT ![a] = Idle] /\ Calm
    BY <1>1 DEF AbortNothing, Return, Calm, slots, ghosts
  <2>2. me[a].at = "abort" /\ Elems(me[a].tracks) = {}
    BY <1>1, EmptySeq DEF AbortNothing, At
  <2> QED
    BY <2>1, <2>2, Comes
<1>2. ASSUME DropRow(a) PROVE JInv'
  <2>1. NextTrack(a, me[a].at) /\ Calm
    BY <1>2 DEF DropRow, Calm, slots
  <2>2. /\ me[a].at \in {"drop", "abort"} /\ me[a].tracks # <<>>
        /\ cap[Head(me[a].tracks)] # "live"
    BY <1>2 DEF DropRow, Drops
  <2> QED
    BY <2>1, <2>2, NextTrackKeeps
<1>3. ASSUME FlipRow(a) PROVE JInv'
  <2>1. NextTrack(a, me[a].at) \/ me' = [me EXCEPT ![a] = Idle]
    BY <1>3 DEF FlipRow, Return
  <2>2. Calm
    BY <1>3 DEF FlipRow, Calm, slots
  <2>3. me[a].at \in Flipping /\ me[a].tracks # <<>>
    BY <1>3, LocalsAre DEF FlipRow, OnTracks, Flipping
  <2> QED
    BY <2>1, <2>2, <2>3, NextTrackKeeps, Leaves DEF Flipping, Opening
<1>4. ASSUME MeetingEnqueueTrack(a) PROVE JInv'
  <2>1. NextTrack(a, "trackWav") \/ Goto(a, "trackFail")
    BY <1>4 DEF MeetingEnqueueTrack
  <2>2. Calm
    BY <1>4 DEF MeetingEnqueueTrack, Calm, slots
  <2>3. me[a].at = "trackQueue" /\ me[a].tracks # <<>>
    BY <1>4, LocalsAre DEF MeetingEnqueueTrack, At, OnTracks
  <2>4. Way("trackQueue", "trackFail")
    BY DEF Way, Handling, Ending, Tracking, Halting, Opening, Flipping, Starting, Minted
  <2> QED
    BY <2>1, <2>2, <2>3, <2>4, NextTrackKeeps, Goes DEF Halting
<1>5. ASSUME MeetingFailTrack(a) PROVE JInv'
  <2>1. NextTrack(a, "trackWav") /\ Calm
    BY <1>5 DEF MeetingFailTrack, Calm, slots
  <2>2. me[a].at = "trackFail" /\ me[a].tracks # <<>>
    BY <1>5, LocalsAre DEF MeetingFailTrack, At, OnTracks
  <2> QED
    BY <2>1, <2>2, NextTrackKeeps DEF Halting
<1> QED
  BY <1>1, <1>2, <1>3, <1>4, <1>5

-----------------------------------------------------------------------------
\* The mutex of a meeting start keeps other meetings out until its end.
Locked ==
  \A a \in Actors : me[a].at \in Opening => meetingLock = a /\ meeting = <<>>

\* All but the start of a meeting: its mutex is released by its keeper only.
LEMMA LockStays ==
  ASSUME IInv, Locked, NEW a \in Actors,
         \A b \in Actors : me'[b].at \in Opening =>
           me[b].at \in Opening /\ (meetingLock' = meetingLock \/ b # a),
         meetingLock' = meetingLock \/ meetingLock' = Release(meetingLock, a),
         meeting' = meeting \/ meeting' = <<>>
  PROVE  Locked'
BY DEF Locked, Release

LEMMA GoLock ==
  ASSUME IInv, Locked, NEW a \in Actors, NEW q, Goto(a, q), q \notin Opening,
         meetingLock' = meetingLock, meeting' = meeting
  PROVE  Locked'
<1>1. me = [b \in Actors |-> me[b]] /\ me[a] \in Locals
  BY DEF IInv, Shapes, Shape
<1>2. \A b \in Actors : me'[b].at \in Opening => me[b].at \in Opening
  BY <1>1 DEF Goto, Locals
<1> QED
  BY <1>2, LockStays

LEMMA ReturnLock ==
  ASSUME IInv, Locked, NEW a \in Actors, Return(a), meeting' = meeting \/ meeting' = <<>>
  PROVE  Locked'
<1>1. me = [b \in Actors |-> me[b]]
  BY DEF IInv, Shapes
<1>2. \A b \in Actors : me'[b].at \in Opening => me[b].at \in Opening /\ b # a
  BY <1>1 DEF Return, Idle, Opening
<1> QED
  BY <1>2, LockStays DEF Return

LEMMA NextTrackLock ==
  ASSUME IInv, Locked, NEW a \in Actors, NEW q, NextTrack(a, q), q \notin Opening,
         meeting' = meeting
  PROVE  Locked'
<1>1. me = [b \in Actors |-> me[b]] /\ me[a] \in Locals
  BY DEF IInv, Shapes, Shape
<1>2. CASE Return(a)
  BY <1>2, ReturnLock
<1>3. CASE ~Return(a)
  <2>1. /\ me' = [me EXCEPT ![a].at = q, ![a].tracks = Tail(@)]
        /\ meetingLock' = meetingLock
    BY <1>3 DEF NextTrack, locks
  <2>2. \A b \in Actors : me'[b].at \in Opening => me[b].at \in Opening
    BY <1>1, <2>1 DEF Locals
  <2> QED
    BY <2>1, <2>2, LockStays
<1> QED
  BY <1>2, <1>3

LEMMA StartKeepsLock ==
  ASSUME IInv, Locked, NEW a \in Actors,
         \/ StartCheckMeeting(a) \/ StartReserve(a) \/ StartRefused(a)
         \/ StartInsertRow(a) \/ StartOpenSource(a) \/ StartStoreHandle(a)
         \/ StartClearSlot(a) \/ StartDropRow(a)
  PROVE  Locked'
<1>1. me = [b \in Actors |-> me[b]]
  BY DEF IInv, Shapes
<1>2. ASSUME StartCheckMeeting(a) PROVE Locked'
  BY <1>1, <1>2, LockStays
  DEF StartCheckMeeting, At, Goto, Return, Idle, Opening, slots, locks
<1>3. ASSUME StartReserve(a) PROVE Locked'
  BY <1>1, <1>3, LockStays
  DEF StartReserve, At, Goto, Return, Idle, Opening, slots, locks
<1>4. ASSUME StartRefused(a) PROVE Locked'
  BY <1>1, <1>4, LockStays
  DEF StartRefused, At, Goto, Return, Idle, Opening, slots, locks
<1>5. ASSUME StartInsertRow(a) PROVE Locked'
  <2>1. \/ (Goto(a, "open") /\ meetingLock' = meetingLock)
        \/ (Goto(a, "clear") /\ meetingLock' = meetingLock)
    BY <1>5 DEF StartInsertRow, locks
  <2>2. meeting' = meeting
    BY <1>5 DEF StartInsertRow, slots
  <2> QED
    BY <2>1, <2>2, GoLock DEF Opening
<1>6. ASSUME StartOpenSource(a) PROVE Locked'
  <2>1. \/ (Goto(a, "store") /\ meetingLock' = meetingLock)
        \/ (Goto(a, "clear") /\ meetingLock' = meetingLock)
    BY <1>6 DEF StartOpenSource, locks
  <2>2. meeting' = meeting
    BY <1>6 DEF StartOpenSource, slots
  <2> QED
    BY <2>1, <2>2, GoLock DEF Opening
<1>7. ASSUME StartStoreHandle(a) PROVE Locked'
  BY <1>1, <1>7, LockStays
  DEF StartStoreHandle, At, Goto, Return, Idle, Opening, slots, locks
<1>8. ASSUME StartClearSlot(a) PROVE Locked'
  BY <1>1, <1>8, LockStays
  DEF StartClearSlot, At, Goto, Return, Idle, Opening, slots, locks
<1>9. ASSUME StartDropRow(a) PROVE Locked'
  BY <1>1, <1>9, LockStays
  DEF StartDropRow, At, Goto, Return, Idle, Opening, slots, locks
<1> QED
  BY <1>2, <1>3, <1>4, <1>5, <1>6, <1>7, <1>8, <1>9

LEMMA StopKeepsLock ==
  ASSUME IInv, Locked, NEW a \in Actors,
         \/ StopTake(a) \/ StopTakeHalf(a) \/ StopSend(a)
         \/ StopWriteWav(a) \/ StopMark(a) \/ StopFastLane(a)
         \/ StopMarkQueued(a) \/ StopEnqueue(a)
  PROVE  Locked'
<1>1. me = [b \in Actors |-> me[b]]
  BY DEF IInv, Shapes
<1>2. ASSUME StopTake(a) PROVE Locked'
  BY <1>1, <1>2, LockStays
  DEF StopTake, At, CallsStop, Calls, Goto, Return, Idle, Opening, slots, locks
<1>3. ASSUME StopTakeHalf(a) PROVE Locked'
  BY <1>1, <1>3, LockStays
  DEF StopTakeHalf, At, CallsStop, Calls, Goto, Return, Idle, Opening, slots,
       locks
<1>4. ASSUME StopSend(a) PROVE Locked'
  BY <1>1, <1>4, LockStays
  DEF StopSend, At, Goto, Return, Idle, Opening, slots, locks
<1>5. ASSUME StopWriteWav(a) PROVE Locked'
  <2>1. (Goto(a, "mark") /\ meetingLock' = meetingLock) \/ Return(a)
    BY <1>5 DEF StopWriteWav, locks
  <2>2. meeting' = meeting
    BY <1>5 DEF StopWriteWav, slots
  <2> QED
    BY <2>1, <2>2, GoLock, ReturnLock DEF Opening
<1>6. ASSUME StopMark(a) PROVE Locked'
  <2>1. \/ (Goto(a, "handoff") /\ meetingLock' = meetingLock)
        \/ Return(a)
    BY <1>6 DEF StopMark, locks
  <2>2. meeting' = meeting
    BY <1>6 DEF StopMark, slots
  <2> QED
    BY <2>1, <2>2, GoLock, ReturnLock DEF Opening
<1>7. ASSUME StopFastLane(a) PROVE Locked'
  BY <1>1, <1>7, LockStays
  DEF StopFastLane, At, Goto, Return, Idle, Opening, slots, locks
<1>8. ASSUME StopMarkQueued(a) PROVE Locked'
  <2>1. \/ (Goto(a, "enqueue") /\ meetingLock' = meetingLock)
        \/ Return(a)
    BY <1>8 DEF StopMarkQueued, locks
  <2>2. meeting' = meeting
    BY <1>8 DEF StopMarkQueued, slots
  <2> QED
    BY <2>1, <2>2, GoLock, ReturnLock DEF Opening
<1>9. ASSUME StopEnqueue(a) PROVE Locked'
  BY <1>1, <1>9, LockStays
  DEF StopEnqueue, At, Goto, Return, Idle, Opening, slots, locks
<1> QED
  BY <1>2, <1>3, <1>4, <1>5, <1>6, <1>7, <1>8, <1>9

LEMMA CancelKeepsLock ==
  ASSUME IInv, Locked, NEW a \in Actors,
         \/ CancelTake(a) \/ CancelSend(a) \/ CancelDeleteRow(a)
         \/ CancelTakeMeeting(a) \/ AbortNothing(a) \/ DropCapture(a)
         \/ DropRow(a)
  PROVE  Locked'
<1>1. me = [b \in Actors |-> me[b]]
  BY DEF IInv, Shapes
<1>2. ASSUME CancelTake(a) PROVE Locked'
  BY <1>1, <1>2, LockStays
  DEF CancelTake, At, Goto, Return, Idle, Opening, slots, locks
<1>3. ASSUME CancelSend(a) PROVE Locked'
  BY <1>1, <1>3, LockStays
  DEF CancelSend, At, Goto, Return, Idle, Opening, slots, locks
<1>4. ASSUME CancelDeleteRow(a) PROVE Locked'
  BY <1>1, <1>4, LockStays
  DEF CancelDeleteRow, At, Goto, Return, Idle, Opening, slots, locks
<1>5. ASSUME CancelTakeMeeting(a) PROVE Locked'
  BY <1>1, <1>5, LockStays
  DEF CancelTakeMeeting, At, Goto, Return, Idle, Opening, slots, locks
<1>6. ASSUME AbortNothing(a) PROVE Locked'
  BY <1>1, <1>6, LockStays
  DEF AbortNothing, At, Goto, Return, Idle, Opening, slots, locks
<1>7. ASSUME DropCapture(a) PROVE Locked'
  BY <1>1, <1>7, LockStays
  DEF DropCapture, At, Goto, Return, Idle, Opening, slots, locks
<1>8. ASSUME DropRow(a) PROVE Locked'
  <2>1. NextTrack(a, me[a].at)
    BY <1>8 DEF DropRow, locks
  <2>2. meeting' = meeting
    BY <1>8 DEF DropRow, slots
  <2>3. me[a].at \notin Opening
    BY <1>8 DEF DropRow, Drops, Opening
  <2> QED
    BY <2>1, <2>2, <2>3, NextTrackLock DEF Opening
<1> QED
  BY <1>2, <1>3, <1>4, <1>5, <1>6, <1>7, <1>8

LEMMA PauseKeepsLock ==
  ASSUME IInv, Locked, NEW a \in Actors,
         \/ PauseSingle(a) \/ ResumeSingle(a) \/ PauseMeeting(a)
         \/ ResumeMeeting(a) \/ FlipRow(a)
  PROVE  Locked'
<1>1. me = [b \in Actors |-> me[b]]
  BY DEF IInv, Shapes
<1>2. ASSUME PauseSingle(a) PROVE Locked'
  BY <1>1, <1>2, LockStays
  DEF PauseSingle, At, Goto, Return, Idle, Opening, slots, locks
<1>3. ASSUME ResumeSingle(a) PROVE Locked'
  BY <1>1, <1>3, LockStays
  DEF ResumeSingle, At, Goto, Return, Idle, Opening, slots, locks
<1>4. ASSUME PauseMeeting(a) PROVE Locked'
  BY <1>1, <1>4, LockStays
  DEF PauseMeeting, At, FlipMeeting, Goto, Return, Idle, Opening, slots, locks
<1>5. ASSUME ResumeMeeting(a) PROVE Locked'
  BY <1>1, <1>5, LockStays
  DEF ResumeMeeting, At, FlipMeeting, Goto, Return, Idle, Opening, slots, locks
<1>6. ASSUME FlipRow(a) PROVE Locked'
  <2>1. NextTrack(a, me[a].at) \/ Return(a)
    BY <1>6 DEF FlipRow, locks
  <2>2. meeting' = meeting
    BY <1>6 DEF FlipRow, slots
  <2>3. me[a].at \notin Opening
    BY <1>6 DEF FlipRow, Drops, Opening
  <2> QED
    BY <2>1, <2>2, <2>3, NextTrackLock, ReturnLock DEF Opening
<1> QED
  BY <1>2, <1>3, <1>4, <1>5, <1>6

LEMMA MeetingStartKeepsLock ==
  ASSUME IInv, Locked, NEW a \in Actors,
         \/ MeetingStartCall(a) \/ MeetingStopCall(a) \/ ToggleCall(a)
         \/ ToggleDecide(a) \/ MeetingCheckActive(a)
         \/ MeetingCheckMeeting(a) \/ MeetingOpenSources(a)
         \/ MeetingInsertRow(a) \/ MeetingTrackFails(a)
  PROVE  Locked'
<1>1. me = [b \in Actors |-> me[b]]
  BY DEF IInv, Shapes
<1>2. ASSUME MeetingStartCall(a) PROVE Locked'
  BY <1>1, <1>2, LockStays
  DEF MeetingStartCall, At, Goto, Return, Idle, Opening, slots, locks
<1>3. ASSUME MeetingStopCall(a) PROVE Locked'
  BY <1>1, <1>3, LockStays
  DEF MeetingStopCall, At, Goto, Return, Idle, Opening, slots, locks
<1>4. ASSUME ToggleCall(a) PROVE Locked'
  BY <1>1, <1>4, LockStays
  DEF ToggleCall, At, Goto, Return, Idle, Opening, slots, locks
<1>5. ASSUME ToggleDecide(a) PROVE Locked'
  BY <1>1, <1>5, LockStays
  DEF ToggleDecide, At, Goto, Return, Idle, Opening, slots, locks
<1>6. ASSUME MeetingCheckActive(a) PROVE Locked'
  <2>1. \/ (Goto(a, "meetCheck") /\ meetingLock' = meetingLock)
        \/ Return(a)
    BY <1>6 DEF MeetingCheckActive, locks
  <2>2. meeting' = meeting
    BY <1>6 DEF MeetingCheckActive, slots
  <2> QED
    BY <2>1, <2>2, GoLock, ReturnLock DEF Opening
<1>7. ASSUME MeetingCheckMeeting(a) PROVE Locked'
  <2>1. \/ (Goto(a, "meetOpen") /\ meetingLock' = meetingLock)
        \/ Return(a)
    BY <1>7 DEF MeetingCheckMeeting, locks
  <2>2. meeting' = meeting
    BY <1>7 DEF MeetingCheckMeeting, slots
  <2> QED
    BY <2>1, <2>2, GoLock, ReturnLock DEF Opening
<1>8. ASSUME MeetingOpenSources(a) PROVE Locked'
  <2>1. \/ (Goto(a, "meetLock") /\ meetingLock' = meetingLock)
        \/ Return(a)
    BY <1>8 DEF MeetingOpenSources, locks
  <2>2. meeting' = meeting
    BY <1>8 DEF MeetingOpenSources, slots
  <2> QED
    BY <2>1, <2>2, GoLock, ReturnLock DEF Opening
<1>9. ASSUME MeetingInsertRow(a) PROVE Locked'
  BY <1>1, <1>9, LockStays
  DEF MeetingInsertRow, At, Goto, Return, Idle, Opening, slots, locks
<1>10. ASSUME MeetingTrackFails(a) PROVE Locked'
  BY <1>1, <1>10, LockStays
  DEF MeetingTrackFails, At, Goto, Return, Idle, Opening, slots, locks
<1> QED
  BY <1>2, <1>3, <1>4, <1>5, <1>6, <1>7, <1>8, <1>9, <1>10

LEMMA MeetingStopKeepsLock ==
  ASSUME IInv, Locked, NEW a \in Actors,
         \/ MeetingStopTake(a) \/ MeetingHaltAll(a) \/ MeetingAlign(a)
         \/ MeetingWriteTrack(a) \/ MeetingEnqueueTrack(a)
         \/ MeetingFailTrack(a)
  PROVE  Locked'
<1>1. me = [b \in Actors |-> me[b]]
  BY DEF IInv, Shapes
<1>2. ASSUME MeetingStopTake(a) PROVE Locked'
  <2>1. CASE meeting = <<>>
    BY <1>2, <2>1, ReturnLock DEF MeetingStopTake
  <2>2. CASE meeting # <<>>
    <3>1. /\ me' = [me EXCEPT ![a].at = "haltAll", ![a].tracks = meeting]
          /\ meetingLock' = meetingLock /\ meeting' = <<>>
      BY <1>2, <2>2 DEF MeetingStopTake, locks
    <3>2. me[a] \in Locals
      BY DEF IInv, Shapes, Shape
    <3>3. \A b \in Actors : me'[b].at \in Opening => me[b].at \in Opening
      BY <1>1, <3>1, <3>2 DEF Opening, Locals
    <3> QED
      BY <3>1, <3>3, LockStays
  <2> QED
    BY <2>1, <2>2
<1>3. ASSUME MeetingHaltAll(a) PROVE Locked'
  BY <1>1, <1>3, LockStays
  DEF MeetingHaltAll, At, Goto, Return, Idle, Opening, slots, locks
<1>4. ASSUME MeetingAlign(a) PROVE Locked'
  BY <1>1, <1>4, LockStays
  DEF MeetingAlign, At, Goto, Return, Idle, Opening, slots, locks
<1>5. ASSUME MeetingWriteTrack(a) PROVE Locked'
  <2>1. \/ (Goto(a, "trackQueue") /\ meetingLock' = meetingLock)
        \/ (Goto(a, "trackFail") /\ meetingLock' = meetingLock)
    BY <1>5 DEF MeetingWriteTrack, locks
  <2>2. meeting' = meeting
    BY <1>5 DEF MeetingWriteTrack, slots
  <2> QED
    BY <2>1, <2>2, GoLock DEF Opening
<1>6. ASSUME MeetingEnqueueTrack(a) PROVE Locked'
  <2>1. \/ NextTrack(a, "trackWav")
        \/ (Goto(a, "trackFail") /\ meetingLock' = meetingLock)
    BY <1>6 DEF MeetingEnqueueTrack, locks
  <2>2. meeting' = meeting
    BY <1>6 DEF MeetingEnqueueTrack, slots
  <2> QED
    BY <2>1, <2>2, NextTrackLock, GoLock DEF Opening
<1>7. ASSUME MeetingFailTrack(a) PROVE Locked'
  <2>1. NextTrack(a, "trackWav")
    BY <1>7 DEF MeetingFailTrack, locks
  <2>2. meeting' = meeting
    BY <1>7 DEF MeetingFailTrack, slots
  <2> QED
    BY <2>1, <2>2, NextTrackLock DEF Opening
<1> QED
  BY <1>2, <1>3, <1>4, <1>5, <1>6, <1>7

LEMMA LocksKept ==
  ASSUME IInv, Locked, [Next]_vars
  PROVE  Locked'
<1>1. me = [b \in Actors |-> me[b]]
  BY DEF IInv, Shapes
<1>2. ASSUME NEW a \in Actors, MeetingLock(a) PROVE Locked'
  <2>1. CASE meeting # <<>> \/ ~Room(Tracks)
    BY <1>2, <2>1, ReturnLock DEF MeetingLock, slots
  <2>2. CASE ~(meeting # <<>> \/ ~Room(Tracks))
    <3>1. /\ meetingLock = None /\ meetingLock' = a /\ meeting' = <<>>
          /\ \A b \in Actors : b # a => me'[b] = me[b]
      BY <1>1, <1>2, <2>2 DEF MeetingLock, slots
    <3>2. \A b \in Actors : me[b].at \notin Opening
      BY <3>1, ActorsAssumption DEF Locked
    <3> QED
      BY <3>1, <3>2 DEF Locked
  <2> QED
    BY <2>1, <2>2
<1>3. ASSUME NEW a \in Actors, MeetingStartTrack(a) PROVE Locked'
  <2>1. /\ me[a].at = "trackStart" /\ meetingLock = a /\ meeting = <<>>
        /\ \A b \in Actors : b # a => me[b].at \notin Opening
    BY <1>3 DEF MeetingStartTrack, At, Locked, Opening
  <2>2. CASE Len(Append(me[a].tracks, me[a].rec)) < Tracks
    <3>1. /\ meetingLock' = meetingLock /\ meeting' = meeting
          /\ \A b \in Actors : b # a => me'[b] = me[b]
      BY <1>1, <1>3, <2>2 DEF MeetingStartTrack, locks
    <3> QED
      BY <2>1, <3>1 DEF Locked
  <2>3. CASE ~(Len(Append(me[a].tracks, me[a].rec)) < Tracks)
    <3>1. \A b \in Actors : me'[b].at \notin Opening
      BY <1>1, <1>3, <2>1, <2>3 DEF MeetingStartTrack, Return, Idle, Opening
    <3> QED
      BY <3>1 DEF Locked
  <2> QED
    BY <2>2, <2>3
<1>4. ASSUME NEW r \in Recs, CaptureEnds(r) \/ WatcherFindsNothing(r) PROVE Locked'
  <2>1. meetingLock' = meetingLock /\ meeting' = meeting /\ Watcher(r) \in Actors
    BY <1>4 DEF CaptureEnds, WatcherFindsNothing, slots, locks, Actors, Watchers
  <2>2. me[Watcher(r)] \in Locals
    BY <2>1 DEF IInv, Shapes, Shape
  <2>3. \A b \in Actors : me'[b].at \in Opening => me[b].at \in Opening
    BY <1>1, <1>4, <2>2 DEF CaptureEnds, WatcherFindsNothing, Idle, Opening, Locals
  <2> QED
    BY <2>1, <2>3 DEF Locked
<1>5. ASSUME NEW a \in Clients, Request(a) PROVE Locked'
  <2>1. a \in Actors
    BY DEF Actors
  <2> QED
    BY <1>5, <2>1, StartKeepsLock, StopKeepsLock, CancelKeepsLock, PauseKeepsLock,
       MeetingStartKeepsLock DEF Request
<1>6. ASSUME NEW a \in Actors, Acquires(a) PROVE Locked'
  BY <1>2, <1>6, StartKeepsLock, MeetingStartKeepsLock, MeetingStopKeepsLock
  DEF Acquires
<1>7. ASSUME NEW a \in Actors, Continues(a) PROVE Locked'
  BY <1>3, <1>7, StartKeepsLock, StopKeepsLock, CancelKeepsLock, PauseKeepsLock,
     MeetingStartKeepsLock, MeetingStopKeepsLock DEF Continues
<1>8. ASSUME NEW r \in Recs, WatcherWakes(r) PROVE Locked'
  <2>1. Watcher(r) \in Actors
    BY DEF Actors, Watchers
  <2> QED
    BY <1>4, <1>8, <2>1, StopKeepsLock DEF WatcherWakes
<1>9. ASSUME UNCHANGED vars PROVE Locked'
  BY <1>9 DEF Locked, vars, slots, locks
<1> QED
  BY <1>4, <1>5, <1>6, <1>7, <1>8, <1>9 DEF Next

-----------------------------------------------------------------------------
\* Captures only end; one handler may move on.
Steady ==
  /\ active' = active /\ handle' = handle /\ meeting' = meeting
  /\ nextRec' = nextRec /\ raced' = raced
  /\ \A r \in Recs : cap'[r] = "live" => cap[r] = "live"

LEMMA RestsEnding ==
  ASSUME IInv, JInv, me' = me, Steady
  PROVE  JInv'
<1>1. \A a \in Actors : Elems(me[a].tracks) \subseteq Recs
  BY LocalsAre, ElemsAreRecs
<1>2. Tidy'
  BY <1>1 DEF JInv, Tidy, Neat, Steady
<1>3. Kept' /\ Sleeping'
  BY DEF JInv, Kept, Sleeping, Steady
<1>4. Home => Home'
  BY DEF Home, Steady
<1>5. raced' = raced /\ (~raced => Home)
  BY DEF JInv, HomeUnlessRaced, Steady
<1>6. HomeUnlessRaced'
  BY <1>4, <1>5, Zenon DEF HomeUnlessRaced
<1> QED
  BY <1>2, <1>3, <1>6 DEF JInv

LEMMA GoesEnding ==
  ASSUME IInv, JInv, NEW a \in Actors, NEW q, Goto(a, q), Steady,
         \A m : m.at = q /\ m.take = me[a].take /\ m.tracks = me[a].tracks
                  => Neat(m, cap'),
         q \notin Starting \cup Flipping, me[a].at \notin {"store", "idle"}
  PROVE  JInv'
<1> DEFINE m == [me[a] EXCEPT !.at = q]
<1>1. me[a] \in Locals /\ me = [b \in Actors |-> me[b]]
  BY DEF IInv, Shapes, Shape
<1>2. me' = [me EXCEPT ![a] = m]
  BY <1>1 DEF Goto
<1>3. m.at = q /\ m.rec = me[a].rec /\ m.take = me[a].take /\ m.tracks = me[a].tracks
  BY <1>1 DEF Locals
<1> HIDE DEF m
<1>4. Neat(m, cap')
  BY <1>3
<1>5. \A r \in Recs : Holds(me[a], r) => Holds(m, r)
  BY <1>3 DEF Holds
<1>6. Tidy' /\ Kept'
  BY <1>2, <1>4, <1>5, Keeps DEF Steady
<1>7. HomeUnlessRaced'
  BY <1>2, <1>3, HomeStays DEF Steady
<1>8. nextRec' \in Int /\ nextRec <= nextRec'
  BY BoundAssumption DEF Steady, IInv, Stores
<1>9. Sleeping'
  BY <1>2, <1>3, <1>8, SleepStays DEF Starting, Minted
<1> QED
  BY <1>6, <1>7, <1>9 DEF JInv

LEMMA HaltedIs ==
  ASSUME IInv, NEW r
  PROVE  \A s \in Recs : Halted(cap, r)[s] = "live" => cap[s] = "live" /\ s # r
BY DEF IInv, Stores, Halted

LEMMA EndingSteps ==
  ASSUME IInv, JInv, NEW a \in Actors,
         StopSend(a) \/ CancelSend(a) \/ DropCapture(a) \/ MeetingHaltAll(a)
  PROVE  JInv'
<1>1. Neat(me[a], cap)
  BY DEF JInv, Tidy
<1>2. ASSUME StopSend(a) PROVE JInv'
  <2>1. /\ me[a].at = "teardown" /\ Goto(a, "join") /\ cap' = Halted(cap, me[a].take)
        /\ Steady
    BY <1>2, HaltedIs DEF StopSend, At, Steady, slots, ghosts
  <2>2. \A r \in Recs : me[a].take = r => cap'[r] # "live"
    BY <2>1, HaltedIs
  <2>3. \A m : m.at = "join" /\ m.take = me[a].take /\ m.tracks = me[a].tracks
                 => Neat(m, cap')
    BY <1>1, <2>1, <2>2
    DEF Neat, Handling, Ending, Tracking, Halting, Opening, Flipping
  <2> QED
    BY <2>1, <2>3, GoesEnding DEF Starting, Flipping
<1>3. ASSUME CancelSend(a) PROVE JInv'
  <2>1. /\ me[a].at = "cancel" /\ Goto(a, "delete") /\ Steady
        /\ \A r \in Recs : me[a].take = r => cap'[r] # "live"
    BY <1>3, HaltedIs, ActorsAssumption DEF CancelSend, At, Steady, slots, ghosts
  <2>2. \A m : m.at = "delete" /\ m.take = me[a].take /\ m.tracks = me[a].tracks
                 => Neat(m, cap')
    BY <1>1, <2>1
    DEF Neat, Handling, Ending, Tracking, Halting, Opening, Flipping
  <2> QED
    BY <2>1, <2>2, GoesEnding DEF Starting, Flipping
<1>4. ASSUME DropCapture(a) PROVE JInv'
  <2>1. me' = me /\ Steady
    BY <1>4, HaltedIs DEF DropCapture, Steady, slots, ghosts
  <2> QED
    BY <2>1, RestsEnding
<1>5. ASSUME MeetingHaltAll(a) PROVE JInv'
  <2>1. /\ me[a].at = "haltAll" /\ Goto(a, "align") /\ Steady
        /\ \A r \in Recs : r \in Elems(me[a].tracks) => cap'[r] # "live"
    BY <1>5 DEF MeetingHaltAll, At, Steady, slots, ghosts
  <2>2. Elems(me[a].tracks) \subseteq Recs
    BY LocalsAre, ElemsAreRecs
  <2>3. \A m : m.at = "align" /\ m.take = me[a].take /\ m.tracks = me[a].tracks
                 => Neat(m, cap')
    BY <1>1, <2>1, <2>2
    DEF Neat, Handling, Ending, Tracking, Halting, Opening, Flipping
  <2> QED
    BY <2>1, <2>3, GoesEnding DEF Starting, Flipping
<1> QED
  BY <1>2, <1>3, <1>4, <1>5

LEMMA QuietWatcherSteps ==
  ASSUME IInv, JInv, NEW r \in Recs, WatcherFindsNothing(r) \/ CaptureEnds(r)
  PROVE  JInv'
<1> DEFINE w == Watcher(r)
<1>1. w \in Actors /\ Neat(me[w], cap)
  BY DEF Actors, Watchers, JInv, Tidy
<1>2. ASSUME WatcherFindsNothing(r) PROVE JInv'
  <2>1. me' = [me EXCEPT ![w] = Idle] /\ Calm /\ me[w].at = "fired"
    BY <1>2 DEF WatcherFindsNothing, Calm, slots, ghosts, At
  <2> QED
    BY <1>1, <2>1, Leaves DEF Opening
<1>3. ASSUME CaptureEnds(r) PROVE JInv'
  <2>1. Steady
    BY <1>3 DEF CaptureEnds, Steady, slots, ghosts, IInv, Stores
  <2>2. CASE At(w, "armed")
    <3>1. Goto(w, "fired") /\ me[w].at = "armed"
      BY <1>3, <2>2 DEF CaptureEnds, Goto, At
    <3>2. \A m : m.at = "fired" /\ m.take = me[w].take /\ m.tracks = me[w].tracks
                   => Neat(m, cap')
      BY <1>1, <3>1 DEF Neat, Handling, Ending, Tracking, Halting, Opening, Flipping
    <3> QED
      BY <1>1, <2>1, <3>1, <3>2, GoesEnding DEF Starting, Flipping
  <2>3. CASE ~At(w, "armed")
    BY <1>3, <2>1, <2>3, RestsEnding DEF CaptureEnds
  <2> QED
    BY <2>2, <2>3
<1> QED
  BY <1>2, <1>3

LEMMA FlipSteps ==
  ASSUME IInv, JInv, NEW a \in Actors,
         PauseSingle(a) \/ ResumeSingle(a) \/ PauseMeeting(a) \/ ResumeMeeting(a)
  PROVE  JInv'
<1>1. ASSUME PauseSingle(a) \/ ResumeSingle(a) PROVE JInv'
  <2>1. me' = me /\ Steady
    BY <1>1 DEF PauseSingle, ResumeSingle, Steady
  <2> QED
    BY <2>1, RestsEnding
<1>2. ASSUME NEW place \in Flipping, NEW pausing, Calls(a, "pause") \/ Calls(a, "resume"),
             FlipMeeting(a, place, pausing)
      PROVE JInv'
  <2> DEFINE m == [me[a] EXCEPT !.at = place, !.tracks = meeting]
  <2>1. me[a] \in Locals /\ me = [b \in Actors |-> me[b]] /\ Neat(me[a], cap)
    BY DEF IInv, Shapes, Shape, JInv, Tidy
  <2>2. me' = [me EXCEPT ![a] = m] /\ Calm
    BY <1>2, <2>1 DEF FlipMeeting, Calm, ghosts
  <2>3. m.at = place /\ m.rec = me[a].rec /\ m.take = me[a].take /\ m.tracks = meeting
    BY <2>1 DEF Locals
  <2>4. me[a].at = "idle" /\ a \in Clients
    BY <1>2 DEF Calls, At
  <2> HIDE DEF m
  <2>5. /\ place \in Tracking /\ place \notin Halting /\ place \notin Handling
        /\ place \notin Starting /\ place \notin Minted /\ place # "store"
    BY DEF Flipping, Tracking, Halting, Handling, Ending, Starting, Minted
  <2>6. /\ me[a].take = None /\ me[a].tracks = <<>>
        /\ \A r \in Recs : ~Holds(me[a], r)
    BY <2>1, <2>4, EmptySeq, ActorsAssumption
    DEF Neat, Handling, Ending, Tracking, Halting, Opening, Flipping, Holds
  <2>7. Neat(m, cap')
    BY <2>3, <2>5, <2>6 DEF Neat, Ending, Handling
  <2>8. Tidy' /\ Kept'
    BY <2>2, <2>6, <2>7, Keeps DEF Calm
  <2>9. HomeUnlessRaced'
    BY <2>2, <2>3, <2>5, HomeStays DEF Calm
  <2>10. nextRec' \in Int /\ nextRec <= nextRec'
    BY <2>2, BoundAssumption DEF Calm, IInv, Stores
  <2>11. Sleeping'
    BY <2>2, <2>3, <2>4, <2>5, <2>10, SleepStays
  <2> QED
    BY <2>8, <2>9, <2>11 DEF JInv
<1>3. ASSUME PauseMeeting(a) PROVE JInv'
  BY <1>2, <1>3 DEF PauseMeeting, Flipping
<1>4. ASSUME ResumeMeeting(a) PROVE JInv'
  BY <1>2, <1>4 DEF ResumeMeeting, Flipping
<1> QED
  BY <1>1, <1>3, <1>4

\* A take that finds no start in flight empties the slot, and nobody starts.
LEMMA NobodyStarts ==
  ASSUME IInv, NEW a \in Actors, NEW m, me' = [me EXCEPT ![a] = m],
         m.at \notin Starting, active' = None, handle' = None, Home, ~MidStart
  PROVE  Home'
<1>1. me'[a] = m /\ \A b \in Actors : b # a => me'[b] = me[b]
  BY DEF IInv, Shapes
<1>2. ASSUME NEW b \in Actors, me[b].at \in Starting PROVE FALSE
  <2>1. me[b].rec = active
    BY <1>2 DEF Home
  <2>2. b \in Clients
    BY <1>2 DEF IInv, Shapes, Shape, Starting, WatcherPlaces, Actors
  <2> QED
    BY <1>2, <2>1, <2>2 DEF MidStart, Starting
<1>3. \A b \in Actors : me'[b].at \notin Starting
  BY <1>1, <1>2
<1> QED
  BY <1>3 DEF Home

LEMMA TakesKeep ==
  ASSUME IInv, JInv, NEW a \in Actors,
         StopTake(a) \/ CancelTake(a) \/ StopTakeHalf(a)
  PROVE  JInv'
<1>1. ASSUME StopTake(a) PROVE JInv'
  <2> DEFINE m == [me[a] EXCEPT !.at = "teardown", !.rec = active, !.take = handle]
  <2>1. me[a] \in Locals /\ me = [b \in Actors |-> me[b]] /\ Neat(me[a], cap)
    BY DEF IInv, Shapes, Shape, JInv, Tidy
  <2>2. me' = [me EXCEPT ![a] = m]
    BY <1>1, <2>1 DEF StopTake, Goto
  <2>3. /\ m.at = "teardown" /\ m.rec = active
        /\ m.take = handle /\ m.tracks = me[a].tracks
    BY <2>1 DEF Locals
  <2>4. me[a].at \in {"idle", "fired"} /\ (me[a].at = "idle" => a \in Clients)
    BY <1>1 DEF StopTake, Calls, CallsStop, At
  <2>5. /\ active' = None /\ handle' = None /\ meeting' = meeting /\ cap' = cap
        /\ nextRec' = nextRec
    BY <1>1 DEF StopTake
  <2> HIDE DEF m
  <2>6. me[a].tracks = <<>> /\ \A r \in Recs : ~Holds(me[a], r)
    BY <2>1, <2>4, EmptySeq, ActorsAssumption
    DEF Neat, Handling, Ending, Tracking, Halting, Opening, Flipping, Holds
  <2>7. Neat(m, cap') /\ \A r \in Recs : handle = r => Holds(m, r)
    BY <2>3, <2>6
    DEF Neat, Handling, Ending, Tracking, Halting, Opening, Flipping, Holds
  <2>8. Tidy' /\ Kept'
    BY <2>2, <2>5, <2>6, <2>7, Keeps
  <2>9. m.at \notin Starting \cup Minted
    BY <2>3 DEF Starting, Minted
  <2>10. ~raced' => ~raced /\ ~MidStart
    BY <1>1, Zenon DEF StopTake
  <2>11. Home /\ ~MidStart => Home'
    BY <2>2, <2>5, <2>9, NobodyStarts
  <2>12. HomeUnlessRaced'
    BY <2>10, <2>11, Zenon DEF HomeUnlessRaced, JInv
  <2>13. nextRec' \in Int /\ nextRec <= nextRec'
    BY <2>5, BoundAssumption DEF IInv, Stores
  <2>14. Sleeping'
    BY <2>2, <2>4, <2>9, <2>13, SleepStays
  <2> QED
    BY <2>8, <2>12, <2>14 DEF JInv
<1>2. ASSUME CancelTake(a) PROVE JInv'
  <2> DEFINE m == [me[a] EXCEPT !.at = "cancel", !.rec = active, !.take = handle]
  <2>1. me[a] \in Locals /\ me = [b \in Actors |-> me[b]] /\ Neat(me[a], cap)
    BY DEF IInv, Shapes, Shape, JInv, Tidy
  <2>2. me' = [me EXCEPT ![a] = m]
    BY <1>2, <2>1 DEF CancelTake, Goto
  <2>3. /\ m.at = "cancel" /\ m.rec = active
        /\ m.take = handle /\ m.tracks = me[a].tracks
    BY <2>1 DEF Locals
  <2>4. me[a].at \in {"idle", "fired"} /\ (me[a].at = "idle" => a \in Clients)
    BY <1>2 DEF CancelTake, Calls, At
  <2>5. /\ active' = None /\ handle' = None /\ meeting' = meeting /\ cap' = cap
        /\ nextRec' = nextRec
    BY <1>2 DEF CancelTake
  <2> HIDE DEF m
  <2>6. me[a].tracks = <<>> /\ \A r \in Recs : ~Holds(me[a], r)
    BY <2>1, <2>4, EmptySeq, ActorsAssumption
    DEF Neat, Handling, Ending, Tracking, Halting, Opening, Flipping, Holds
  <2>7. Neat(m, cap') /\ \A r \in Recs : handle = r => Holds(m, r)
    BY <2>3, <2>6
    DEF Neat, Handling, Ending, Tracking, Halting, Opening, Flipping, Holds
  <2>8. Tidy' /\ Kept'
    BY <2>2, <2>5, <2>6, <2>7, Keeps
  <2>9. m.at \notin Starting \cup Minted
    BY <2>3 DEF Starting, Minted
  <2>10. ~raced' => ~raced /\ ~MidStart
    BY <1>2, Zenon DEF CancelTake
  <2>11. Home /\ ~MidStart => Home'
    BY <2>2, <2>5, <2>9, NobodyStarts
  <2>12. HomeUnlessRaced'
    BY <2>10, <2>11, Zenon DEF HomeUnlessRaced, JInv
  <2>13. nextRec' \in Int /\ nextRec <= nextRec'
    BY <2>5, BoundAssumption DEF IInv, Stores
  <2>14. Sleeping'
    BY <2>2, <2>4, <2>9, <2>13, SleepStays
  <2> QED
    BY <2>8, <2>12, <2>14 DEF JInv
<1>3. ASSUME StopTakeHalf(a) PROVE JInv'
  <2>1. /\ me' = [me EXCEPT ![a] = Idle] /\ active' = None /\ handle' = handle
        /\ handle = None /\ meeting' = meeting /\ cap' = cap /\ nextRec' = nextRec
    BY <1>3 DEF StopTakeHalf
  <2>2. Neat(me[a], cap) /\ me[a].at \in {"idle", "fired"}
    BY <1>3 DEF StopTakeHalf, CallsStop, Calls, At, JInv, Tidy
  <2>3. \A r \in Recs : ~Holds(me[a], r)
    BY <2>2, EmptySeq, ActorsAssumption
    DEF Neat, Handling, Ending, Tracking, Halting, Opening, Flipping, Holds
  <2>4. Tidy' /\ Kept'
    BY <2>1, <2>3, IdleIsNeat, Keeps
  <2>5. ~raced' => ~raced /\ ~MidStart
    BY <1>3, Zenon DEF StopTakeHalf
  <2>6. Home /\ ~MidStart => Home'
    BY <2>1, IdleIsNeat, NobodyStarts
  <2>7. HomeUnlessRaced'
    BY <2>5, <2>6, Zenon DEF HomeUnlessRaced, JInv
  <2>8. nextRec' \in Int /\ nextRec <= nextRec'
    BY <2>1, BoundAssumption DEF IInv, Stores
  <2>9. Sleeping'
    BY <2>1, <2>8, IdleIsNeat, SleepStays
  <2> QED
    BY <2>4, <2>7, <2>9 DEF JInv
<1> QED
  BY <1>1, <1>2, <1>3

LEMMA MeetingTakesKeep ==
  ASSUME IInv, JInv, NEW a \in Actors, CancelTakeMeeting(a) \/ MeetingStopTake(a)
  PROVE  JInv'
<1>1. ASSUME CancelTakeMeeting(a) PROVE JInv'
  <2> DEFINE m == [me[a] EXCEPT !.at = "drop", !.tracks = meeting]
  <2>1. me[a] \in Locals /\ me = [b \in Actors |-> me[b]] /\ Neat(me[a], cap)
    BY DEF IInv, Shapes, Shape, JInv, Tidy
  <2>2. me' = [me EXCEPT ![a] = m]
    BY <1>1, <2>1 DEF CancelTakeMeeting, Goto
  <2>3. /\ m.at = "drop" /\ m.rec = me[a].rec
        /\ m.take = me[a].take /\ m.tracks = meeting
    BY <2>1 DEF Locals
  <2>4. me[a].at = "idle" /\ (me[a].at = "idle" => a \in Clients)
    BY <1>1 DEF CancelTakeMeeting, Calls, At
  <2>5. /\ active' = active /\ handle' = handle /\ meeting' = <<>> /\ cap' = cap
        /\ nextRec' = nextRec /\ raced' = raced
    BY <1>1 DEF CancelTakeMeeting, ghosts
  <2> HIDE DEF m
  <2>6. me[a].take = None /\ \A r \in Recs : ~Holds(me[a], r)
    BY <2>1, <2>4, EmptySeq, ActorsAssumption
    DEF Neat, Handling, Ending, Tracking, Halting, Opening, Flipping, Holds
  <2>7. Neat(m, cap') /\ \A r \in Recs : r \in Elems(meeting) => Holds(m, r)
    BY <2>3, <2>6
    DEF Neat, Handling, Ending, Tracking, Halting, Opening, Flipping, Holds
  <2>8. Tidy' /\ Kept'
    BY <2>2, <2>5, <2>6, <2>7, Keeps
  <2>9. m.at \notin Starting \cup Minted
    BY <2>3 DEF Starting, Minted
  <2>10. HomeUnlessRaced'
    BY <2>2, <2>5, <2>9, HomeStays
  <2>11. nextRec' \in Int /\ nextRec <= nextRec'
    BY <2>5, BoundAssumption DEF IInv, Stores
  <2>12. Sleeping'
    BY <2>2, <2>4, <2>9, <2>11, SleepStays
  <2> QED
    BY <2>8, <2>10, <2>12 DEF JInv
<1>2. ASSUME MeetingStopTake(a), meeting # <<>> PROVE JInv'
  <2> DEFINE m == [me[a] EXCEPT !.at = "haltAll", !.tracks = meeting]
  <2>1. me[a] \in Locals /\ me = [b \in Actors |-> me[b]] /\ Neat(me[a], cap)
    BY DEF IInv, Shapes, Shape, JInv, Tidy
  <2>2. me' = [me EXCEPT ![a] = m]
    BY <1>2, <2>1 DEF MeetingStopTake, Goto
  <2>3. /\ m.at = "haltAll" /\ m.rec = me[a].rec
        /\ m.take = me[a].take /\ m.tracks = meeting
    BY <2>1 DEF Locals
  <2>4. me[a].at = "meetStop" /\ (me[a].at = "idle" => a \in Clients)
    BY <1>2 DEF MeetingStopTake, Calls, At
  <2>5. /\ active' = active /\ handle' = handle /\ meeting' = <<>> /\ cap' = cap
        /\ nextRec' = nextRec /\ raced' = raced
    BY <1>2 DEF MeetingStopTake, ghosts
  <2> HIDE DEF m
  <2>6. me[a].take = None /\ \A r \in Recs : ~Holds(me[a], r)
    BY <2>1, <2>4, EmptySeq, ActorsAssumption
    DEF Neat, Handling, Ending, Tracking, Halting, Opening, Flipping, Holds
  <2>7. Neat(m, cap') /\ \A r \in Recs : r \in Elems(meeting) => Holds(m, r)
    BY <2>3, <2>6
    DEF Neat, Handling, Ending, Tracking, Halting, Opening, Flipping, Holds
  <2>8. Tidy' /\ Kept'
    BY <2>2, <2>5, <2>6, <2>7, Keeps
  <2>9. m.at \notin Starting \cup Minted
    BY <2>3 DEF Starting, Minted
  <2>10. HomeUnlessRaced'
    BY <2>2, <2>5, <2>9, HomeStays
  <2>11. nextRec' \in Int /\ nextRec <= nextRec'
    BY <2>5, BoundAssumption DEF IInv, Stores
  <2>12. Sleeping'
    BY <2>2, <2>4, <2>9, <2>11, SleepStays
  <2> QED
    BY <2>8, <2>10, <2>12 DEF JInv
<1>3. ASSUME MeetingStopTake(a), meeting = <<>> PROVE JInv'
  <2>1. me' = [me EXCEPT ![a] = Idle] /\ Calm /\ me[a].at = "meetStop"
    BY <1>3 DEF MeetingStopTake, Return, Calm, ghosts, At
  <2> QED
    BY <2>1, Leaves DEF Opening
<1> QED
  BY <1>1, <1>2, <1>3

LEMMA MintsKeep ==
  ASSUME IInv, JInv, NEW a \in Actors, StartReserve(a) \/ MeetingLock(a)
  PROVE  JInv'
<1>1. ASSUME StartReserve(a) PROVE JInv'
  <2> DEFINE m == [me[a] EXCEPT !.at = "insert", !.rec = nextRec]
  <2>1. me[a] \in Locals /\ me = [b \in Actors |-> me[b]] /\ Neat(me[a], cap)
    BY DEF IInv, Shapes, Shape, JInv, Tidy
  <2>2. me' = [me EXCEPT ![a] = m]
    BY <1>1, <2>1 DEF StartReserve, Goto
  <2>3. /\ m.at = "insert" /\ m.rec = nextRec
        /\ m.take = me[a].take /\ m.tracks = me[a].tracks
    BY <2>1 DEF Locals
  <2>4. me[a].at = "reserve" /\ active = None
    BY <1>1 DEF StartReserve, At
  <2>5. /\ active' = nextRec /\ handle' = handle /\ meeting' = meeting /\ cap' = cap
        /\ nextRec' = nextRec + 1 /\ raced' = raced /\ nextRec \in Int
    BY <1>1, BoundAssumption DEF StartReserve, ghosts, IInv, Stores
  <2> HIDE DEF m
  <2>6. \A r \in Recs : ~Holds(me[a], r)
    BY <2>1, <2>4, EmptySeq, ActorsAssumption
    DEF Neat, Handling, Ending, Tracking, Halting, Opening, Flipping, Holds
  <2>7. Neat(m, cap')
    BY <2>1, <2>3, <2>4, <2>5
    DEF Neat, Handling, Ending, Tracking, Halting, Opening, Flipping
  <2>8. Tidy' /\ Kept'
    BY <2>2, <2>5, <2>6, <2>7, Keeps
  <2>9. Home => Home'
    <3> SUFFICES ASSUME Home PROVE Home'
      OBVIOUS
    <3>1. handle = None
      BY <2>4 DEF Home
    <3>2. ASSUME NEW b \in Actors, me[b].at \in Starting PROVE FALSE
      <4>1. me[b].rec \in Recs /\ me[b].rec = None
        BY <2>4, <3>2, LocalsAre DEF Home, Starting, OnRec, Minted
      <4> QED
        BY <4>1, ActorsAssumption
    <3>3. me'[a] = m /\ \A b \in Actors : b # a => me'[b] = me[b]
      BY <2>2 DEF IInv, Shapes
    <3> QED
      BY <2>3, <2>5, <3>1, <3>2, <3>3 DEF Home
  <2>10. HomeUnlessRaced'
    BY <2>5, <2>9, Zenon DEF HomeUnlessRaced, JInv
  <2>11. nextRec' \in Int /\ nextRec <= nextRec'
    BY <2>5
  <2>12. Sleeping'
    BY <2>2, <2>3, <2>4, <2>11, SleepStays
  <2> QED
    BY <2>8, <2>10, <2>12 DEF JInv
<1>2. ASSUME MeetingLock(a) PROVE JInv'
  <2>1. me[a].at = "meetLock"
    BY <1>2 DEF MeetingLock, At
  <2>2. CASE meeting # <<>> \/ ~Room(Tracks)
    <3>1. me' = [me EXCEPT ![a] = Idle] /\ Calm
      BY <1>2, <2>2 DEF MeetingLock, Return, Calm, slots, ghosts
    <3> QED
      BY <2>1, <3>1, Leaves DEF Opening
  <2>3. CASE ~(meeting # <<>> \/ ~Room(Tracks))
    <3> DEFINE m == [me[a] EXCEPT !.at = "trackRow", !.rec = nextRec]
    <3>1. me[a] \in Locals /\ me = [b \in Actors |-> me[b]] /\ Neat(me[a], cap)
      BY DEF IInv, Shapes, Shape, JInv, Tidy
    <3>2. me' = [me EXCEPT ![a] = m]
      BY <1>2, <2>3, <3>1 DEF MeetingLock
    <3>3. m.at = "trackRow" /\ m.take = me[a].take /\ m.tracks = me[a].tracks
      BY <3>1 DEF Locals
    <3>4. /\ active' = active /\ handle' = handle /\ meeting' = meeting /\ cap' = cap
          /\ raced' = raced /\ nextRec' = nextRec + Tracks
      BY <1>2, <2>3 DEF MeetingLock, slots, ghosts
    <3>5. nextRec' \in Int /\ nextRec <= nextRec'
      BY <3>4, BoundAssumption DEF IInv, Stores
    <3> HIDE DEF m
    <3>6. \A r \in Recs : ~Holds(me[a], r)
      BY <2>1, <3>1, EmptySeq, ActorsAssumption
      DEF Neat, Handling, Ending, Tracking, Halting, Opening, Flipping, Holds
    <3>7. Neat(m, cap')
      BY <2>1, <3>1, <3>3
      DEF Neat, Handling, Ending, Tracking, Halting, Opening, Flipping
    <3>8. Tidy' /\ Kept'
      BY <3>2, <3>4, <3>6, <3>7, Keeps
    <3>9. m.at \notin Starting \cup Minted
      BY <3>3 DEF Starting, Minted
    <3>10. HomeUnlessRaced'
      BY <3>2, <3>4, <3>9, HomeStays
    <3>11. Sleeping'
      BY <2>1, <3>2, <3>5, <3>9, SleepStays
    <3> QED
      BY <3>8, <3>10, <3>11 DEF JInv
  <2> QED
    BY <2>2, <2>3
<1> QED
  BY <1>1, <1>2

LEMMA StartsKeep ==
  ASSUME IInv, JInv, NEW a \in Actors, StartOpenSource(a) \/ StartClearSlot(a)
  PROVE  JInv'
<1>1. ASSUME StartOpenSource(a), Goto(a, "clear"), UNCHANGED cap PROVE JInv'
  <2>1. Calm /\ me[a].at = "open"
    BY <1>1 DEF StartOpenSource, Calm, slots, At
  <2>2. Way("open", "clear")
    BY DEF Way, Handling, Ending, Tracking, Halting, Opening, Flipping, Starting, Minted
  <2> QED
    BY <1>1, <2>1, <2>2, Goes
<1>2. ASSUME StartOpenSource(a), Goto(a, "store"), cap' = [cap EXCEPT ![me[a].rec] = "live"]
      PROVE JInv'
  <2> DEFINE m == [me[a] EXCEPT !.at = "store"]
  <2>1. me[a] \in Locals /\ me = [b \in Actors |-> me[b]] /\ Neat(me[a], cap)
    BY DEF IInv, Shapes, Shape, JInv, Tidy
  <2>2. me' = [me EXCEPT ![a] = m]
    BY <1>2, <2>1 DEF Goto
  <2>3. /\ m.at = "store" /\ m.rec = me[a].rec
        /\ m.take = me[a].take /\ m.tracks = me[a].tracks
    BY <2>1 DEF Locals
  <2>4. /\ active' = active /\ handle' = handle /\ meeting' = meeting
        /\ nextRec' = nextRec /\ raced' = raced /\ me[a].at = "open"
    BY <1>2 DEF StartOpenSource, slots, At
  <2> HIDE DEF m
  <2>5. \A r \in Recs : ~Holds(me[a], r)
    BY <2>1, <2>4, EmptySeq, ActorsAssumption
    DEF Neat, Handling, Ending, Tracking, Halting, Opening, Flipping, Holds
  <2>6. \A r \in Recs : cap'[r] = "live" => cap[r] = "live" \/ r = me[a].rec
    BY <1>2 DEF IInv, Stores
  <2>7. Claims(me[a], me[a].rec) /\ Holds(m, me[a].rec)
    BY <2>3, <2>4 DEF Claims, Minted, Holds
  <2>8. Neat(m, cap')
    BY <2>1, <2>3, <2>4
    DEF Neat, Handling, Ending, Tracking, Halting, Opening, Flipping
  <2>9. \A r \in Recs : cap'[r] = "live" =>
           cap[r] = "live" \/ (Claims(me[a], r) /\ Holds(m, r))
    BY <2>6, <2>7, Zenon
  <2> HIDE DEF Neat
  <2>10. Tidy' /\ Kept'
    BY <2>2, <2>4, <2>5, <2>8, <2>9, Keeps
  <2>11. HomeUnlessRaced'
    BY <2>2, <2>3, <2>4, HomeStays DEF Starting
  <2>12. nextRec' \in Int /\ nextRec <= nextRec'
    BY <2>4, BoundAssumption DEF IInv, Stores
  <2>13. Sleeping'
    BY <2>2, <2>3, <2>4, <2>12, SleepStays DEF Minted
  <2> QED
    BY <2>10, <2>11, <2>13 DEF JInv
<1>3. ASSUME StartClearSlot(a) PROVE JInv'
  <2> DEFINE m == [me[a] EXCEPT !.at = "unrow"]
  <2>1. me[a] \in Locals /\ me = [b \in Actors |-> me[b]] /\ Neat(me[a], cap)
    BY DEF IInv, Shapes, Shape, JInv, Tidy
  <2>2. me' = [me EXCEPT ![a] = m]
    BY <1>3, <2>1 DEF StartClearSlot, Goto
  <2>3. m.at = "unrow" /\ m.take = me[a].take /\ m.tracks = me[a].tracks
    BY <2>1 DEF Locals
  <2>4. /\ active' = None /\ handle' = handle /\ meeting' = meeting /\ cap' = cap
        /\ nextRec' = nextRec /\ raced' = raced /\ me[a].at = "clear"
    BY <1>3 DEF StartClearSlot, ghosts, At
  <2> HIDE DEF m
  <2>5. \A r \in Recs : ~Holds(me[a], r)
    BY <2>1, <2>4, EmptySeq, ActorsAssumption
    DEF Neat, Handling, Ending, Tracking, Halting, Opening, Flipping, Holds
  <2>6. Neat(m, cap')
    BY <2>1, <2>3, <2>4
    DEF Neat, Handling, Ending, Tracking, Halting, Opening, Flipping
  <2>7. Tidy' /\ Kept'
    BY <2>2, <2>4, <2>5, <2>6, Keeps
  <2>8. Home => Home'
    <3>1. me'[a] = m /\ \A b \in Actors : b # a => me'[b] = me[b]
      BY <2>2 DEF IInv, Shapes
    <3> QED
      BY <2>3, <2>4, <3>1 DEF Home, Starting
  <2>9. HomeUnlessRaced'
    BY <2>4, <2>8, Zenon DEF HomeUnlessRaced, JInv
  <2>10. nextRec' \in Int /\ nextRec <= nextRec'
    BY <2>4, BoundAssumption DEF IInv, Stores
  <2>11. Sleeping'
    BY <2>2, <2>3, <2>4, <2>10, SleepStays DEF Minted
  <2> QED
    BY <2>7, <2>9, <2>11 DEF JInv
<1> QED
  BY <1>1, <1>2, <1>3 DEF StartOpenSource

LEMMA TrackStartKeeps ==
  ASSUME IInv, Locked, JInv, NEW a \in Actors, MeetingStartTrack(a)
  PROVE  JInv'
<1> DEFINE rec == me[a].rec
           started == Append(me[a].tracks, rec)
<1>1. /\ me[a] \in Locals /\ me = [b \in Actors |-> me[b]] /\ Neat(me[a], cap)
      /\ me[a].at = "trackStart" /\ rec \in Recs /\ me[a].tracks \in SeqRecs
      /\ Len(me[a].tracks) < Tracks
  BY DEF IInv, Shapes, Shape, JInv, Tidy, MeetingStartTrack, At, OnRec, Opening, Locals
<1>2. Elems(started) = Elems(me[a].tracks) \cup {rec}
  BY <1>1, AppendTo
<1>3. /\ active' = active /\ handle' = handle /\ nextRec' = nextRec /\ raced' = raced
      /\ cap' = [cap EXCEPT ![rec] = "live"]
  BY DEF MeetingStartTrack, ghosts
<1>4. \A r \in Recs : cap'[r] = "live" => cap[r] = "live" \/ r = rec
  BY <1>3 DEF IInv, Stores
<1>5. nextRec' \in Int /\ nextRec <= nextRec'
  BY <1>3, BoundAssumption DEF IInv, Stores
<1>6. Claims(me[a], rec)
  <2>1. Len(me[a].tracks) \in Nat /\ Tracks \in Int /\ rec \in Int
    BY <1>1, SeqRecsAre, BoundAssumption DEF Recs
  <2>2. rec <= rec /\ rec < rec + Tracks - Len(me[a].tracks)
    BY <1>1, <2>1
  <2> QED
    BY <1>1, <2>2 DEF Claims, Opening
<1>7. me[a].take = None /\ \A r \in Recs : Holds(me[a], r) => r \in Elems(started)
  BY <1>1, <1>2, ActorsAssumption
  DEF Neat, Handling, Ending, Tracking, Halting, Opening, Flipping, Holds
<1> HIDE DEF rec, started
<1>8. CASE Len(started) < Tracks
  <2> DEFINE m == [me[a] EXCEPT !.at = "trackRow", !.rec = rec + 1, !.tracks = started]
  <2>1. me' = [me EXCEPT ![a] = m] /\ meeting' = meeting
    BY <1>1, <1>8 DEF MeetingStartTrack, rec, started
  <2>2. m.at = "trackRow" /\ m.take = me[a].take /\ m.tracks = started
    BY <1>1 DEF Locals
  <2> HIDE DEF m
  <2>3. \A r \in Elems(started) : Holds(m, r)
    BY <2>2 DEF Holds, Flipping
  <2>4. Neat(m, cap')
    BY <1>7, <2>2 DEF Neat, Handling, Ending, Tracking, Halting, Opening, Flipping
  <2>5. \A r \in Recs : cap'[r] = "live" =>
          cap[r] = "live" \/ (Claims(me[a], r) /\ Holds(m, r))
    BY <1>2, <1>4, <1>6, <2>3, Zenon
  <2>6. Tidy' /\ Kept'
    BY <1>3, <1>7, <2>1, <2>3, <2>4, <2>5, Keeps
  <2>7. m.at \notin Starting \cup Minted
    BY <2>2 DEF Starting, Minted
  <2>8. HomeUnlessRaced' /\ Sleeping'
    BY <1>1, <1>3, <1>5, <2>1, <2>7, HomeStays, SleepStays
  <2> QED
    BY <2>6, <2>8 DEF JInv
<1>9. CASE ~(Len(started) < Tracks)
  <2>1. me' = [me EXCEPT ![a] = Idle] /\ meeting' = started
    BY <1>9 DEF MeetingStartTrack, Return, rec, started
  <2>2. Elems(meeting) = {}
    BY <1>1, EmptySeq DEF Locked, Opening
  <2>3. \A r \in Recs : cap'[r] = "live" =>
          cap[r] = "live" \/ (Claims(me[a], r) /\ r \in Elems(meeting'))
    BY <1>2, <1>4, <1>6, <2>1, Zenon
  <2>4. \A r \in Recs : Holds(me[a], r) => r \in Elems(meeting')
    BY <1>7, <2>1
  <2>5. Tidy' /\ Kept'
    BY <1>3, <2>1, <2>2, <2>3, <2>4, IdleIsNeat, Keeps
  <2>6. HomeUnlessRaced' /\ Sleeping'
    BY <1>3, <1>5, <2>1, IdleIsNeat, HomeStays, SleepStays
  <2> QED
    BY <2>5, <2>6 DEF JInv
<1> QED
  BY <1>8, <1>9

LEMMA StoreKeeps ==
  ASSUME IInv, JInv, NEW a \in Actors, StartStoreHandle(a)
  PROVE  JInv'
<1> DEFINE rec == me[a].rec
           w == Watcher(rec)
<1>1. /\ me[a] \in Locals /\ me = [b \in Actors |-> me[b]] /\ Neat(me[a], cap)
      /\ me[a].at = "store" /\ rec \in Recs /\ a \notin Watchers
  BY DEF IInv, Shapes, Shape, JInv, Tidy, StartStoreHandle, At, OnRec, Minted, WatcherPlaces
<1>2. w \in Actors /\ w \in Watchers /\ w # a
  BY <1>1 DEF Actors, Watchers
<1>3. me[w].at = "idle" /\ Neat(me[w], cap) /\ me[w] \in Locals
  BY <1>1, <1>2 DEF JInv, Sleeping, Minted, Tidy, IInv, Shapes, Shape
<1>4. PICK q \in {"armed", "fired"} : me' = [me EXCEPT ![a] = Idle, ![w].at = q]
  BY DEF StartStoreHandle
<1>5. /\ active' = active /\ handle' = rec /\ meeting' = meeting /\ nextRec' = nextRec
      /\ raced' = raced
  BY DEF StartStoreHandle, ghosts
<1>6. \A r \in Recs : cap'[r] = "live" => cap[r] = "live" /\ handle # r
  BY HaltedIs, ActorsAssumption DEF StartStoreHandle
<1>7. Claims(me[a], rec)
  BY <1>1 DEF Claims, Minted
<1>8. \A r \in Recs : Holds(me[a], r) => r = rec
  BY <1>1, EmptySeq, ActorsAssumption
  DEF Neat, Handling, Ending, Tracking, Halting, Opening, Flipping, Holds
<1>9. /\ me[w].take = None /\ me[w].tracks = <<>>
      /\ \A r \in Recs : ~Holds(me[w], r)
  BY <1>3, EmptySeq, ActorsAssumption
  DEF Neat, Handling, Ending, Tracking, Halting, Opening, Flipping, Holds
<1>10. \A r \in Recs : Watcher(r) \in Actors /\ Watcher(r) # a
                       /\ (Watcher(r) = w => r = rec)
  BY <1>1 DEF Actors, Watchers, Watcher
<1> HIDE DEF w, rec
<1>11. /\ me'[a] = Idle /\ me'[w] = [me[w] EXCEPT !.at = q]
       /\ \A b \in Actors : b # a /\ b # w => me'[b] = me[b]
  BY <1>1, <1>2, <1>4
<1>12. me'[w].at = q /\ me'[w].take = None /\ me'[w].tracks = <<>>
  BY <1>3, <1>9, <1>11 DEF Locals
<1>13. Tidy'
  <2> SUFFICES ASSUME NEW b \in Actors PROVE Neat(me'[b], cap')
    BY DEF Tidy
  <2>1. CASE b = a
    BY <2>1, <1>11, IdleIsNeat
  <2>2. CASE b = w
    BY <2>2, <1>12 DEF Neat, Handling, Ending, Tracking, Halting, Opening, Flipping
  <2>3. CASE b # a /\ b # w
    <3>1. Neat(me[b], cap) /\ Elems(me[b].tracks) \subseteq Recs
      BY LocalsAre, ElemsAreRecs DEF JInv, Tidy
    <3> QED
      BY <2>3, <3>1, <1>6, <1>11 DEF Neat
  <2> QED
    BY <2>1, <2>2, <2>3
<1>14. Kept'
  <2> SUFFICES ASSUME NEW r \in Recs, cap'[r] = "live"
               PROVE  \/ handle' = r \/ r \in Elems(meeting')
                      \/ \E b \in Actors : Holds(me'[b], r)
    BY DEF Kept
  <2>1. cap[r] = "live" /\ handle # r
    BY <1>6
  <2>2. r \in Elems(meeting) \/ \E b \in Actors : Holds(me[b], r)
    BY <2>1 DEF JInv, Kept
  <2> QED
    BY <2>2, <1>5, <1>8, <1>9, <1>11
<1>15. Home => Home'
  <2> SUFFICES ASSUME Home PROVE Home'
    OBVIOUS
  <2>1. active = rec /\ \A b \in Actors : b # a => me[b].at \notin Starting
    BY <1>1 DEF Home, Starting, rec
  <2>2. \A b \in Actors : me'[b].at \notin Starting
    BY <2>1, <1>11, <1>12, IdleIsNeat DEF Starting
  <2> QED
    BY <2>1, <2>2, <1>5 DEF Home
<1>16. HomeUnlessRaced'
  BY <1>5, <1>15, Zenon DEF HomeUnlessRaced, JInv
<1>17. ASSUME NEW b \in Actors, me'[b].at \in Minted
       PROVE  b # a /\ b # w /\ me'[b] = me[b] /\ me[b].rec # rec
  <2>1. b # a /\ b # w
    BY <1>11, <1>12, <1>17, IdleIsNeat DEF Minted
  <2>2. me'[b] = me[b] /\ Claims(me[b], me[b].rec)
    BY <1>11, <1>17, <2>1 DEF Claims
  <2> QED
    BY <1>1, <1>7, <2>1, <2>2 DEF IInv, Exclusive
<1>18. Sleeping'
  <2> SUFFICES ASSUME NEW r \in Recs, me'[Watcher(r)].at # "idle"
               PROVE  /\ r < nextRec'
                      /\ \A b \in Actors : me'[b].at \in Minted => me'[b].rec # r
    BY DEF Sleeping
  <2>1. CASE r = rec
    BY <2>1, <1>1, <1>5, <1>7, <1>17 DEF IInv, Exclusive
  <2>2. CASE r # rec
    <3>1. me[Watcher(r)].at # "idle"
      BY <2>2, <1>10, <1>11
    <3> QED
      BY <3>1, <1>5, <1>17 DEF JInv, Sleeping
  <2> QED
    BY <2>1, <2>2
<1> QED
  BY <1>13, <1>14, <1>16, <1>18 DEF JInv

LEMMA InitJInv == Init => Locked /\ JInv
<1> SUFFICES ASSUME Init PROVE Locked /\ JInv
  OBVIOUS
<1>1. \A a \in Actors : me[a] = Idle
  BY DEF Init
<1>2. \A r \in Recs : Watcher(r) \in Actors /\ cap[r] # "live"
  BY DEF Init, Actors, Watchers
<1>3. Locked
  BY <1>1 DEF Locked, Idle, Opening
<1>4. Tidy
  BY <1>1, IdleIsNeat DEF Tidy
<1>5. Kept
  BY <1>2 DEF Kept
<1>6. Sleeping
  BY <1>1, <1>2 DEF Sleeping, Idle
<1>7. Home
  BY <1>1, IdleIsNeat DEF Init, Home
<1> QED
  BY <1>3, <1>4, <1>5, <1>6, <1>7 DEF JInv, HomeUnlessRaced

LEMMA StepJInv == IInv /\ Locked /\ JInv /\ [Next]_vars => JInv'
<1> SUFFICES ASSUME IInv, Locked, JInv, [Next]_vars PROVE JInv'
  OBVIOUS
<1>1. ASSUME NEW a \in Clients, Request(a) PROVE JInv'
  <2>1. a \in Actors
    BY DEF Actors
  <2> QED
    BY <1>1, <2>1, CalmStartSteps, TakesKeep, MeetingTakesKeep, FlipSteps,
       CalmMeetingSteps DEF Request
<1>2. ASSUME NEW a \in Actors, Acquires(a) PROVE JInv'
  BY <1>2, CalmStartSteps, MintsKeep, StartsKeep, CalmMeetingSteps, MeetingTakesKeep
  DEF Acquires
<1>3. ASSUME NEW a \in Actors, Continues(a) PROVE JInv'
  BY <1>3, CalmStartSteps, StartsKeep, StoreKeeps, EndingSteps, CalmStopSteps,
     TrackListSteps, CalmMeetingSteps, TrackStartKeeps DEF Continues
<1>4. ASSUME NEW r \in Recs, CaptureEnds(r) PROVE JInv'
  BY <1>4, QuietWatcherSteps
<1>5. ASSUME NEW r \in Recs, WatcherWakes(r) PROVE JInv'
  <2>1. Watcher(r) \in Actors
    BY DEF Actors, Watchers
  <2> QED
    BY <1>5, <2>1, TakesKeep, QuietWatcherSteps DEF WatcherWakes
<1>6. ASSUME UNCHANGED vars PROVE JInv'
  <2>1. me' = me /\ Steady
    BY <1>6 DEF vars, slots, ghosts, Steady
  <2> QED
    BY <2>1, RestsEnding
<1> QED
  BY <1>1, <1>2, <1>3, <1>4, <1>5, <1>6 DEF Next

LEMMA HomeInvariance == Spec => [](IInv /\ JInv)
<1>1. Init => IInv /\ Locked /\ JInv
  BY InitIInv, InitJInv
<1>2. IInv /\ Locked /\ JInv /\ [Next]_vars => (IInv /\ Locked /\ JInv)'
  BY StepIInv, LocksKept, StepJInv
<1> QED
  BY <1>1, <1>2, PTL DEF Spec

(* Until a stop or cancel hits a start in flight, no capture runs that no  *)
(* request can end: it is in the slot beside its recording, in the meeting *)
(* or in a handler's hands (start's rollback, stop, cancel, the drops of a *)
(* failed meeting), with any number of connections, tracks and errors.     *)
THEOREM NoCaptureIsOrphaned == Spec => []NoOrphanCapture
<1>1. IInv /\ JInv => NoOrphanCapture
  <2> SUFFICES ASSUME IInv, JInv, ~raced, NEW r \in Recs, cap[r] = "live"
               PROVE  Holders(r) # {} /\ (handle = r => active = r)
    BY Zenon DEF NoOrphanCapture
  <2>1. Home
    BY Zenon DEF JInv, HomeUnlessRaced
  <2>2. handle = r => active = r
    BY <2>1, ActorsAssumption DEF Home
  <2>3. \A a \in Actors : Holds(me[a], r) => HeldBy(a, r)
    BY DEF Holds, HeldBy, At, Flipping
  <2>4. handle = r \/ r \in Elems(meeting) \/ \E a \in Actors : HeldBy(a, r)
    BY <2>3 DEF JInv, Kept
  <2>5. Holders(r) # {}
    BY <2>4 DEF Holders
  <2> QED
    BY <2>2, <2>5
<1> QED
  BY <1>1, HomeInvariance, PTL

-----------------------------------------------------------------------------
\* While meetings are started and stopped by toggles alone, whoever decides on
\* one keeps the guard of the toggles, and what it decided on still stands.
Beginning == {"meetStart", "meetCheck", "meetOpen", "meetLock"} \cup Opening
Deciding == {"toggle", "meetStop"} \cup Beginning

TogglesOnly == Ops \cap {"startMeeting", "stopMeeting", "cancel"} = {}

Guarded ==
  \A a \in Actors :
    /\ me[a].at \in Deciding => toggleGuard = a
    /\ me[a].at = "meetStop" => meeting # <<>>
    /\ me[a].at \in Beginning => meeting = <<>>

\* Most steps: nobody comes to a decision, and only the keeper of the guard
\* releases it.
LEMMA GuardStays ==
  ASSUME IInv, Guarded, NEW a \in Actors,
         \A b \in Actors : me'[b].at \in Deciding =>
           /\ me[b].at = me'[b].at \/ (me[b].at \in Beginning /\ me'[b].at \in Beginning)
           /\ toggleGuard' = toggleGuard \/ b # a,
         toggleGuard' = toggleGuard \/ toggleGuard' = Release(toggleGuard, a),
         meeting' = meeting
  PROVE  Guarded'
BY DEF Guarded, Release, Deciding, Beginning, Opening

LEMMA GoGuard ==
  ASSUME IInv, Guarded, NEW a \in Actors, NEW q, Goto(a, q), q \notin Deciding,
         toggleGuard' = toggleGuard, meeting' = meeting
  PROVE  Guarded'
<1>1. me = [b \in Actors |-> me[b]] /\ me[a] \in Locals
  BY DEF IInv, Shapes, Shape
<1>2. \A b \in Actors : me'[b].at \in Deciding => me[b].at = me'[b].at
  BY <1>1 DEF Goto, Locals
<1> QED
  BY <1>2, GuardStays

LEMMA BeginGuard ==
  ASSUME IInv, Guarded, NEW a \in Actors, NEW q, Goto(a, q), q \in Beginning,
         me[a].at \in Beginning, toggleGuard' = toggleGuard, meeting' = meeting
  PROVE  Guarded'
<1>1. me = [b \in Actors |-> me[b]] /\ me[a] \in Locals
  BY DEF IInv, Shapes, Shape
<1>2. \A b \in Actors : b # a => me'[b].at = me[b].at
  BY <1>1 DEF Goto
<1>3. me'[a].at = q
  BY <1>1 DEF Goto, Locals
<1> QED
  BY <1>2, <1>3, GuardStays

LEMMA ReturnGuard ==
  ASSUME IInv, Guarded, NEW a \in Actors, Return(a), meeting' = meeting
  PROVE  Guarded'
<1>1. me = [b \in Actors |-> me[b]] /\ me[a] \in Locals
  BY DEF IInv, Shapes, Shape
<1>2. \A b \in Actors : me'[b].at \in Deciding => me[b].at = me'[b].at /\ b # a
  BY <1>1 DEF Return, Idle, Deciding, Beginning, Opening
<1> QED
  BY <1>2, GuardStays DEF Return

LEMMA NextTrackGuard ==
  ASSUME IInv, Guarded, NEW a \in Actors, NEW q, NextTrack(a, q), q \notin Deciding,
         meeting' = meeting
  PROVE  Guarded'
<1>1. me = [b \in Actors |-> me[b]] /\ me[a] \in Locals
  BY DEF IInv, Shapes, Shape
<1>2. CASE Return(a)
  BY <1>2, ReturnGuard
<1>3. CASE ~Return(a)
  <2>1. /\ me' = [me EXCEPT ![a].at = q, ![a].tracks = Tail(@)]
        /\ toggleGuard' = toggleGuard
    BY <1>3 DEF NextTrack, locks
  <2>2. \A b \in Actors : me'[b].at \in Deciding => me[b].at = me'[b].at
    BY <1>1, <2>1 DEF Locals
  <2> QED
    BY <2>1, <2>2, GuardStays
<1> QED
  BY <1>2, <1>3

LEMMA StartKeepsGuard ==
  ASSUME IInv, Guarded, NEW a \in Actors,
         \/ StartCheckMeeting(a) \/ StartReserve(a) \/ StartRefused(a)
         \/ StartInsertRow(a) \/ StartOpenSource(a) \/ StartStoreHandle(a)
         \/ StartClearSlot(a) \/ StartDropRow(a)
  PROVE  Guarded'
<1>1. me = [b \in Actors |-> me[b]] /\ me[a] \in Locals
  BY DEF IInv, Shapes, Shape
<1>2. ASSUME StartCheckMeeting(a) PROVE Guarded'
  BY <1>1, <1>2, GuardStays
  DEF StartCheckMeeting, At, Goto, Return, Idle, Deciding, Beginning, Opening,
      slots, locks, Locals
<1>3. ASSUME StartReserve(a) PROVE Guarded'
  BY <1>1, <1>3, GuardStays
  DEF StartReserve, At, Goto, Return, Idle, Deciding, Beginning, Opening,
      slots, locks, Locals
<1>4. ASSUME StartRefused(a) PROVE Guarded'
  BY <1>1, <1>4, GuardStays
  DEF StartRefused, At, Goto, Return, Idle, Deciding, Beginning, Opening,
      slots, locks, Locals
<1>5. ASSUME StartInsertRow(a) PROVE Guarded'
  <2>1. \/ (Goto(a, "open") /\ toggleGuard' = toggleGuard)
        \/ (Goto(a, "clear") /\ toggleGuard' = toggleGuard)
    BY <1>5 DEF StartInsertRow, locks
  <2>2. meeting' = meeting
    BY <1>5 DEF StartInsertRow, slots
  <2> QED
    BY <2>1, <2>2, GoGuard DEF Deciding, Beginning, Opening
<1>6. ASSUME StartOpenSource(a) PROVE Guarded'
  <2>1. \/ (Goto(a, "store") /\ toggleGuard' = toggleGuard)
        \/ (Goto(a, "clear") /\ toggleGuard' = toggleGuard)
    BY <1>6 DEF StartOpenSource, locks
  <2>2. meeting' = meeting
    BY <1>6 DEF StartOpenSource, slots
  <2> QED
    BY <2>1, <2>2, GoGuard DEF Deciding, Beginning, Opening
<1>7. ASSUME StartStoreHandle(a) PROVE Guarded'
  BY <1>1, <1>7, GuardStays
  DEF StartStoreHandle, At, Goto, Return, Idle, Deciding, Beginning, Opening,
      slots, locks, Locals
<1>8. ASSUME StartClearSlot(a) PROVE Guarded'
  BY <1>1, <1>8, GuardStays
  DEF StartClearSlot, At, Goto, Return, Idle, Deciding, Beginning, Opening,
      slots, locks, Locals
<1>9. ASSUME StartDropRow(a) PROVE Guarded'
  BY <1>1, <1>9, GuardStays
  DEF StartDropRow, At, Goto, Return, Idle, Deciding, Beginning, Opening,
      slots, locks, Locals
<1> QED
  BY <1>2, <1>3, <1>4, <1>5, <1>6, <1>7, <1>8, <1>9

LEMMA StopKeepsGuard ==
  ASSUME IInv, Guarded, NEW a \in Actors,
         \/ StopTake(a) \/ StopTakeHalf(a) \/ StopSend(a)
         \/ StopWriteWav(a) \/ StopMark(a) \/ StopFastLane(a)
         \/ StopMarkQueued(a) \/ StopEnqueue(a)
  PROVE  Guarded'
<1>1. me = [b \in Actors |-> me[b]] /\ me[a] \in Locals
  BY DEF IInv, Shapes, Shape
<1>2. ASSUME StopTake(a) PROVE Guarded'
  BY <1>1, <1>2, GuardStays
  DEF StopTake, At, CallsStop, Calls, Goto, Return, Idle, Deciding, Beginning, Opening,
      slots, locks, Locals
<1>3. ASSUME StopTakeHalf(a) PROVE Guarded'
  BY <1>1, <1>3, GuardStays
  DEF StopTakeHalf, At, CallsStop, Calls, Goto, Return, Idle, Deciding, Beginning, Opening,
      slots,
      locks, Locals
<1>4. ASSUME StopSend(a) PROVE Guarded'
  BY <1>1, <1>4, GuardStays
  DEF StopSend, At, Goto, Return, Idle, Deciding, Beginning, Opening,
      slots, locks, Locals
<1>5. ASSUME StopWriteWav(a) PROVE Guarded'
  <2>1. (Goto(a, "mark") /\ toggleGuard' = toggleGuard) \/ Return(a)
    BY <1>5 DEF StopWriteWav, locks
  <2>2. meeting' = meeting
    BY <1>5 DEF StopWriteWav, slots
  <2> QED
    BY <2>1, <2>2, GoGuard, ReturnGuard DEF Deciding, Beginning, Opening
<1>6. ASSUME StopMark(a) PROVE Guarded'
  <2>1. \/ (Goto(a, "handoff") /\ toggleGuard' = toggleGuard)
        \/ Return(a)
    BY <1>6 DEF StopMark, locks
  <2>2. meeting' = meeting
    BY <1>6 DEF StopMark, slots
  <2> QED
    BY <2>1, <2>2, GoGuard, ReturnGuard DEF Deciding, Beginning, Opening
<1>7. ASSUME StopFastLane(a) PROVE Guarded'
  BY <1>1, <1>7, GuardStays
  DEF StopFastLane, At, Goto, Return, Idle, Deciding, Beginning, Opening,
      slots, locks, Locals
<1>8. ASSUME StopMarkQueued(a) PROVE Guarded'
  <2>1. \/ (Goto(a, "enqueue") /\ toggleGuard' = toggleGuard)
        \/ Return(a)
    BY <1>8 DEF StopMarkQueued, locks
  <2>2. meeting' = meeting
    BY <1>8 DEF StopMarkQueued, slots
  <2> QED
    BY <2>1, <2>2, GoGuard, ReturnGuard DEF Deciding, Beginning, Opening
<1>9. ASSUME StopEnqueue(a) PROVE Guarded'
  BY <1>1, <1>9, GuardStays
  DEF StopEnqueue, At, Goto, Return, Idle, Deciding, Beginning, Opening,
      slots, locks, Locals
<1> QED
  BY <1>2, <1>3, <1>4, <1>5, <1>6, <1>7, <1>8, <1>9

LEMMA CancelKeepsGuard ==
  ASSUME IInv, Guarded, TogglesOnly, NEW a \in Actors,
         \/ CancelTake(a) \/ CancelSend(a) \/ CancelDeleteRow(a)
         \/ CancelTakeMeeting(a) \/ AbortNothing(a) \/ DropCapture(a)
         \/ DropRow(a)
  PROVE  Guarded'
<1>1. me = [b \in Actors |-> me[b]] /\ me[a] \in Locals
  BY DEF IInv, Shapes, Shape
<1>2. ASSUME CancelTake(a) PROVE Guarded'
  BY <1>1, <1>2, GuardStays
  DEF CancelTake, At, Goto, Return, Idle, Deciding, Beginning, Opening,
      slots, locks, Locals
<1>3. ASSUME CancelSend(a) PROVE Guarded'
  BY <1>1, <1>3, GuardStays
  DEF CancelSend, At, Goto, Return, Idle, Deciding, Beginning, Opening,
      slots, locks, Locals
<1>4. ASSUME CancelDeleteRow(a) PROVE Guarded'
  BY <1>1, <1>4, GuardStays
  DEF CancelDeleteRow, At, Goto, Return, Idle, Deciding, Beginning, Opening,
      slots, locks, Locals
<1>5. ASSUME CancelTakeMeeting(a) PROVE Guarded'
  BY <1>5 DEF CancelTakeMeeting, Calls, TogglesOnly
<1>6. ASSUME AbortNothing(a) PROVE Guarded'
  BY <1>1, <1>6, GuardStays
  DEF AbortNothing, At, Goto, Return, Idle, Deciding, Beginning, Opening,
      slots, locks, Locals
<1>7. ASSUME DropCapture(a) PROVE Guarded'
  BY <1>1, <1>7, GuardStays
  DEF DropCapture, At, Goto, Return, Idle, Deciding, Beginning, Opening,
      slots, locks, Locals
<1>8. ASSUME DropRow(a) PROVE Guarded'
  <2>1. NextTrack(a, me[a].at)
    BY <1>8 DEF DropRow, locks
  <2>2. meeting' = meeting
    BY <1>8 DEF DropRow, slots
  <2>3. me[a].at \notin Deciding
    BY <1>8 DEF DropRow, Drops, Deciding, Beginning, Opening
  <2> QED
    BY <2>1, <2>2, <2>3, NextTrackGuard DEF Deciding, Beginning, Opening
<1> QED
  BY <1>2, <1>3, <1>4, <1>5, <1>6, <1>7, <1>8

LEMMA PauseKeepsGuard ==
  ASSUME IInv, Guarded, NEW a \in Actors,
         \/ PauseSingle(a) \/ ResumeSingle(a) \/ PauseMeeting(a)
         \/ ResumeMeeting(a) \/ FlipRow(a)
  PROVE  Guarded'
<1>1. me = [b \in Actors |-> me[b]] /\ me[a] \in Locals
  BY DEF IInv, Shapes, Shape
<1>2. ASSUME PauseSingle(a) PROVE Guarded'
  BY <1>1, <1>2, GuardStays
  DEF PauseSingle, At, Goto, Return, Idle, Deciding, Beginning, Opening,
      slots, locks, Locals
<1>3. ASSUME ResumeSingle(a) PROVE Guarded'
  BY <1>1, <1>3, GuardStays
  DEF ResumeSingle, At, Goto, Return, Idle, Deciding, Beginning, Opening,
      slots, locks, Locals
<1>4. ASSUME PauseMeeting(a) PROVE Guarded'
  BY <1>1, <1>4, GuardStays
  DEF PauseMeeting, At, FlipMeeting, Goto, Return, Idle, Deciding, Beginning, Opening,
      slots, locks, Locals
<1>5. ASSUME ResumeMeeting(a) PROVE Guarded'
  BY <1>1, <1>5, GuardStays
  DEF ResumeMeeting, At, FlipMeeting, Goto, Return, Idle, Deciding, Beginning, Opening,
      slots, locks, Locals
<1>6. ASSUME FlipRow(a) PROVE Guarded'
  <2>1. NextTrack(a, me[a].at) \/ Return(a)
    BY <1>6 DEF FlipRow, locks
  <2>2. meeting' = meeting
    BY <1>6 DEF FlipRow, slots
  <2>3. me[a].at \notin Deciding
    BY <1>6 DEF FlipRow, Deciding, Beginning, Opening
  <2> QED
    BY <2>1, <2>2, <2>3, NextTrackGuard, ReturnGuard DEF Deciding, Beginning, Opening
<1> QED
  BY <1>2, <1>3, <1>4, <1>5, <1>6

LEMMA MeetingStartKeepsGuard ==
  ASSUME IInv, Guarded, TogglesOnly, NEW a \in Actors,
         \/ MeetingStartCall(a) \/ MeetingStopCall(a) \/ ToggleCall(a)
         \/ ToggleDecide(a) \/ MeetingCheckActive(a)
         \/ MeetingCheckMeeting(a) \/ MeetingOpenSources(a)
         \/ MeetingInsertRow(a) \/ MeetingTrackFails(a)
  PROVE  Guarded'
<1>1. me = [b \in Actors |-> me[b]] /\ me[a] \in Locals
  BY DEF IInv, Shapes, Shape
<1>2. ASSUME MeetingStartCall(a) PROVE Guarded'
  BY <1>2 DEF MeetingStartCall, Calls, TogglesOnly
<1>3. ASSUME MeetingStopCall(a) PROVE Guarded'
  BY <1>3 DEF MeetingStopCall, Calls, TogglesOnly
<1>4. ASSUME ToggleCall(a) PROVE Guarded'
  <2>1. /\ toggleGuard = None /\ toggleGuard' = a /\ meeting' = meeting
        /\ Goto(a, "toggle")
    BY <1>4 DEF ToggleCall, slots
  <2>2. me'[a].at = "toggle" /\ \A b \in Actors : b # a => me'[b] = me[b]
    BY <1>1, <2>1 DEF Goto, Locals
  <2>3. \A b \in Actors : me[b].at \notin Deciding
    BY <2>1, ActorsAssumption DEF Guarded
  <2> QED
    BY <2>1, <2>2, <2>3 DEF Guarded, Deciding, Beginning, Opening
<1>5. ASSUME ToggleDecide(a) PROVE Guarded'
  <2>1. /\ Goto(a, IF meeting # <<>> THEN "meetStop" ELSE "meetStart")
        /\ me[a].at = "toggle" /\ toggleGuard' = toggleGuard /\ meeting' = meeting
    BY <1>5 DEF ToggleDecide, At, slots, locks, Locals
  <2>2. /\ me'[a].at = IF meeting # <<>> THEN "meetStop" ELSE "meetStart"
        /\ \A b \in Actors : b # a => me'[b] = me[b]
    BY <1>1, <2>1 DEF Goto, Locals
  <2> QED
    BY <2>1, <2>2 DEF Guarded, Deciding, Beginning, Opening
<1>6. ASSUME MeetingCheckActive(a) PROVE Guarded'
  <2>1. \/ (Goto(a, "meetCheck") /\ toggleGuard' = toggleGuard)
        \/ Return(a)
    BY <1>6 DEF MeetingCheckActive, locks
  <2>2. meeting' = meeting /\ me[a].at \in Beginning
    BY <1>6 DEF MeetingCheckActive, At, Beginning, slots
  <2> QED
    BY <2>1, <2>2, BeginGuard, ReturnGuard DEF Beginning
<1>7. ASSUME MeetingCheckMeeting(a) PROVE Guarded'
  <2>1. \/ (Goto(a, "meetOpen") /\ toggleGuard' = toggleGuard)
        \/ Return(a)
    BY <1>7 DEF MeetingCheckMeeting, locks
  <2>2. meeting' = meeting /\ me[a].at \in Beginning
    BY <1>7 DEF MeetingCheckMeeting, At, Beginning, slots
  <2> QED
    BY <2>1, <2>2, BeginGuard, ReturnGuard DEF Beginning
<1>8. ASSUME MeetingOpenSources(a) PROVE Guarded'
  <2>1. \/ (Goto(a, "meetLock") /\ toggleGuard' = toggleGuard)
        \/ Return(a)
    BY <1>8 DEF MeetingOpenSources, locks
  <2>2. meeting' = meeting /\ me[a].at \in Beginning
    BY <1>8 DEF MeetingOpenSources, At, Beginning, slots
  <2> QED
    BY <2>1, <2>2, BeginGuard, ReturnGuard DEF Beginning
<1>9. ASSUME MeetingInsertRow(a) PROVE Guarded'
  <2>1. \/ (Goto(a, "trackStart") /\ me[a].at \in Beginning)
        \/ Goto(a, "abort")
    BY <1>9 DEF MeetingInsertRow, At, Beginning, Opening
  <2>2. toggleGuard' = toggleGuard /\ meeting' = meeting
    BY <1>9 DEF MeetingInsertRow, slots, locks, Locals
  <2> QED
    BY <2>1, <2>2, BeginGuard, GoGuard DEF Deciding, Beginning, Opening
<1>10. ASSUME MeetingTrackFails(a) PROVE Guarded'
  BY <1>1, <1>10, GuardStays
  DEF MeetingTrackFails, At, Goto, Return, Idle, Deciding, Beginning, Opening,
      slots, locks, Locals
<1> QED
  BY <1>2, <1>3, <1>4, <1>5, <1>6, <1>7, <1>8, <1>9, <1>10

LEMMA MeetingStopKeepsGuard ==
  ASSUME IInv, Guarded, NEW a \in Actors,
         \/ MeetingStopTake(a) \/ MeetingHaltAll(a) \/ MeetingAlign(a)
         \/ MeetingWriteTrack(a) \/ MeetingEnqueueTrack(a)
         \/ MeetingFailTrack(a)
  PROVE  Guarded'
<1>1. me = [b \in Actors |-> me[b]] /\ me[a] \in Locals
  BY DEF IInv, Shapes, Shape
<1>2. ASSUME MeetingStopTake(a) PROVE Guarded'
  <2>1. CASE meeting = <<>>
    BY <1>2, <2>1, ReturnGuard DEF MeetingStopTake
  <2>2. CASE meeting # <<>>
    <3>1. /\ me' = [me EXCEPT ![a].at = "haltAll", ![a].tracks = meeting]
          /\ toggleGuard' = toggleGuard /\ me[a].at = "meetStop"
      BY <1>2, <2>2 DEF MeetingStopTake, At, locks
    <3>2. me[a] \in Locals
      BY DEF IInv, Shapes, Shape
    <3>3. me'[a].at = "haltAll" /\ \A b \in Actors : b # a => me'[b] = me[b]
      BY <1>1, <3>1, <3>2 DEF Locals
    <3>4. \A b \in Actors : b # a => me[b].at \notin Deciding
      BY <3>1 DEF Guarded, Deciding
    <3> QED
      BY <3>3, <3>4 DEF Guarded, Deciding, Beginning, Opening
  <2> QED
    BY <2>1, <2>2
<1>3. ASSUME MeetingHaltAll(a) PROVE Guarded'
  BY <1>1, <1>3, GuardStays
  DEF MeetingHaltAll, At, Goto, Return, Idle, Deciding, Beginning, Opening,
      slots, locks, Locals
<1>4. ASSUME MeetingAlign(a) PROVE Guarded'
  BY <1>1, <1>4, GuardStays
  DEF MeetingAlign, At, Goto, Return, Idle, Deciding, Beginning, Opening,
      slots, locks, Locals
<1>5. ASSUME MeetingWriteTrack(a) PROVE Guarded'
  <2>1. \/ (Goto(a, "trackQueue") /\ toggleGuard' = toggleGuard)
        \/ (Goto(a, "trackFail") /\ toggleGuard' = toggleGuard)
    BY <1>5 DEF MeetingWriteTrack, locks
  <2>2. meeting' = meeting
    BY <1>5 DEF MeetingWriteTrack, slots
  <2> QED
    BY <2>1, <2>2, GoGuard DEF Deciding, Beginning, Opening
<1>6. ASSUME MeetingEnqueueTrack(a) PROVE Guarded'
  <2>1. \/ NextTrack(a, "trackWav")
        \/ (Goto(a, "trackFail") /\ toggleGuard' = toggleGuard)
    BY <1>6 DEF MeetingEnqueueTrack, locks
  <2>2. meeting' = meeting
    BY <1>6 DEF MeetingEnqueueTrack, slots
  <2> QED
    BY <2>1, <2>2, NextTrackGuard, GoGuard DEF Deciding, Beginning, Opening
<1>7. ASSUME MeetingFailTrack(a) PROVE Guarded'
  <2>1. NextTrack(a, "trackWav")
    BY <1>7 DEF MeetingFailTrack, locks
  <2>2. meeting' = meeting
    BY <1>7 DEF MeetingFailTrack, slots
  <2> QED
    BY <2>1, <2>2, NextTrackGuard DEF Deciding, Beginning, Opening
<1> QED
  BY <1>2, <1>3, <1>4, <1>5, <1>6, <1>7

LEMMA GuardKept ==
  ASSUME IInv, Guarded, TogglesOnly, [Next]_vars
  PROVE  Guarded'
<1>1. me = [b \in Actors |-> me[b]] /\ \A a \in Actors : me[a] \in Locals
  BY DEF IInv, Shapes, Shape
<1>2. ASSUME NEW a \in Actors, MeetingLock(a) PROVE Guarded'
  <2>1. CASE meeting # <<>> \/ ~Room(Tracks)
    BY <1>2, <2>1, ReturnGuard DEF MeetingLock, slots
  <2>2. CASE ~(meeting # <<>> \/ ~Room(Tracks))
    <3>1. /\ toggleGuard' = toggleGuard /\ meeting' = meeting
          /\ me[a].at \in Beginning
      BY <1>2, <2>2 DEF MeetingLock, At, Beginning, slots
    <3>2. me'[a].at = "trackRow" /\ \A b \in Actors : b # a => me'[b] = me[b]
      BY <1>1, <1>2, <2>2 DEF MeetingLock, Locals
    <3> QED
      BY <3>1, <3>2, GuardStays DEF Beginning, Opening
  <2> QED
    BY <2>1, <2>2
<1>3. ASSUME NEW a \in Actors, MeetingStartTrack(a) PROVE Guarded'
  <2>1. me[a].at = "trackStart"
    BY <1>3 DEF MeetingStartTrack, At
  <2>2. \A b \in Actors : b # a => me[b].at \notin Deciding
    BY <2>1 DEF Guarded, Deciding, Beginning, Opening
  <2>3. CASE Len(Append(me[a].tracks, me[a].rec)) < Tracks
    <3>1. toggleGuard' = toggleGuard /\ meeting' = meeting
      BY <1>3, <2>3 DEF MeetingStartTrack, locks
    <3>2. me'[a].at = "trackRow" /\ \A b \in Actors : b # a => me'[b] = me[b]
      BY <1>1, <1>3, <2>3 DEF MeetingStartTrack, Locals
    <3> QED
      BY <2>1, <3>1, <3>2, GuardStays DEF Beginning, Opening
  <2>4. CASE ~(Len(Append(me[a].tracks, me[a].rec)) < Tracks)
    <3>1. \A b \in Actors : me'[b].at \notin Deciding
      BY <1>1, <1>3, <2>2, <2>4
      DEF MeetingStartTrack, Return, Idle, Deciding, Beginning, Opening
    <3> QED
      BY <3>1 DEF Guarded, Deciding
  <2> QED
    BY <2>3, <2>4
<1>4. ASSUME NEW r \in Recs, CaptureEnds(r) \/ WatcherFindsNothing(r) PROVE Guarded'
  <2>1. toggleGuard' = toggleGuard /\ meeting' = meeting /\ Watcher(r) \in Actors
    BY <1>4 DEF CaptureEnds, WatcherFindsNothing, slots, locks, Actors, Watchers
  <2>2. \A b \in Actors : me'[b].at \in Deciding => me[b].at = me'[b].at
    BY <1>1, <1>4, <2>1
    DEF CaptureEnds, WatcherFindsNothing, Idle, Deciding, Beginning, Opening, Locals
  <2> QED
    BY <2>1, <2>2, GuardStays
<1>5. ASSUME NEW a \in Clients, Request(a) PROVE Guarded'
  <2>1. a \in Actors
    BY DEF Actors
  <2> QED
    BY <1>5, <2>1, StartKeepsGuard, StopKeepsGuard, CancelKeepsGuard, PauseKeepsGuard,
       MeetingStartKeepsGuard DEF Request
<1>6. ASSUME NEW a \in Actors, Acquires(a) PROVE Guarded'
  BY <1>2, <1>6, StartKeepsGuard, MeetingStartKeepsGuard, MeetingStopKeepsGuard
  DEF Acquires
<1>7. ASSUME NEW a \in Actors, Continues(a) PROVE Guarded'
  BY <1>3, <1>7, StartKeepsGuard, StopKeepsGuard, CancelKeepsGuard, PauseKeepsGuard,
     MeetingStartKeepsGuard, MeetingStopKeepsGuard DEF Continues
<1>8. ASSUME NEW r \in Recs, WatcherWakes(r) PROVE Guarded'
  <2>1. Watcher(r) \in Actors
    BY DEF Actors, Watchers
  <2> QED
    BY <1>4, <1>8, <2>1, StopKeepsGuard DEF WatcherWakes
<1>9. ASSUME UNCHANGED vars PROVE Guarded'
  BY <1>9 DEF Guarded, vars, slots, locks
<1> QED
  BY <1>4, <1>5, <1>6, <1>7, <1>8, <1>9 DEF Next

(* While meetings are started and stopped by toggles alone, a toggle acts  *)
(* on what it decided on: never two starts, never two stops, whatever      *)
(* singles, pauses, watchers and errors come in between.                   *)
THEOREM TogglesActOnTheirDecision == Spec => []ToggleDecisionStands
<1>1. CASE TogglesOnly
  <2>1. Init => Guarded
    BY DEF Init, Idle, Guarded, Deciding, Beginning, Opening
  <2>2. IInv /\ Guarded /\ [Next]_vars => Guarded'
    BY <1>1, GuardKept
  <2>3. Guarded => ToggleDecisionStands
    BY DEF Guarded, At, Beginning, Deciding, Actors, ToggleDecisionStands
  <2> QED
    BY <2>1, <2>2, <2>3, Invariance, PTL DEF Spec
<1>2. CASE ~TogglesOnly
  <2>1. ToggleDecisionStands
    BY <1>2, Zenon DEF ToggleDecisionStands, TogglesOnly
  <2> QED
    BY <2>1, PTL
<1> QED
  BY <1>1, <1>2
-----------------------------------------------------------------------------
(* What is handed over has its audio on disk.                              *)
(*                                                                         *)
(* Recorded: past the write of its audio a recording has a file, until it  *)
(* is handed over.  The tracks of a list are distinct, so that those still *)
(* to come are not among those already handed over.                        *)

Distinct(t) == \A i, j \in DOMAIN t : t[i] = t[j] => i = j
Taken == {"teardown", "join"}
Written == {"mark", "handoff", "enqueue"}

Recorded(m, w) ==
  /\ m.at \in Taken => m.take \in Recs
  /\ m.at \in Written => w[m.rec] # None
  /\ m.at = "trackQueue" => w[Head(m.tracks)] # None
  /\ Distinct(m.tracks)
  /\ m.at \in Opening => \A r \in Elems(m.tracks) : r < m.rec

OnDisk ==
  /\ \A r \in handed : wav[r] # None
  /\ Distinct(meeting)
  /\ \A a \in Actors : Recorded(me[a], wav)

LEMMA DistinctTail ==
  ASSUME NEW t \in SeqRecs, t # <<>>, Distinct(t)
  PROVE  Distinct(Tail(t)) /\ Head(t) \notin Elems(Tail(t))
<1>1. t \in Seq(Recs) /\ Len(t) \in Nat /\ Len(t) # 0 /\ Head(t) = t[1]
  BY SeqRecsAre
<1>2. /\ DOMAIN Tail(t) = 1 .. Len(t) - 1
      /\ \A i \in 1 .. Len(t) - 1 : Tail(t)[i] = t[i + 1]
  BY <1>1
<1>3. DOMAIN t = 1 .. Len(t)
  BY <1>1
<1>4. ASSUME NEW i \in DOMAIN Tail(t), NEW j \in DOMAIN Tail(t), Tail(t)[i] = Tail(t)[j]
      PROVE  i = j
  <2>1. i + 1 \in DOMAIN t /\ j + 1 \in DOMAIN t /\ t[i + 1] = t[j + 1]
    BY <1>1, <1>2, <1>3, <1>4
  <2>2. i + 1 = j + 1
    BY <2>1 DEF Distinct
  <2> QED
    BY <2>2, <1>1, <1>2
<1>5. ASSUME Head(t) \in Elems(Tail(t)) PROVE FALSE
  <2>1. PICK i \in DOMAIN Tail(t) : Head(t) = Tail(t)[i]
    BY <1>5 DEF Elems
  <2>2. i + 1 \in DOMAIN t /\ 1 \in DOMAIN t /\ t[i + 1] = t[1]
    BY <2>1, <1>1, <1>2, <1>3
  <2>3. i + 1 = 1
    BY <2>2 DEF Distinct
  <2> QED
    BY <2>1, <2>3, <1>1, <1>2
<1> QED
  BY <1>4, <1>5 DEF Distinct

LEMMA DistinctAppend ==
  ASSUME NEW t \in SeqRecs, NEW r \in Recs, r \notin Elems(t), Distinct(t)
  PROVE  Distinct(Append(t, r))
<1>1. t \in Seq(Recs) /\ Len(t) \in Nat /\ DOMAIN t = 1 .. Len(t)
  BY SeqRecsAre
<1>2. /\ DOMAIN Append(t, r) = 1 .. Len(t) + 1 /\ Append(t, r)[Len(t) + 1] = r
      /\ \A i \in 1 .. Len(t) : Append(t, r)[i] = t[i]
  BY <1>1
<1>3. \A i \in 1 .. Len(t) : t[i] # r
  BY <1>1 DEF Elems
<1> QED
  BY <1>1, <1>2, <1>3 DEF Distinct

LEMMA DistinctEmpty == Distinct(<<>>)
BY DEF Distinct

\* One handler's locals become m, audio is only written, and what is handed
\* over has some.
LEMMA DiskStep ==
  ASSUME IInv, OnDisk, NEW a \in Actors, NEW m,
         me' = [me EXCEPT ![a] = m], Recorded(m, wav'),
         \A r \in Recs : wav[r] # None => wav'[r] # None,
         \A r \in handed' : r \in handed \/ wav'[r] # None,
         Distinct(meeting')
  PROVE  OnDisk'
<1>1. me'[a] = m /\ \A b \in Actors : b # a => me'[b] = me[b]
  BY DEF IInv, Shapes
<1>2. ASSUME NEW b \in Actors, b # a PROVE Recorded(me[b], wav')
  <2>1. Recorded(me[b], wav)
    BY DEF OnDisk
  <2>2. /\ me[b].at \in Written => me[b].rec \in Recs
        /\ me[b].at = "trackQueue" => Head(me[b].tracks) \in Recs
    BY LocalsAre DEF Written, OnRec, OnTracks
  <2> QED
    BY <2>1, <2>2 DEF Recorded
<1>3. \A r \in handed' : wav'[r] # None
  BY DEF OnDisk, IInv, Stores
<1> QED
  BY <1>1, <1>2, <1>3 DEF OnDisk

LEMMA DiskRests ==
  ASSUME OnDisk, me' = me, wav' = wav, handed' = handed, meeting' = meeting
  PROVE  OnDisk'
BY DEF OnDisk

\* Only these steps make a handler's locals promise more than they did.
DiskWay(p, q) ==
  /\ q \in Taken => p \in Taken
  /\ q \in Written => p \in Written
  /\ q # "trackQueue"
  /\ q \in Opening => p \in Opening

LEMMA GoDisk ==
  ASSUME IInv, OnDisk, NEW a \in Actors, NEW q, Goto(a, q), DiskWay(me[a].at, q),
         wav' = wav, handed' = handed, meeting' = meeting
  PROVE  OnDisk'
<1> DEFINE m == [me[a] EXCEPT !.at = q]
<1>1. me[a] \in Locals /\ me = [b \in Actors |-> me[b]] /\ Recorded(me[a], wav)
  BY DEF IInv, Shapes, Shape, OnDisk
<1>2. me' = [me EXCEPT ![a] = m]
  BY <1>1 DEF Goto
<1>3. m.at = q /\ m.rec = me[a].rec /\ m.take = me[a].take /\ m.tracks = me[a].tracks
  BY <1>1 DEF Locals
<1> HIDE DEF m
<1>4. Recorded(m, wav')
  BY <1>1, <1>3 DEF Recorded, DiskWay
<1>5. Distinct(meeting')
  BY DEF OnDisk
<1> QED
  BY <1>2, <1>4, <1>5, DiskStep

LEMMA ReturnDisk ==
  ASSUME IInv, OnDisk, NEW a \in Actors, me' = [me EXCEPT ![a] = Idle], wav' = wav,
         \A r \in handed' : r \in handed \/ wav[r] # None,
         meeting' = meeting \/ meeting' = <<>>
  PROVE  OnDisk'
<1>1. Recorded(Idle, wav')
  BY DistinctEmpty DEF Recorded, Idle, Taken, Written, Opening
<1>2. Distinct(meeting')
  BY DistinctEmpty DEF OnDisk
<1> QED
  BY <1>1, <1>2, DiskStep

LEMMA NextTrackDisk ==
  ASSUME IInv, OnDisk, NEW a \in Actors, NEW q, NextTrack(a, q), me[a].tracks # <<>>,
         q \notin Taken \cup Written \cup Opening \cup {"trackQueue"},
         wav' = wav, \A r \in handed' : r \in handed \/ wav[r] # None, meeting' = meeting
  PROVE  OnDisk'
<1>1. me[a] \in Locals /\ me = [b \in Actors |-> me[b]] /\ Recorded(me[a], wav)
  BY DEF IInv, Shapes, Shape, OnDisk
<1>2. CASE Len(me[a].tracks) = 1
  BY <1>2, ReturnDisk DEF NextTrack, Return
<1>3. CASE Len(me[a].tracks) # 1
  <2> DEFINE m == [me[a] EXCEPT !.at = q, !.tracks = Tail(@)]
  <2>1. me' = [me EXCEPT ![a] = m]
    BY <1>1, <1>3 DEF NextTrack
  <2>2. m.at = q /\ m.tracks = Tail(me[a].tracks)
    BY <1>1 DEF Locals
  <2> HIDE DEF m
  <2>3. Distinct(Tail(me[a].tracks))
    BY <1>1, DistinctTail DEF Recorded, Locals
  <2>4. Recorded(m, wav')
    BY <2>2, <2>3 DEF Recorded
  <2>5. Distinct(meeting')
    BY DEF OnDisk
  <2> QED
    BY <2>1, <2>4, <2>5, DiskStep
<1> QED
  BY <1>2, <1>3

LEMMA DiskStartSteps ==
  ASSUME IInv, OnDisk, NEW a \in Actors,
         \/ StartCheckMeeting(a) \/ StartRefused(a) \/ StartInsertRow(a)
         \/ StartOpenSource(a) \/ StartClearSlot(a) \/ StartDropRow(a)
  PROVE  OnDisk'
<1>1. ASSUME StartCheckMeeting(a) PROVE OnDisk'
  <2>1. Goto(a, "reserve")
    BY <1>1 DEF StartCheckMeeting
  <2>2. wav' = wav /\ handed' = handed /\ meeting' = meeting
    BY <1>1 DEF StartCheckMeeting, slots, store
  <2>3. me[a].at = "idle"
    BY <1>1 DEF StartCheckMeeting, At, Calls
  <2>4. DiskWay("idle", "reserve")
    BY DEF DiskWay, Taken, Written, Opening
  <2> QED
    BY <2>1, <2>2, <2>3, <2>4, GoDisk
<1>2. ASSUME StartRefused(a) PROVE OnDisk'
  <2>1. me' = [me EXCEPT ![a] = Idle]
    BY <1>2 DEF StartRefused, Return
  <2>2. wav' = wav /\ handed' = handed /\ meeting' = meeting
    BY <1>2 DEF StartRefused, slots, store
  <2> QED
    BY <2>1, <2>2, ReturnDisk
<1>3. ASSUME StartInsertRow(a) PROVE OnDisk'
  <2>1. Goto(a, "open") \/ Goto(a, "clear")
    BY <1>3 DEF StartInsertRow
  <2>2. wav' = wav /\ handed' = handed /\ meeting' = meeting
    BY <1>3 DEF StartInsertRow, slots, store
  <2>3. me[a].at = "insert"
    BY <1>3 DEF StartInsertRow, At
  <2>4. DiskWay("insert", "open") /\ DiskWay("insert", "clear")
    BY DEF DiskWay, Taken, Written, Opening
  <2> QED
    BY <2>1, <2>2, <2>3, <2>4, GoDisk
<1>4. ASSUME StartOpenSource(a) PROVE OnDisk'
  <2>1. Goto(a, "store") \/ Goto(a, "clear")
    BY <1>4 DEF StartOpenSource
  <2>2. wav' = wav /\ handed' = handed /\ meeting' = meeting
    BY <1>4 DEF StartOpenSource, slots, store
  <2>3. me[a].at = "open"
    BY <1>4 DEF StartOpenSource, At
  <2>4. DiskWay("open", "store") /\ DiskWay("open", "clear")
    BY DEF DiskWay, Taken, Written, Opening
  <2> QED
    BY <2>1, <2>2, <2>3, <2>4, GoDisk
<1>5. ASSUME StartClearSlot(a) PROVE OnDisk'
  <2>1. Goto(a, "unrow")
    BY <1>5 DEF StartClearSlot
  <2>2. wav' = wav /\ handed' = handed /\ meeting' = meeting
    BY <1>5 DEF StartClearSlot, slots, store
  <2>3. me[a].at = "clear"
    BY <1>5 DEF StartClearSlot, At
  <2>4. DiskWay("clear", "unrow")
    BY DEF DiskWay, Taken, Written, Opening
  <2> QED
    BY <2>1, <2>2, <2>3, <2>4, GoDisk
<1>6. ASSUME StartDropRow(a) PROVE OnDisk'
  <2>1. me' = [me EXCEPT ![a] = Idle]
    BY <1>6 DEF StartDropRow, Return
  <2>2. wav' = wav /\ handed' = handed /\ meeting' = meeting
    BY <1>6 DEF StartDropRow, slots, store
  <2> QED
    BY <2>1, <2>2, ReturnDisk
<1> QED
  BY <1>1, <1>2, <1>3, <1>4, <1>5, <1>6

LEMMA DiskStopSteps ==
  ASSUME IInv, OnDisk, NEW a \in Actors,
         \/ StopSend(a) \/ StopMark(a) \/ StopMarkQueued(a) \/ CancelSend(a)
         \/ CancelDeleteRow(a) \/ AbortNothing(a)
  PROVE  OnDisk'
<1>1. ASSUME StopSend(a) PROVE OnDisk'
  <2>1. Goto(a, "join")
    BY <1>1 DEF StopSend
  <2>2. wav' = wav /\ handed' = handed /\ meeting' = meeting
    BY <1>1 DEF StopSend, slots, store
  <2>3. me[a].at = "teardown"
    BY <1>1 DEF StopSend, At
  <2>4. DiskWay("teardown", "join")
    BY DEF DiskWay, Taken, Written, Opening
  <2> QED
    BY <2>1, <2>2, <2>3, <2>4, GoDisk
<1>2. ASSUME StopMark(a) PROVE OnDisk'
  <2>1. Goto(a, "handoff") \/ me' = [me EXCEPT ![a] = Idle]
    BY <1>2 DEF StopMark, Return
  <2>2. wav' = wav /\ handed' = handed /\ meeting' = meeting
    BY <1>2 DEF StopMark, slots, store
  <2>3. me[a].at = "mark"
    BY <1>2 DEF StopMark, At
  <2>4. DiskWay("mark", "handoff")
    BY DEF DiskWay, Taken, Written, Opening
  <2> QED
    BY <2>1, <2>2, <2>3, <2>4, GoDisk, ReturnDisk
<1>3. ASSUME StopMarkQueued(a) PROVE OnDisk'
  <2>1. Goto(a, "enqueue") \/ me' = [me EXCEPT ![a] = Idle]
    BY <1>3 DEF StopMarkQueued, Return
  <2>2. wav' = wav /\ handed' = handed /\ meeting' = meeting
    BY <1>3 DEF StopMarkQueued, slots, store
  <2>3. me[a].at = "handoff"
    BY <1>3 DEF StopMarkQueued, At
  <2>4. DiskWay("handoff", "enqueue")
    BY DEF DiskWay, Taken, Written, Opening
  <2> QED
    BY <2>1, <2>2, <2>3, <2>4, GoDisk, ReturnDisk
<1>4. ASSUME CancelSend(a) PROVE OnDisk'
  <2>1. Goto(a, "delete")
    BY <1>4 DEF CancelSend
  <2>2. wav' = wav /\ handed' = handed /\ meeting' = meeting
    BY <1>4 DEF CancelSend, slots, store
  <2>3. me[a].at = "cancel"
    BY <1>4 DEF CancelSend, At
  <2>4. DiskWay("cancel", "delete")
    BY DEF DiskWay, Taken, Written, Opening
  <2> QED
    BY <2>1, <2>2, <2>3, <2>4, GoDisk
<1>5. ASSUME CancelDeleteRow(a) PROVE OnDisk'
  <2>1. me' = [me EXCEPT ![a] = Idle]
    BY <1>5 DEF CancelDeleteRow, Return
  <2>2. wav' = wav /\ handed' = handed /\ meeting' = meeting
    BY <1>5 DEF CancelDeleteRow, slots, store
  <2> QED
    BY <2>1, <2>2, ReturnDisk
<1>6. ASSUME AbortNothing(a) PROVE OnDisk'
  <2>1. me' = [me EXCEPT ![a] = Idle]
    BY <1>6 DEF AbortNothing, Return
  <2>2. wav' = wav /\ handed' = handed /\ meeting' = meeting
    BY <1>6 DEF AbortNothing, slots, store
  <2> QED
    BY <2>1, <2>2, ReturnDisk
<1> QED
  BY <1>1, <1>2, <1>3, <1>4, <1>5, <1>6

LEMMA DiskMeetingSteps ==
  ASSUME IInv, OnDisk, NEW a \in Actors,
         \/ MeetingStartCall(a) \/ MeetingStopCall(a) \/ ToggleCall(a)
         \/ ToggleDecide(a) \/ MeetingCheckActive(a) \/ MeetingCheckMeeting(a)
         \/ MeetingOpenSources(a) \/ MeetingInsertRow(a) \/ MeetingTrackFails(a)
         \/ MeetingHaltAll(a) \/ MeetingAlign(a)
  PROVE  OnDisk'
<1>1. ASSUME MeetingStartCall(a) PROVE OnDisk'
  <2>1. Goto(a, "meetStart")
    BY <1>1 DEF MeetingStartCall
  <2>2. wav' = wav /\ handed' = handed /\ meeting' = meeting
    BY <1>1 DEF MeetingStartCall, slots, store
  <2>3. me[a].at = "idle"
    BY <1>1 DEF MeetingStartCall, At, Calls
  <2>4. DiskWay("idle", "meetStart")
    BY DEF DiskWay, Taken, Written, Opening
  <2> QED
    BY <2>1, <2>2, <2>3, <2>4, GoDisk
<1>2. ASSUME MeetingStopCall(a) PROVE OnDisk'
  <2>1. Goto(a, "meetStop")
    BY <1>2 DEF MeetingStopCall
  <2>2. wav' = wav /\ handed' = handed /\ meeting' = meeting
    BY <1>2 DEF MeetingStopCall, slots, store
  <2>3. me[a].at = "idle"
    BY <1>2 DEF MeetingStopCall, At, Calls
  <2>4. DiskWay("idle", "meetStop")
    BY DEF DiskWay, Taken, Written, Opening
  <2> QED
    BY <2>1, <2>2, <2>3, <2>4, GoDisk
<1>3. ASSUME ToggleCall(a) PROVE OnDisk'
  <2>1. Goto(a, "toggle")
    BY <1>3 DEF ToggleCall
  <2>2. wav' = wav /\ handed' = handed /\ meeting' = meeting
    BY <1>3 DEF ToggleCall, slots, store
  <2>3. me[a].at = "idle"
    BY <1>3 DEF ToggleCall, At, Calls
  <2>4. DiskWay("idle", "toggle")
    BY DEF DiskWay, Taken, Written, Opening
  <2> QED
    BY <2>1, <2>2, <2>3, <2>4, GoDisk
<1>4. ASSUME ToggleDecide(a) PROVE OnDisk'
  <2>1. Goto(a, "meetStop") \/ Goto(a, "meetStart")
    BY <1>4 DEF ToggleDecide
  <2>2. wav' = wav /\ handed' = handed /\ meeting' = meeting
    BY <1>4 DEF ToggleDecide, slots, store
  <2>3. me[a].at = "toggle"
    BY <1>4 DEF ToggleDecide, At
  <2>4. DiskWay("toggle", "meetStop") /\ DiskWay("toggle", "meetStart")
    BY DEF DiskWay, Taken, Written, Opening
  <2> QED
    BY <2>1, <2>2, <2>3, <2>4, GoDisk
<1>5. ASSUME MeetingCheckActive(a) PROVE OnDisk'
  <2>1. Goto(a, "meetCheck") \/ me' = [me EXCEPT ![a] = Idle]
    BY <1>5 DEF MeetingCheckActive, Return
  <2>2. wav' = wav /\ handed' = handed /\ meeting' = meeting
    BY <1>5 DEF MeetingCheckActive, slots, store
  <2>3. me[a].at = "meetStart"
    BY <1>5 DEF MeetingCheckActive, At
  <2>4. DiskWay("meetStart", "meetCheck")
    BY DEF DiskWay, Taken, Written, Opening
  <2> QED
    BY <2>1, <2>2, <2>3, <2>4, GoDisk, ReturnDisk
<1>6. ASSUME MeetingCheckMeeting(a) PROVE OnDisk'
  <2>1. Goto(a, "meetOpen") \/ me' = [me EXCEPT ![a] = Idle]
    BY <1>6 DEF MeetingCheckMeeting, Return
  <2>2. wav' = wav /\ handed' = handed /\ meeting' = meeting
    BY <1>6 DEF MeetingCheckMeeting, slots, store
  <2>3. me[a].at = "meetCheck"
    BY <1>6 DEF MeetingCheckMeeting, At
  <2>4. DiskWay("meetCheck", "meetOpen")
    BY DEF DiskWay, Taken, Written, Opening
  <2> QED
    BY <2>1, <2>2, <2>3, <2>4, GoDisk, ReturnDisk
<1>7. ASSUME MeetingOpenSources(a) PROVE OnDisk'
  <2>1. Goto(a, "meetLock") \/ me' = [me EXCEPT ![a] = Idle]
    BY <1>7 DEF MeetingOpenSources, Return
  <2>2. wav' = wav /\ handed' = handed /\ meeting' = meeting
    BY <1>7 DEF MeetingOpenSources, slots, store
  <2>3. me[a].at = "meetOpen"
    BY <1>7 DEF MeetingOpenSources, At
  <2>4. DiskWay("meetOpen", "meetLock")
    BY DEF DiskWay, Taken, Written, Opening
  <2> QED
    BY <2>1, <2>2, <2>3, <2>4, GoDisk, ReturnDisk
<1>8. ASSUME MeetingInsertRow(a) PROVE OnDisk'
  <2>1. Goto(a, "trackStart") \/ Goto(a, "abort")
    BY <1>8 DEF MeetingInsertRow
  <2>2. wav' = wav /\ handed' = handed /\ meeting' = meeting
    BY <1>8 DEF MeetingInsertRow, slots, store
  <2>3. me[a].at = "trackRow"
    BY <1>8 DEF MeetingInsertRow, At
  <2>4. DiskWay("trackRow", "trackStart") /\ DiskWay("trackRow", "abort")
    BY DEF DiskWay, Taken, Written, Opening
  <2> QED
    BY <2>1, <2>2, <2>3, <2>4, GoDisk
<1>9. ASSUME MeetingTrackFails(a) PROVE OnDisk'
  <2>1. Goto(a, "abort")
    BY <1>9 DEF MeetingTrackFails
  <2>2. wav' = wav /\ handed' = handed /\ meeting' = meeting
    BY <1>9 DEF MeetingTrackFails, slots, store
  <2>3. me[a].at = "trackStart"
    BY <1>9 DEF MeetingTrackFails, At
  <2>4. DiskWay("trackStart", "abort")
    BY DEF DiskWay, Taken, Written, Opening
  <2> QED
    BY <2>1, <2>2, <2>3, <2>4, GoDisk
<1>10. ASSUME MeetingHaltAll(a) PROVE OnDisk'
  <2>1. Goto(a, "align")
    BY <1>10 DEF MeetingHaltAll
  <2>2. wav' = wav /\ handed' = handed /\ meeting' = meeting
    BY <1>10 DEF MeetingHaltAll, slots, store
  <2>3. me[a].at = "haltAll"
    BY <1>10 DEF MeetingHaltAll, At
  <2>4. DiskWay("haltAll", "align")
    BY DEF DiskWay, Taken, Written, Opening
  <2> QED
    BY <2>1, <2>2, <2>3, <2>4, GoDisk
<1>11. ASSUME MeetingAlign(a) PROVE OnDisk'
  <2>1. Goto(a, "trackWav")
    BY <1>11 DEF MeetingAlign
  <2>2. wav' = wav /\ handed' = handed /\ meeting' = meeting
    BY <1>11 DEF MeetingAlign, slots, store
  <2>3. me[a].at = "align"
    BY <1>11 DEF MeetingAlign, At
  <2>4. DiskWay("align", "trackWav")
    BY DEF DiskWay, Taken, Written, Opening
  <2> QED
    BY <2>1, <2>2, <2>3, <2>4, GoDisk
<1> QED
  BY <1>1, <1>2, <1>3, <1>4, <1>5, <1>6, <1>7, <1>8, <1>9, <1>10, <1>11

LEMMA DiskTakeSteps ==
  ASSUME IInv, OnDisk, NEW a \in Actors,
         \/ StartReserve(a) \/ StopTake(a) \/ StopTakeHalf(a) \/ CancelTake(a)
         \/ CancelTakeMeeting(a) \/ PauseMeeting(a) \/ ResumeMeeting(a)
         \/ MeetingStopTake(a) \/ MeetingLock(a)
  PROVE  OnDisk'
<1>1. /\ me[a] \in Locals /\ me = [b \in Actors |-> me[b]]
      /\ Distinct(me[a].tracks) /\ Distinct(meeting) /\ Elems(<<>>) = {}
  BY EmptySeq DEF IInv, Shapes, Shape, OnDisk, Recorded
<1>2. me[a].at \in NoTracks => me[a].tracks = <<>>
  BY DEF IInv, Shapes, Shape
<1>3. ASSUME StartReserve(a) PROVE OnDisk'
  <2> DEFINE m == [me[a] EXCEPT !.at = "insert", !.rec = nextRec]
  <2>1. /\ me' = [me EXCEPT ![a] = m]
        /\ wav' = wav /\ handed' = handed /\ meeting' = meeting
    BY <1>1, <1>3 DEF StartReserve, store
  <2>2. m.at = "insert" /\ m.tracks = me[a].tracks
    BY <1>1 DEF Locals
  <2> HIDE DEF m
  <2>3. Recorded(m, wav')
    BY <1>1, <2>2 DEF Recorded, Taken, Written, Opening
  <2> QED
    BY <1>1, <2>1, <2>3, DiskStep
<1>4. ASSUME StopTake(a) PROVE OnDisk'
  <2> DEFINE m == [me[a] EXCEPT !.at = "teardown", !.rec = active, !.take = handle]
  <2>1. /\ me' = [me EXCEPT ![a] = m] /\ handle # None
        /\ wav' = wav /\ handed' = handed /\ meeting' = meeting
    BY <1>1, <1>4 DEF StopTake, store
  <2>2. m.at = "teardown" /\ m.take = handle /\ m.tracks = me[a].tracks
    BY <1>1 DEF Locals
  <2>3. handle \in Recs
    BY <2>1 DEF IInv, Stores
  <2> HIDE DEF m
  <2>4. Recorded(m, wav')
    BY <1>1, <2>2, <2>3 DEF Recorded, Taken, Written, Opening
  <2> QED
    BY <1>1, <2>1, <2>4, DiskStep
<1>5. ASSUME StopTakeHalf(a) PROVE OnDisk'
  <2>1. /\ me' = [me EXCEPT ![a] = Idle]
        /\ wav' = wav /\ handed' = handed /\ meeting' = meeting
    BY <1>5 DEF StopTakeHalf, store
  <2> QED
    BY <2>1, ReturnDisk
<1>6. ASSUME CancelTake(a) PROVE OnDisk'
  <2> DEFINE m == [me[a] EXCEPT !.at = "cancel", !.rec = active, !.take = handle]
  <2>1. /\ me' = [me EXCEPT ![a] = m]
        /\ wav' = wav /\ handed' = handed /\ meeting' = meeting
    BY <1>1, <1>6 DEF CancelTake, store
  <2>2. m.at = "cancel" /\ m.tracks = me[a].tracks
    BY <1>1 DEF Locals
  <2> HIDE DEF m
  <2>3. Recorded(m, wav')
    BY <1>1, <2>2 DEF Recorded, Taken, Written, Opening
  <2> QED
    BY <1>1, <2>1, <2>3, DiskStep
<1>7. ASSUME NEW q \in {"drop", "pausing", "resuming", "haltAll"},
             me' = [me EXCEPT ![a].at = q, ![a].tracks = meeting],
             wav' = wav, handed' = handed, meeting' = meeting \/ meeting' = <<>>
      PROVE  OnDisk'
  <2> DEFINE m == [me[a] EXCEPT !.at = q, !.tracks = meeting]
  <2>1. me' = [me EXCEPT ![a] = m]
    BY <1>1, <1>7
  <2>2. m.at = q /\ m.tracks = meeting
    BY <1>1 DEF Locals
  <2> HIDE DEF m
  <2>3. Recorded(m, wav')
    BY <1>1, <2>2 DEF Recorded, Taken, Written, Opening
  <2>4. Distinct(meeting')
    BY <1>1, <1>7, DistinctEmpty
  <2> QED
    BY <1>7, <2>1, <2>3, <2>4, DiskStep
<1>8. ASSUME CancelTakeMeeting(a) PROVE OnDisk'
  BY <1>7, <1>8 DEF CancelTakeMeeting, store
<1>9. ASSUME PauseMeeting(a) \/ ResumeMeeting(a) PROVE OnDisk'
  BY <1>7, <1>9 DEF PauseMeeting, ResumeMeeting, FlipMeeting, store
<1>10. ASSUME MeetingStopTake(a) PROVE OnDisk'
  <2>1. wav' = wav /\ handed' = handed /\ meeting' = <<>>
    BY <1>10 DEF MeetingStopTake, store
  <2>2. \/ me' = [me EXCEPT ![a] = Idle]
        \/ me' = [me EXCEPT ![a].at = "haltAll", ![a].tracks = meeting]
    BY <1>10 DEF MeetingStopTake, Return
  <2> QED
    BY <1>7, <2>1, <2>2, ReturnDisk
<1>11. ASSUME MeetingLock(a) PROVE OnDisk'
  <2>1. wav' = wav /\ handed' = handed /\ meeting' = meeting
    BY <1>11 DEF MeetingLock, slots, store
  <2>2. CASE meeting # <<>> \/ ~Room(Tracks)
    BY <1>11, <2>1, <2>2, ReturnDisk DEF MeetingLock, Return
  <2>3. CASE ~(meeting # <<>> \/ ~Room(Tracks))
    <3> DEFINE m == [me[a] EXCEPT !.at = "trackRow", !.rec = nextRec]
    <3>1. me' = [me EXCEPT ![a] = m]
      BY <1>1, <1>11, <2>3 DEF MeetingLock
    <3>2. m.at = "trackRow" /\ m.tracks = <<>>
      BY <1>1, <1>2, <1>11 DEF Locals, MeetingLock, At, NoTracks
    <3> HIDE DEF m
    <3>3. Recorded(m, wav')
      BY <1>1, <3>2, DistinctEmpty DEF Recorded, Taken, Written, Opening
    <3> QED
      BY <1>1, <2>1, <3>1, <3>3, DiskStep
  <2> QED
    BY <2>2, <2>3
<1> QED
  BY <1>3, <1>4, <1>5, <1>6, <1>8, <1>9, <1>10, <1>11

LEMMA DiskStoreStep ==
  ASSUME IInv, OnDisk, NEW a \in Actors, StartStoreHandle(a)
  PROVE  OnDisk'
<1>1. /\ me[a].rec \in Recs /\ a \in Actors
      /\ \A b \in Actors : me[b] \in Locals /\ Recorded(me[b], wav)
  BY LocalsAre DEF IInv, Shapes, Shape, OnDisk, StartStoreHandle, At, OnRec, Minted
<1>2. PICK q \in {"armed", "fired"} :
        me' = [me EXCEPT ![a] = Idle, ![Watcher(me[a].rec)].at = q]
  BY DEF StartStoreHandle
<1>3. me = [b \in Actors |-> me[b]] /\ Watcher(me[a].rec) \in Actors
  BY <1>1 DEF IInv, Shapes, Actors, Watchers
<1>4. wav' = wav /\ handed' = handed /\ meeting' = meeting
  BY DEF StartStoreHandle, store
<1>5. Recorded(Idle, wav)
  BY DistinctEmpty DEF Recorded, Idle, Taken, Written, Opening
<1>6. ASSUME NEW b \in Actors PROVE Recorded(me'[b], wav)
  <2>1. CASE b = Watcher(me[a].rec)
    <3>1. me'[b].at = q /\ (me'[b].tracks = me[b].tracks \/ me'[b].tracks = <<>>)
      BY <1>1, <1>2, <1>3, <2>1 DEF Locals, Idle
    <3> QED
      BY <1>1, <3>1, DistinctEmpty DEF Recorded, Taken, Written, Opening
  <2>2. CASE b # Watcher(me[a].rec)
    BY <1>1, <1>2, <1>3, <1>5, <2>2
  <2> QED
    BY <2>1, <2>2
<1> QED
  BY <1>4, <1>6 DEF OnDisk

LEMMA DiskWatcherSteps ==
  ASSUME IInv, OnDisk, NEW r \in Recs, CaptureEnds(r) \/ WatcherFindsNothing(r)
  PROVE  OnDisk'
<1>1. Watcher(r) \in Actors
  BY DEF Actors, Watchers
<1>2. wav' = wav /\ handed' = handed /\ meeting' = meeting
  BY DEF CaptureEnds, WatcherFindsNothing, slots, store
<1>3. CASE WatcherFindsNothing(r)
  BY <1>1, <1>2, <1>3, ReturnDisk DEF WatcherFindsNothing
<1>4. CASE CaptureEnds(r)
  <2>1. me' = me \/ Goto(Watcher(r), "fired")
    BY <1>4 DEF CaptureEnds, Goto
  <2>2. DiskWay(me[Watcher(r)].at, "fired")
    BY DEF DiskWay, Taken, Written, Opening
  <2> QED
    BY <1>1, <1>2, <2>1, <2>2, DiskRests, GoDisk
<1> QED
  BY <1>3, <1>4

LEMMA DiskWriteSteps ==
  ASSUME IInv, OnDisk, NEW a \in Actors,
         \/ StopWriteWav(a) \/ StopFastLane(a) \/ StopEnqueue(a)
         \/ MeetingWriteTrack(a) \/ MeetingEnqueueTrack(a)
  PROVE  OnDisk'
<1>1. /\ me[a] \in Locals /\ me = [b \in Actors |-> me[b]] /\ Recorded(me[a], wav)
      /\ Distinct(meeting)
  BY DEF IInv, Shapes, Shape, OnDisk
<1>2. /\ me[a].at \in Taken \cup Written => me[a].rec \in Recs
      /\ me[a].at \in {"trackWav", "trackQueue"} =>
           me[a].tracks # <<>> /\ Head(me[a].tracks) \in Recs
  BY LocalsAre DEF Taken, Written, OnRec, OnTracks
<1>3. ASSUME StopWriteWav(a) PROVE OnDisk'
  <2>1. handed' = handed /\ meeting' = meeting /\ me[a].at = "join"
    BY <1>3 DEF StopWriteWav, slots, At
  <2>2. CASE Fails(me[a].rec) /\ Return(a) /\ UNCHANGED wav
    BY <2>1, <2>2, ReturnDisk DEF Return
  <2>3. CASE wav' = [wav EXCEPT ![me[a].rec] = me[a].take] /\ Goto(a, "mark")
    <3> DEFINE m == [me[a] EXCEPT !.at = "mark"]
    <3>1. me' = [me EXCEPT ![a] = m]
      BY <1>1, <2>3 DEF Goto
    <3>2. m.at = "mark" /\ m.rec = me[a].rec /\ m.tracks = me[a].tracks
      BY <1>1 DEF Locals
    <3> HIDE DEF m
    <3>3. me[a].rec \in Recs /\ me[a].take \in Recs /\ None \notin Recs
      BY <1>1, <1>2, <2>1, ActorsAssumption DEF Recorded, Taken
    <3>4. /\ wav'[me[a].rec] # None
          /\ \A r \in Recs : wav[r] # None => wav'[r] # None
      BY <2>3, <3>3 DEF IInv, Stores
    <3>5. Recorded(m, wav')
      BY <1>1, <3>2, <3>4 DEF Recorded, Taken, Written, Opening
    <3> QED
      BY <1>1, <2>1, <3>1, <3>4, <3>5, DiskStep
  <2> QED
    BY <1>3, <2>2, <2>3 DEF StopWriteWav
<1>4. ASSUME StopFastLane(a) \/ StopEnqueue(a) PROVE OnDisk'
  <2>1. /\ me[a].at \in {"handoff", "enqueue"} /\ meeting' = meeting /\ wav' = wav
        /\ me' = [me EXCEPT ![a] = Idle]
        /\ handed' \subseteq handed \cup {me[a].rec}
    BY <1>4 DEF StopFastLane, StopEnqueue, slots, At, Return
  <2>2. wav[me[a].rec] # None
    BY <1>1, <2>1 DEF Recorded, Written
  <2> QED
    BY <2>1, <2>2, ReturnDisk
<1>5. ASSUME MeetingWriteTrack(a) PROVE OnDisk'
  <2> DEFINE h == Head(me[a].tracks)
  <2>1. /\ handed' = handed /\ meeting' = meeting /\ me[a].at = "trackWav"
        /\ h \in Recs /\ None \notin Recs
    BY <1>2, <1>5, ActorsAssumption DEF MeetingWriteTrack, slots, At
  <2>2. PICK q \in {"trackQueue", "trackFail"} :
          Goto(a, q) /\ (q = "trackQueue" => wav' = [wav EXCEPT ![h] = h])
    BY <1>5 DEF MeetingWriteTrack
  <2>3. wav' \in {wav, [wav EXCEPT ![h] = h]}
    BY <1>5 DEF MeetingWriteTrack
  <2> DEFINE m == [me[a] EXCEPT !.at = q]
  <2>4. me' = [me EXCEPT ![a] = m]
    BY <1>1, <2>2 DEF Goto
  <2>5. m.at = q /\ m.rec = me[a].rec /\ m.tracks = me[a].tracks
    BY <1>1 DEF Locals
  <2> HIDE DEF m, h
  <2>6. \A r \in Recs : wav[r] # None => wav'[r] # None
    BY <2>1, <2>3 DEF IInv, Stores
  <2>7. q = "trackQueue" => wav'[h] # None
    BY <2>1, <2>2 DEF IInv, Stores
  <2>8. Recorded(m, wav')
    BY <1>1, <2>5, <2>7 DEF Recorded, Taken, Written, Opening, h
  <2> QED
    BY <1>1, <2>1, <2>4, <2>6, <2>8, DiskStep
<1>6. ASSUME MeetingEnqueueTrack(a) PROVE OnDisk'
  <2>1. /\ wav' = wav /\ meeting' = meeting /\ me[a].at = "trackQueue"
        /\ me[a].tracks # <<>>
    BY <1>2, <1>6 DEF MeetingEnqueueTrack, slots, At
  <2>2. wav[Head(me[a].tracks)] # None
    BY <1>1, <2>1 DEF Recorded
  <2>3. CASE handed' = handed \cup {Head(me[a].tracks)} /\ NextTrack(a, "trackWav")
    BY <2>1, <2>2, <2>3, NextTrackDisk DEF Taken, Written, Opening
  <2>4. CASE Goto(a, "trackFail") /\ UNCHANGED <<handed, locks>>
    <3>1. DiskWay(me[a].at, "trackFail")
      BY DEF DiskWay, Taken, Written, Opening
    <3> QED
      BY <2>1, <2>4, <3>1, GoDisk
  <2> QED
    BY <1>6, <2>3, <2>4 DEF MeetingEnqueueTrack
<1> QED
  BY <1>3, <1>4, <1>5, <1>6

LEMMA DiskListSteps ==
  ASSUME IInv, OnDisk, NEW a \in Actors,
         \/ DropCapture(a) \/ DropRow(a) \/ PauseSingle(a) \/ ResumeSingle(a)
         \/ FlipRow(a) \/ MeetingFailTrack(a)
  PROVE  OnDisk'
<1>1. ASSUME DropCapture(a) \/ PauseSingle(a) \/ ResumeSingle(a) PROVE OnDisk'
  <2>1. me' = me /\ wav' = wav /\ handed' = handed /\ meeting' = meeting
    BY <1>1 DEF DropCapture, PauseSingle, ResumeSingle, slots, store
  <2> QED
    BY <2>1, DiskRests
<1>2. ASSUME DropRow(a) \/ FlipRow(a) \/ MeetingFailTrack(a) PROVE OnDisk'
  <2>1. wav' = wav /\ handed' = handed /\ meeting' = meeting
    BY <1>2 DEF DropRow, FlipRow, MeetingFailTrack, slots
  <2>2. \/ me' = [me EXCEPT ![a] = Idle]
        \/ \E q \in {"drop", "abort", "pausing", "resuming", "trackWav"} : NextTrack(a, q)
    BY <1>2 DEF DropRow, Drops, FlipRow, MeetingFailTrack, Return
  <2>3. me[a].tracks # <<>>
    BY <1>2, LocalsAre DEF DropRow, Drops, FlipRow, MeetingFailTrack, At, OnTracks, Flipping
  <2> QED
    BY <2>1, <2>2, <2>3, ReturnDisk, NextTrackDisk DEF Taken, Written, Opening
<1> QED
  BY <1>1, <1>2

LEMMA DiskTrackStart ==
  ASSUME IInv, OnDisk, NEW a \in Actors, MeetingStartTrack(a)
  PROVE  OnDisk'
<1> DEFINE rec == me[a].rec
           started == Append(me[a].tracks, rec)
<1>1. /\ me[a] \in Locals /\ me = [b \in Actors |-> me[b]] /\ Recorded(me[a], wav)
      /\ me[a].at = "trackStart" /\ rec \in Recs /\ me[a].tracks \in SeqRecs
      /\ Len(me[a].tracks) < Tracks
  BY DEF IInv, Shapes, Shape, OnDisk, MeetingStartTrack, At, OnRec, Opening, Locals
<1>2. Elems(started) = Elems(me[a].tracks) \cup {rec}
  BY <1>1, AppendTo
<1>3. /\ Elems(me[a].tracks) \subseteq Recs
      /\ \A r \in Recs : r \in Int
  BY <1>1, ElemsAreRecs DEF Recs
<1>4. \A r \in Elems(me[a].tracks) : r < rec
  BY <1>1 DEF Recorded, Opening
<1>5. Distinct(started)
  <2>1. rec \notin Elems(me[a].tracks)
    BY <1>1, <1>3, <1>4
  <2> QED
    BY <1>1, <2>1, DistinctAppend DEF Recorded
<1>6. \A r \in Elems(started) : r < rec + 1
  BY <1>1, <1>2, <1>3, <1>4
<1>7. wav' = wav /\ handed' = handed
  BY DEF MeetingStartTrack, store
<1> HIDE DEF rec, started
<1>8. CASE Len(started) < Tracks
  <2> DEFINE m == [me[a] EXCEPT !.at = "trackRow", !.rec = rec + 1, !.tracks = started]
  <2>1. me' = [me EXCEPT ![a] = m] /\ meeting' = meeting
    BY <1>1, <1>8 DEF MeetingStartTrack, rec, started
  <2>2. m.at = "trackRow" /\ m.rec = rec + 1 /\ m.tracks = started
    BY <1>1 DEF Locals
  <2> HIDE DEF m
  <2>3. Recorded(m, wav')
    BY <1>5, <1>6, <2>2 DEF Recorded, Taken, Written
  <2>4. Distinct(meeting')
    BY <2>1 DEF OnDisk
  <2> QED
    BY <1>7, <2>1, <2>3, <2>4, DiskStep
<1>9. CASE ~(Len(started) < Tracks)
  <2>1. me' = [me EXCEPT ![a] = Idle] /\ meeting' = started
    BY <1>9 DEF MeetingStartTrack, Return, rec, started
  <2>2. Recorded(Idle, wav')
    BY DistinctEmpty DEF Recorded, Idle, Taken, Written, Opening
  <2> QED
    BY <1>5, <1>7, <2>1, <2>2, DiskStep
<1> QED
  BY <1>8, <1>9

LEMMA DiskKept ==
  ASSUME IInv, OnDisk, [Next]_vars
  PROVE  OnDisk'
<1>1. ASSUME NEW a \in Clients, Request(a) PROVE OnDisk'
  <2>1. a \in Actors
    BY DEF Actors
  <2> QED
    BY <1>1, <2>1, DiskStartSteps, DiskTakeSteps, DiskListSteps, DiskMeetingSteps
    DEF Request
<1>2. ASSUME NEW a \in Actors, Acquires(a) PROVE OnDisk'
  BY <1>2, DiskStartSteps, DiskTakeSteps, DiskMeetingSteps DEF Acquires
<1>3. ASSUME NEW a \in Actors, Continues(a) PROVE OnDisk'
  BY <1>3, DiskStartSteps, DiskStopSteps, DiskStoreStep, DiskWriteSteps, DiskListSteps,
     DiskMeetingSteps, DiskTrackStart DEF Continues
<1>4. ASSUME NEW r \in Recs, CaptureEnds(r) PROVE OnDisk'
  BY <1>4, DiskWatcherSteps
<1>5. ASSUME NEW r \in Recs, WatcherWakes(r) PROVE OnDisk'
  <2>1. Watcher(r) \in Actors
    BY DEF Actors, Watchers
  <2> QED
    BY <1>5, <2>1, DiskTakeSteps, DiskWatcherSteps DEF WatcherWakes
<1>6. ASSUME UNCHANGED vars PROVE OnDisk'
  BY <1>6, DiskRests DEF vars, slots, store
<1> QED
  BY <1>1, <1>2, <1>3, <1>4, <1>5, <1>6 DEF Next

LEMMA InitOnDisk == Init => OnDisk
<1> SUFFICES ASSUME Init PROVE OnDisk
  OBVIOUS
<1>1. \A a \in Actors : me[a] = Idle
  BY DEF Init
<1>2. Recorded(Idle, wav)
  BY DistinctEmpty DEF Recorded, Idle, Taken, Written, Opening
<1>3. handed = {} /\ Distinct(meeting)
  BY DistinctEmpty DEF Init
<1> QED
  BY <1>1, <1>2, <1>3 DEF OnDisk

-----------------------------------------------------------------------------
(* Rows are backed, what is handed over stays whole, recorders go home.    *)
(*                                                                         *)
(* All three as long as no stop or cancel has hit a start in flight.       *)
(* Owners: the row of a recording belongs to one handler at a time, which  *)
(* is not the slot's (but for a start), nor the meeting's, nor handed      *)
(* over; and where its handler is says what the row can be (Fit).  Slot:   *)
(* what is in the slot has a recorder and a row, or a start that works on  *)
(* them.  Shown: the rows of a meeting can still be dropped, those handed  *)
(* over no longer change, and a row that says something is going on is     *)
(* somebody's.  Late writes of a pause and reported errors make a row odd. *)

Settled == {"Queued", "TranscribeFailed"}
Busy == {"Recording", "Paused", "Transcribing", "Queued"}
Present == {"open", "store", "teardown", "join", "mark", "haltAll"} \cup Opening \cup Halting
Undoable == Starting \cup {"unrow", "cancel", "delete", "drop", "abort"} \cup Opening
Odd == lost \cup late

\* Its row has not been inserted yet.
Coming(m, r) ==
  \/ m.at = "insert"
  \/ m.at \in Opening /\ m.rec < r
  \/ m.at = "trackRow" /\ m.rec = r

\* What the row s of a recording r of handler m can be.
Fit(m, r, s, odd) ==
  /\ Coming(m, r) => s = "absent"
  /\ m.at \in Present /\ ~Coming(m, r) => s # "absent"
  /\ m.at \in Undoable => s \notin Settled
  /\ m.at \in Taken => m.take = r
  /\ m.at = "handoff" => s = "Transcribing" \/ r \in odd
  /\ m.at = "enqueue" => s = "Queued" \/ r \in odd
  /\ m.at = "trackQueue" /\ r = Head(m.tracks) => s = "Queued" \/ r \in odd
  /\ m.at = "trackFail" /\ r = Head(m.tracks) => r \in odd

Owners ==
  \A r \in Recs : \A a \in Actors : Owns(me[a], r) =>
    /\ \A b \in Actors : Owns(me[b], r) => a = b
    /\ r < nextRec /\ r \notin Elems(meeting) /\ r \notin handed
    /\ r = active => me[a].at \in Starting
    /\ Fit(me[a], r, row[r], Odd)

Slot ==
  active # None =>
    /\ active < nextRec /\ active \notin Elems(meeting) /\ active \notin handed
    /\ row[active] \notin Settled
    /\ handle = None => \E a \in Actors : me[a].at \in Starting
    /\ handle # None => row[active] # "absent"

Shown ==
  /\ \A r \in Elems(meeting) : r \notin handed /\ row[r] \notin Settled \cup {"absent"}
  /\ \A r \in handed : r < nextRec /\ (row[r] \in {"Transcribing", "Queued"} \/ r \in Odd)
  /\ \A r \in Recs : nextRec <= r => row[r] = "absent"
  /\ \A r \in Recs \ Odd : row[r] \in Busy =>
       \/ r = active \/ r \in Elems(meeting) \/ r \in handed
       \/ \E a \in Actors : Owns(me[a], r)
  /\ \A r \in Recs : wav[r] \in {None, r}

Ordered == Owners /\ Slot /\ Shown

LEMMA FitGrows ==
  ASSUME NEW m, NEW r, NEW s, NEW A, NEW B, Fit(m, r, s, A), A \subseteq B
  PROVE  Fit(m, r, s, B)
BY DEF Fit

LEMMA OwnsNothing ==
  ASSUME NEW m, m.at \notin OnRec, m.at \in Flipping \/ m.tracks = <<>>
  PROVE  \A r : ~Owns(m, r)
BY EmptySeq DEF Owns, OnOne, OnRec

LEMMA IdleOwnsNothing == \A r : ~Owns(Idle, r)
BY OwnsNothing DEF Idle, OnRec, Minted, Opening

\* One handler's locals become m (and those of one that owns nothing change).
\* It may take over what the slot or the meeting held or nobody had, change
\* the rows of what it owns, and pass it on.
LEMMA Passes ==
  ASSUME IInv, Home, Ordered, NEW a \in Actors, NEW m, me'[a] = m,
         \A b \in Actors \ {a} :
           me'[b] = me[b] \/ \A r \in Recs : ~Owns(me'[b], r) /\ ~Owns(me[b], r),
         nextRec' \in Int, nextRec <= nextRec', Odd \subseteq Odd',
         active' \in {active, None, nextRec}, handed \subseteq handed',
         \A r \in Recs : row'[r] = row[r] \/ Owns(me[a], r),
         \A r \in Recs : wav'[r] = wav[r] \/ wav'[r] = r,
         \A r \in Recs : Owns(m, r) =>
           \/ Owns(me[a], r) \/ (r = active /\ handle # None)
           \/ r \in Elems(meeting) \/ nextRec <= r,
         \A r \in Recs : Owns(m, r) =>
           /\ r < nextRec' /\ r \notin Elems(meeting') /\ r \notin handed'
           /\ r = active' => m.at \in Starting
           /\ Fit(m, r, row'[r], Odd'),
         \A r \in Elems(meeting') :
           /\ r \in Recs /\ (r \in Elems(meeting) \/ Owns(me[a], r))
           /\ r \notin handed' /\ row'[r] \notin Settled \cup {"absent"},
         \A r \in handed' :
           \/ r \in handed
           \/ /\ r \in Recs /\ Owns(me[a], r)
              /\ row'[r] \in {"Transcribing", "Queued"} \/ r \in Odd',
         \A r \in Recs \ Odd' :
           row'[r] \in Busy /\ (Owns(me[a], r) \/ r = active \/ r \in Elems(meeting)) =>
             r = active' \/ r \in Elems(meeting') \/ r \in handed' \/ Owns(m, r)
  PROVE  Owners' /\ Shown'
<1>1. nextRec \in Int /\ \A r \in Recs : r \in Int /\ r # None
  BY BoundAssumption, ActorsAssumption DEF IInv, Stores, Recs
<1>2. ASSUME NEW r \in Recs, NEW b \in Actors, b # a, Owns(me'[b], r)
      PROVE  /\ me'[b] = me[b] /\ Owns(me[b], r) /\ ~Owns(me[a], r)
             /\ row'[r] = row[r] /\ ~Owns(m, r)
  <2>1. me'[b] = me[b] /\ Owns(me[b], r)
    BY <1>2
  <2>2. r < nextRec /\ r \notin Elems(meeting) /\ (r = active => me[b].at \in Starting)
    BY <2>1 DEF Ordered, Owners
  <2>3. ~Owns(me[a], r)
    BY <1>2, <2>1 DEF Ordered, Owners
  <2>4. r = active => handle = None
    BY <2>2 DEF Home
  <2> QED
    BY <1>1, <2>1, <2>2, <2>3, <2>4
<1>3. Owners'
  <2> SUFFICES ASSUME NEW r \in Recs, NEW b \in Actors, Owns(me'[b], r)
               PROVE  /\ \A c \in Actors : Owns(me'[c], r) => b = c
                      /\ r < nextRec' /\ r \notin Elems(meeting') /\ r \notin handed'
                      /\ r = active' => me'[b].at \in Starting
                      /\ Fit(me'[b], r, row'[r], Odd')
    BY DEF Owners
  <2>1. CASE b = a
    BY <1>2, <2>1
  <2>2. CASE b # a
    <3>1. /\ me'[b] = me[b] /\ Owns(me[b], r) /\ ~Owns(me[a], r)
          /\ row'[r] = row[r] /\ ~Owns(m, r)
      BY <1>2, <2>2
    <3>2. /\ \A c \in Actors : Owns(me[c], r) => b = c
          /\ r < nextRec /\ r \notin Elems(meeting) /\ r \notin handed
          /\ r = active => me[b].at \in Starting
          /\ Fit(me[b], r, row[r], Odd)
      BY <3>1 DEF Ordered, Owners
    <3>3. \A c \in Actors : Owns(me'[c], r) => b = c
      <4> SUFFICES ASSUME NEW c \in Actors, Owns(me'[c], r) PROVE b = c
        OBVIOUS
      <4>1. c # a
        BY <3>1
      <4>2. Owns(me[c], r)
        BY <1>2, <4>1
      <4> QED
        BY <3>2, <4>2
    <3>4. Fit(me'[b], r, row'[r], Odd')
      BY <3>1, <3>2, FitGrows
    <3> QED
      BY <1>1, <3>1, <3>2, <3>3, <3>4
  <2> QED
    BY <2>1, <2>2
<1>4. \A r \in handed : r \in Recs /\ r < nextRec /\ row'[r] = row[r]
  BY DEF Ordered, Owners, Shown, IInv, Stores
<1>5. \A r \in handed' : r < nextRec' /\ (row'[r] \in {"Transcribing", "Queued"} \/ r \in Odd')
  <2> SUFFICES ASSUME NEW r \in handed'
               PROVE  r < nextRec' /\ (row'[r] \in {"Transcribing", "Queued"} \/ r \in Odd')
    OBVIOUS
  <2>1. CASE r \in handed
    BY <1>1, <1>4, <2>1 DEF Ordered, Shown
  <2>2. CASE r \notin handed
    <3>1. r \in Recs /\ Owns(me[a], r) /\ (row'[r] \in {"Transcribing", "Queued"} \/ r \in Odd')
      BY <2>2
    <3>2. r < nextRec
      BY <3>1 DEF Ordered, Owners
    <3> QED
      BY <1>1, <3>1, <3>2
  <2> QED
    BY <2>1, <2>2
<1>6. ASSUME NEW r \in Recs, nextRec' <= r PROVE row'[r] = "absent"
  <2>1. nextRec <= r /\ ~(r < nextRec)
    BY <1>1, <1>6
  <2>2. ~Owns(me[a], r) /\ row[r] = "absent"
    BY <2>1 DEF Ordered, Owners, Shown
  <2> QED
    BY <2>2
<1>7. ASSUME NEW r \in Recs \ Odd', row'[r] \in Busy
      PROVE  \/ r = active' \/ r \in Elems(meeting') \/ r \in handed'
             \/ \E b \in Actors : Owns(me'[b], r)
  <2>1. CASE Owns(me[a], r) \/ r = active \/ r \in Elems(meeting)
    BY <1>7, <2>1
  <2>2. CASE ~(Owns(me[a], r) \/ r = active \/ r \in Elems(meeting))
    <3>1. row[r] \in Busy /\ r \in Recs \ Odd
      BY <1>7, <2>2
    <3>2. r \in handed \/ \E b \in Actors \ {a} : Owns(me[b], r)
      BY <2>2, <3>1 DEF Ordered, Shown
    <3> QED
      BY <3>2
  <2> QED
    BY <2>1, <2>2
<1>8. \A r \in Recs : wav'[r] \in {None, r}
  BY DEF Ordered, Shown
<1> QED
  BY <1>3, <1>5, <1>6, <1>7, <1>8 DEF Shown

\* The slot, the meeting and what is handed over stay.
Untouched ==
  /\ active' = active /\ handle' = handle /\ meeting' = meeting
  /\ handed' = handed /\ nextRec' = nextRec
  /\ Odd \subseteq Odd'

(* What a step does with a recording that nothing odd has happened to: its *)
(* handler keeps it, takes it or passes it on, and goes along the paths of *)
(* RecordingLife.                                                          *)

InSlots(r) == r \in Elems(meeting) \cup {active}
Advances(p, q) == p = q \/ <<p, q>> \in Life!Paths

\* Handler b has as much to do with recording r after the step as before.
Still(b, r) ==
  /\ Owns(me[b], r) <=> Owns(me'[b], r)
  /\ Owns(me[b], r) => Stage(me'[b].at) = Stage(me[b].at)

\* To whom it goes from the stage p, and from whom it comes to the stage q.
Gives(p, r) ==
  \/ r \in handed' /\ p = "finishing"
  \/ r \notin handed' /\ InSlots(r)' /\ p = "starting"
  \/ r \notin handed' /\ ~InSlots(r)' /\ p \in {"starting", "discarding"}

Takes(q, r) ==
  \/ nextRec <= r /\ q = "starting"
  \/ r < nextRec /\ r \notin handed /\ InSlots(r) /\ q \in {"finishing", "discarding"}

Handles(a, r) ==
  \/ /\ Still(a, r)
     /\ nextRec <= r <=> nextRec' <= r
     /\ r \in handed <=> r \in handed'
     /\ InSlots(r) <=> InSlots(r)'
  \/ /\ Owns(me[a], r) /\ Owns(me'[a], r)
     /\ Advances(Stage(me[a].at), Stage(me'[a].at))
  \/ Owns(me[a], r) /\ ~Owns(me'[a], r) /\ Gives(Stage(me[a].at), r)
  \/ ~Owns(me[a], r) /\ Owns(me'[a], r) /\ Takes(Stage(me'[a].at), r)

Handled ==
  \A r \in Recs \ Odd' : \E a \in Actors :
    Handles(a, r) /\ \A b \in Actors \ {a} : Still(b, r)

Orderly == Ordered' /\ Handled

LEMMA Hands ==
  ASSUME NEW a \in Actors, NEW m, me'[a] = m,
         \A b \in Actors \ {a} :
           me'[b] = me[b] \/ \A r \in Recs : ~Owns(me'[b], r) /\ ~Owns(me[b], r),
         \A r \in Recs \ Odd' : Handles(a, r)
  PROVE  Handled
<1>1. ASSUME NEW b \in Actors \ {a}, NEW r \in Recs PROVE Still(b, r)
  BY DEF Still
<1> QED
  BY <1>1 DEF Handled

LEMMA Tends ==
  ASSUME IInv, Home, Ordered, NEW a \in Actors, NEW m, me' = [me EXCEPT ![a] = m],
         Untouched,
         me[a].at \in Starting => m.at \in Starting /\ m.rec = me[a].rec,
         \A r \in Recs : row'[r] = row[r] \/ Owns(me[a], r),
         \A r \in Recs : wav'[r] = wav[r] \/ wav'[r] = r,
         \A r \in Recs : Owns(m, r) => Owns(me[a], r) /\ Fit(m, r, row'[r], Odd'),
         \A r \in Recs \ Odd' : Owns(me[a], r) /\ row'[r] \in Busy => Owns(m, r),
         \A r \in Recs \ Odd' : Owns(me[a], r) =>
           \/ Owns(m, r) /\ Advances(Stage(me[a].at), Stage(m.at))
           \/ ~Owns(m, r) /\ Stage(me[a].at) \in {"starting", "discarding"}
  PROVE  Orderly
<1>1. /\ me'[a] = m /\ \A b \in Actors \ {a} : me'[b] = me[b]
      /\ nextRec \in Int /\ active \in Recs \cup {None} /\ Elems(meeting) \subseteq Recs
  BY BoundAssumption, ElemsAreRecs DEF IInv, Shapes, Stores
<1>2. \A r \in Recs : r = active /\ Owns(me[a], r) => m.at \in Starting
  BY DEF Ordered, Owners
<1>3. \A r \in Recs : Owns(m, r) =>
        /\ r < nextRec /\ r \notin Elems(meeting) /\ r \notin handed
        /\ r = active => m.at \in Starting
  BY <1>2 DEF Ordered, Owners
<1>4. \A r \in Elems(meeting) : row'[r] = row[r] /\ row[r] \notin Settled \cup {"absent"}
  BY <1>1 DEF Ordered, Owners, Shown
<1>5. Owners' /\ Shown'
  <2>1. \A r \in Elems(meeting') :
          /\ r \in Recs /\ (r \in Elems(meeting) \/ Owns(me[a], r))
          /\ r \notin handed' /\ row'[r] \notin Settled \cup {"absent"}
    BY <1>1, <1>4 DEF Ordered, Shown, Untouched
  <2>2. nextRec' = nextRec /\ nextRec <= nextRec /\ active' = active /\ meeting' = meeting
        /\ handed' = handed /\ Odd \subseteq Odd'
    BY <1>1 DEF Untouched
  <2> QED
    BY <1>1, <1>3, <2>1, <2>2, Passes
<1>6. Slot'
  <2> SUFFICES ASSUME active # None
               PROVE  /\ active < nextRec /\ active \notin Elems(meeting)
                      /\ active \notin handed /\ row'[active] \notin Settled
                      /\ handle = None => \E b \in Actors : me'[b].at \in Starting
                      /\ handle # None => row'[active] # "absent"
    BY DEF Slot, Untouched
  <2>1. active \in Recs
    BY <1>1
  <2>2. CASE Owns(me[a], active)
    <3>1. me[a].at \in Starting
      BY <2>1, <2>2 DEF Ordered, Owners
    <3>2. handle = None /\ active = me[a].rec
      BY <3>1 DEF Home
    <3>3. m.at \in Starting /\ Owns(m, active)
      BY <3>1, <3>2 DEF Owns, OnOne, OnRec, Starting, Minted, Opening
    <3>4. row'[active] \notin Settled
      BY <2>1, <3>3 DEF Fit, Undoable
    <3> QED
      BY <1>1, <3>2, <3>3, <3>4 DEF Ordered, Slot
  <2>3. CASE ~Owns(me[a], active)
    <3>1. row'[active] = row[active]
      BY <2>1, <2>3
    <3>2. (\E b \in Actors : me[b].at \in Starting) => \E b \in Actors : me'[b].at \in Starting
      BY <1>1
    <3> QED
      BY <3>1, <3>2 DEF Ordered, Slot
  <2> QED
    BY <2>2, <2>3
<1>7. ASSUME NEW r \in Recs \ Odd' PROVE Handles(a, r)
  <2>1. /\ active' = active /\ meeting' = meeting /\ handed' = handed
        /\ nextRec' = nextRec /\ me'[a] = m
    BY <1>1 DEF Untouched
  <2>2. CASE ~Owns(me[a], r)
    BY <2>1, <2>2 DEF Handles, Still, InSlots
  <2>3. CASE Owns(me[a], r) /\ Owns(m, r)
    BY <2>1, <2>3 DEF Handles
  <2>4. CASE Owns(me[a], r) /\ ~Owns(m, r)
    <3>1. r \notin Elems(meeting) /\ r \notin handed /\ (r = active => me[a].at \in Starting)
      BY <2>4 DEF Ordered, Owners
    <3>2. r # active
      <4> SUFFICES ASSUME r = active PROVE FALSE
        OBVIOUS
      <4>1. m.at \in Starting /\ m.rec = r
        BY <3>1 DEF Home
      <4>2. Owns(m, r)
        BY <4>1 DEF Owns, OnOne, OnRec, Starting, Minted, Opening
      <4> QED
        BY <2>4, <4>2
    <3>3. ~InSlots(r)' /\ r \notin handed'
      BY <2>1, <3>1, <3>2 DEF InSlots
    <3> QED
      BY <2>1, <2>4, <3>3 DEF Handles, Gives
  <2> QED
    BY <2>2, <2>3, <2>4
<1>8. Handled
  BY <1>1, <1>7, Hands
<1> QED
  BY <1>5, <1>6, <1>8 DEF Ordered, Orderly

\* A handler at work on one recording owns that one.
LEMMA OwnsOne ==
  ASSUME IInv, JInv, NEW a \in Actors, me[a].at \in OnOne
  PROVE  me[a].rec \in Recs /\ \A r \in Recs : Owns(me[a], r) <=> r = me[a].rec
<1>1. me[a].rec \in Recs
  BY LocalsAre DEF OnOne
<1>2. me[a].tracks = <<>> /\ me[a].at \notin Opening
  BY DEF JInv, Tidy, Neat, OnOne, OnRec, Minted, Tracking, Halting, Flipping, Opening
<1> QED
  BY <1>1, <1>2, EmptySeq DEF Owns

LEMMA OddGrows ==
  ASSUME late' = late
  PROVE  /\ Works \/ Refused \/ lost' = lost => Odd \subseteq Odd'
         /\ \A r : Fails(r) => Odd \subseteq Odd' /\ r \in Odd'
BY DEF Works, Refused, Fails, Odd

\* Between these places a handler owns what it owned.
SameKind(p, q) ==
  /\ p \notin Flipping /\ q \notin Flipping
  /\ p \in OnOne <=> q \in OnOne
  /\ p \in Opening <=> q \in Opening

LEMMA GoRows ==
  ASSUME IInv, Home, Ordered, NEW a \in Actors, NEW q, Goto(a, q), Untouched,
         SameKind(me[a].at, q), me[a].at \in Starting => q \in Starting,
         Advances(Stage(me[a].at), Stage(q)),
         \A r \in Recs : row'[r] = row[r] \/ Owns(me[a], r),
         \A r \in Recs : wav'[r] = wav[r] \/ wav'[r] = r,
         \A m : m.at = q /\ m.rec = me[a].rec /\ m.take = me[a].take
                         /\ m.tracks = me[a].tracks =>
                  \A r \in Recs : Owns(me[a], r) => Fit(m, r, row'[r], Odd')
  PROVE  Orderly
<1> DEFINE m == [me[a] EXCEPT !.at = q]
<1>1. me[a] \in Locals /\ me = [b \in Actors |-> me[b]]
  BY DEF IInv, Shapes, Shape
<1>2. me' = [me EXCEPT ![a] = m]
  BY <1>1 DEF Goto
<1>3. m.at = q /\ m.rec = me[a].rec /\ m.take = me[a].take /\ m.tracks = me[a].tracks
  BY <1>1 DEF Locals
<1> HIDE DEF m
<1>4. \A r \in Recs : Owns(m, r) <=> Owns(me[a], r)
  BY <1>3 DEF Owns, SameKind
<1>5. \A r \in Recs : Owns(m, r) => Fit(m, r, row'[r], Odd')
  BY <1>3, <1>4
<1>6. \A r \in Recs : Owns(me[a], r) =>
        Owns(m, r) /\ Advances(Stage(me[a].at), Stage(m.at))
  BY <1>3, <1>4
<1> QED
  BY <1>2, <1>3, <1>4, <1>5, <1>6, Tends

LEMMA RestRows ==
  ASSUME IInv, Home, Ordered, me' = me, Untouched, row' = row, wav' = wav
  PROVE  Orderly
<1>1. \A r \in Recs : \A a \in Actors : Fit(me[a], r, row[r], Odd) => Fit(me[a], r, row[r], Odd')
  BY FitGrows DEF Untouched
<1>2. Owners' /\ Slot'
  BY <1>1 DEF Ordered, Owners, Slot, Untouched
<1>3. Shown'
  BY DEF Ordered, Shown, Untouched
<1>4. \A a : \A r \in Recs : Handles(a, r) /\ Still(a, r)
  BY DEF Handles, Still, InSlots, Untouched
<1>5. \A r \in Recs : Watcher(r) \in Actors
  BY DEF Actors, Watchers
<1>6. Handled
  BY <1>4, <1>5 DEF Handled
<1> QED
  BY <1>2, <1>3, <1>6 DEF Ordered, Orderly

\* A handler that owns nothing moves on and still owns nothing.
LEMMA QuietRows ==
  ASSUME IInv, Home, Ordered, NEW a \in Actors, NEW m, me' = [me EXCEPT ![a] = m],
         Untouched, row' = row, wav' = wav,
         me[a].at \notin OnRec, me[a].at \in Flipping \/ me[a].tracks = <<>>,
         m.at \notin OnRec, m.at \in Flipping \/ m.tracks = <<>>
  PROVE  Orderly
<1>1. \A r : ~Owns(m, r) /\ ~Owns(me[a], r)
  BY OwnsNothing
<1>2. me[a].at \notin Starting
  BY DEF Starting, OnRec, Minted
<1> QED
  BY <1>1, <1>2, Tends

\* A handler returns and leaves no row behind that says it is at work.
LEMMA ReturnRows ==
  ASSUME IInv, Home, Ordered, NEW a \in Actors, me' = [me EXCEPT ![a] = Idle],
         Untouched, wav' = wav, me[a].at \notin Starting,
         \A r \in Recs : row'[r] = row[r] \/ Owns(me[a], r),
         \A r \in Recs \ Odd' : Owns(me[a], r) =>
           row'[r] \notin Busy /\ me[a].at \in Discards
  PROVE  Orderly
<1>1. \A r : ~Owns(Idle, r)
  BY IdleOwnsNothing
<1>2. me[a].at \in Discards => Stage(me[a].at) \in {"starting", "discarding"}
  BY DEF Stage
<1> QED
  BY <1>1, <1>2, Tends

\* The head of the list has been dealt with; its row and no other has
\* changed, and it alone may have been handed over.
LEMMA NextTrackRows ==
  ASSUME IInv, OnDisk, Home, Ordered, NEW a \in Actors, NEW q, NEW h,
         NextTrack(a, q), me[a].tracks # <<>>, h = Head(me[a].tracks),
         (me[a].at \in {"drop", "abort"} /\ q = me[a].at)
           \/ (me[a].at \in Halting /\ q = "trackWav"),
         active' = active, handle' = handle, meeting' = meeting, nextRec' = nextRec,
         Odd \subseteq Odd', wav' = wav,
         \A r \in Recs : r # h => row'[r] = row[r],
         handed' \in {handed, handed \cup {h}},
         h \in handed' => row'[h] \in {"Transcribing", "Queued"} \/ h \in Odd',
         row'[h] \in Busy => h \in Odd' \cup handed',
         h \in Odd' \/ (h \in handed' /\ me[a].at \in Halting)
           \/ (handed' = handed /\ me[a].at \in {"drop", "abort"})
  PROVE  Orderly
<1>1. /\ me[a] \in Locals /\ me = [b \in Actors |-> me[b]] /\ Distinct(me[a].tracks)
      /\ me[a].tracks \in SeqRecs /\ h \in Recs /\ h \in Elems(me[a].tracks)
      /\ nextRec \in Int /\ Elems(meeting) \subseteq Recs
  BY HeadTail, ElemsAreRecs, BoundAssumption
  DEF IInv, Shapes, Shape, Stores, OnDisk, Recorded, Locals
<1>2. /\ me[a].at \notin Flipping \cup OnRec \cup Starting
      /\ q \notin Flipping \cup OnRec \cup Starting
  BY DEF Flipping, OnRec, Minted, Opening, Starting, Halting
<1>3. \A r \in Recs : Owns(me[a], r) <=> r \in Elems(me[a].tracks)
  BY <1>2 DEF Owns, OnOne, OnRec
<1>4. PICK m : /\ me' = [me EXCEPT ![a] = m]
               /\ m.at \notin Starting
               /\ \/ m = Idle /\ Elems(me[a].tracks) = {h}
                  \/ /\ m.at = q /\ m.tracks = Tail(me[a].tracks)
                     /\ Len(me[a].tracks) # 1
  <2>1. CASE Len(me[a].tracks) = 1
    <3>1. me' = [me EXCEPT ![a] = Idle] /\ Idle.at \notin Starting
      BY <2>1, IdleIsNeat DEF NextTrack, Return
    <3>2. Elems(me[a].tracks) = {h}
      BY <1>1, <2>1, SeqRecsAre DEF Elems
    <3> QED
      BY <3>1, <3>2
  <2>2. CASE Len(me[a].tracks) # 1
    <3> DEFINE n == [me[a] EXCEPT !.at = q, !.tracks = Tail(@)]
    <3>1. me' = [me EXCEPT ![a] = n]
      BY <1>1, <2>2 DEF NextTrack
    <3>2. n.at = q /\ n.tracks = Tail(me[a].tracks)
      BY <1>1 DEF Locals
    <3> HIDE DEF n
    <3> QED
      BY <1>2, <2>2, <3>1, <3>2
  <2> QED
    BY <2>1, <2>2
<1>5. \A r \in Recs : Owns(m, r) => r \in Elems(me[a].tracks) /\ r # h
  <2>1. CASE m = Idle
    BY <2>1, IdleOwnsNothing
  <2>2. CASE m.at = q /\ m.tracks = Tail(me[a].tracks)
    <3>1. \A r \in Recs : Owns(m, r) => r \in Elems(Tail(me[a].tracks))
      BY <1>2, <2>2 DEF Owns, OnOne, OnRec
    <3> QED
      BY <1>1, <3>1, DistinctTail, HeadTail
  <2> QED
    BY <1>4, <2>1, <2>2
<1>6. \A r \in Elems(me[a].tracks) : r = h \/ Owns(m, r)
  <2>1. CASE Elems(me[a].tracks) = {h}
    BY <2>1
  <2>2. CASE m.at = q /\ m.tracks = Tail(me[a].tracks)
    BY <1>1, <1>2, <2>2, HeadOrTail DEF Owns
  <2> QED
    BY <1>4, <2>1, <2>2
<1>7. ASSUME NEW r \in Recs, Owns(m, r) PROVE Fit(m, r, row'[r], Odd')
  <2>1. m.at = q /\ Owns(me[a], r) /\ row'[r] = row[r]
    BY <1>3, <1>4, <1>5, <1>7, IdleOwnsNothing
  <2>2. Fit(me[a], r, row[r], Odd)
    BY <2>1 DEF Ordered, Owners
  <2> QED
    BY <2>1, <2>2
    DEF Fit, Coming, Present, Undoable, Starting, Opening, Halting, Taken
<1>8. \A r \in Recs : Owns(m, r) =>
        /\ r < nextRec /\ r \notin Elems(meeting) /\ r \notin handed' /\ r # active
  BY <1>2, <1>3, <1>5 DEF Ordered, Owners
<1>9. Owners' /\ Shown'
  <2>1. me'[a] = m /\ \A b \in Actors \ {a} : me'[b] = me[b]
    BY <1>1, <1>4
  <2>2. \A r \in Elems(meeting') :
          /\ r \in Recs /\ (r \in Elems(meeting) \/ Owns(me[a], r))
          /\ r \notin handed' /\ row'[r] \notin Settled \cup {"absent"}
    BY <1>1, <1>3 DEF Ordered, Owners, Shown
  <2>3. /\ nextRec' \in Int /\ nextRec <= nextRec' /\ active' \in {active, None, nextRec}
        /\ handed \subseteq handed' /\ meeting' = meeting
    BY <1>1
  <2>4. \A r \in Recs : row'[r] = row[r] \/ Owns(me[a], r)
    BY <1>1, <1>3
  <2>5. \A r \in Recs : Owns(m, r) => Owns(me[a], r)
    BY <1>3, <1>5
  <2>6. \A r \in handed' :
           \/ r \in handed
           \/ /\ r \in Recs /\ Owns(me[a], r)
              /\ row'[r] \in {"Transcribing", "Queued"} \/ r \in Odd'
    BY <1>1, <1>3
  <2>7. \A r \in Recs \ Odd' :
           row'[r] \in Busy /\ (Owns(me[a], r) \/ r = active \/ r \in Elems(meeting)) =>
             r = active' \/ r \in Elems(meeting') \/ r \in handed' \/ Owns(m, r)
    BY <1>3, <1>6
  <2> QED
    BY <1>7, <1>8, <2>1, <2>2, <2>3, <2>4, <2>5, <2>6, <2>7, Passes
<1>10. Slot'
  <2> SUFFICES ASSUME active # None
               PROVE  /\ active < nextRec /\ active \notin Elems(meeting)
                      /\ active \notin handed' /\ row'[active] \notin Settled
                      /\ handle = None => \E b \in Actors : me'[b].at \in Starting
                      /\ handle # None => row'[active] # "absent"
    BY DEF Slot
  <2>1. active # h
    BY <1>1, <1>2, <1>3 DEF Ordered, Owners
  <2>2. row'[active] = row[active]
    BY <2>1 DEF IInv, Stores
  <2>3. (\E b \in Actors : me[b].at \in Starting) => \E b \in Actors : me'[b].at \in Starting
    BY <1>1, <1>2, <1>4
  <2> QED
    BY <2>1, <2>2, <2>3 DEF Ordered, Slot
<1>11. ASSUME NEW r \in Recs \ Odd' PROVE Handles(a, r)
  <2>1. me'[a] = m /\ InSlots(r)' = InSlots(r) /\ nextRec' = nextRec
    BY <1>1, <1>4 DEF InSlots
  <2>2. CASE ~Owns(me[a], r)
    <3>1. ~Owns(m, r) /\ (r \in handed <=> r \in handed')
      BY <1>1, <1>3, <1>5, <2>2
    <3> QED
      BY <2>1, <2>2, <3>1 DEF Handles, Still
  <2>3. CASE Owns(me[a], r) /\ Owns(m, r)
    <3>1. m.at = q
      BY <1>4, <2>3, IdleOwnsNothing
    <3>2. Stage(q) = Stage(me[a].at)
      BY DEF Stage, BringsUp, Minted, Opening, Discards, Halting
    <3> QED
      BY <2>1, <2>3, <3>1, <3>2 DEF Handles, Advances
  <2>4. CASE Owns(me[a], r) /\ ~Owns(m, r)
    <3>1. r = h
      BY <1>3, <1>6, <2>4
    <3>2. ~InSlots(r) /\ r \notin handed
      BY <1>2, <2>4 DEF Ordered, Owners, InSlots
    <3>3. Gives(Stage(me[a].at), r)
      BY <2>1, <3>1, <3>2
      DEF Gives, Stage, BringsUp, Minted, Opening, Discards, Halting
    <3> QED
      BY <2>1, <2>4, <3>3 DEF Handles
  <2> QED
    BY <2>2, <2>3, <2>4
<1>12. Handled
  <2>1. me'[a] = m /\ \A b \in Actors \ {a} : me'[b] = me[b]
    BY <1>1, <1>4
  <2> QED
    BY <1>11, <2>1, Hands
<1> QED
  BY <1>9, <1>10, <1>12 DEF Ordered, Orderly

\* A pause or resume writes the row of the slot's recording, of one of the
\* meeting's, or of one that is odd from then on.
LEMMA FlipRows ==
  ASSUME IInv, Home, Ordered, NEW x \in Recs, NEW s \in {"Paused", "Recording"},
         UpdateStatus(x, s), Untouched, wav' = wav,
         x = active \/ x \in Elems(meeting) \/ x \in Odd',
         \A b \in Actors : me'[b] = me[b] \/
           /\ me'[b].at \notin Starting /\ me[b].at \notin Starting
           /\ \A r \in Recs : ~Owns(me'[b], r) /\ ~Owns(me[b], r)
  PROVE  Orderly
<1>1. /\ \A r \in Recs : r # x => row'[r] = row[r]
      /\ row[x] = "absent" => row'[x] = "absent"
      /\ row[x] # "absent" => row'[x] = s
  BY DEF UpdateStatus, IInv, Stores
<1>2. /\ active' = active /\ handle' = handle /\ meeting' = meeting
      /\ handed' = handed /\ nextRec' = nextRec /\ Odd \subseteq Odd'
      /\ Elems(meeting) \subseteq Recs
  BY ElemsAreRecs DEF Untouched, IInv, Stores
<1>3. Owners'
  <2> SUFFICES ASSUME NEW r \in Recs, NEW a \in Actors, Owns(me'[a], r)
               PROVE  /\ \A b \in Actors : Owns(me'[b], r) => a = b
                      /\ r < nextRec' /\ r \notin Elems(meeting') /\ r \notin handed'
                      /\ r = active' => me'[a].at \in Starting
                      /\ Fit(me'[a], r, row'[r], Odd')
    BY DEF Owners
  <2>1. me'[a] = me[a] /\ Owns(me[a], r)
    OBVIOUS
  <2>2. /\ \A b \in Actors : Owns(me[b], r) => a = b
        /\ r < nextRec /\ r \notin Elems(meeting) /\ r \notin handed
        /\ r = active => me[a].at \in Starting
        /\ Fit(me[a], r, row[r], Odd)
    BY <2>1 DEF Ordered, Owners
  <2>3. \A b \in Actors : Owns(me'[b], r) => a = b
    BY <2>2
  <2>4. Fit(me[a], r, row[r], Odd')
    BY <1>2, <2>2, FitGrows
  <2>5. Fit(me[a], r, row'[r], Odd')
    <3>1. CASE r # x
      BY <1>1, <2>4, <3>1
    <3>2. CASE r = x
      <4>1. me[a].at \in Starting \/ r \in Odd'
        BY <2>2, <3>2
      <4>2. row'[r] \notin Settled \/ row'[r] = row[r]
        BY <1>1, <3>2 DEF Settled
      <4>3. row'[r] = "absent" <=> row[r] = "absent"
        BY <1>1, <3>2
      <4> QED
        BY <2>4, <4>1, <4>2, <4>3 DEF Fit, Starting
    <3> QED
      BY <3>1, <3>2
  <2> QED
    BY <1>2, <2>1, <2>2, <2>3, <2>5
<1>4. Slot'
  <2> SUFFICES ASSUME active # None
               PROVE  /\ active < nextRec /\ active \notin Elems(meeting)
                      /\ active \notin handed /\ row'[active] \notin Settled
                      /\ handle = None => \E b \in Actors : me'[b].at \in Starting
                      /\ handle # None => row'[active] # "absent"
    BY <1>2 DEF Slot
  <2>1. active \in Recs /\ row[active] \notin Settled
    BY DEF IInv, Stores, Ordered, Slot
  <2>2. row'[active] \notin Settled /\ (row'[active] = "absent" <=> row[active] = "absent")
    BY <1>1, <2>1 DEF Settled
  <2>3. (\E b \in Actors : me[b].at \in Starting) => \E b \in Actors : me'[b].at \in Starting
    OBVIOUS
  <2> QED
    BY <2>2, <2>3 DEF Ordered, Slot
<1>5. \A r \in Elems(meeting) : r \notin handed /\ row'[r] \notin Settled \cup {"absent"}
  BY <1>1, <1>2 DEF Ordered, Shown, Settled
<1>6. ASSUME NEW r \in handed
      PROVE  r < nextRec /\ (row'[r] \in {"Transcribing", "Queued"} \/ r \in Odd')
  <2>1. r \in Recs /\ r < nextRec /\ (row[r] \in {"Transcribing", "Queued"} \/ r \in Odd)
    BY DEF Ordered, Shown, IInv, Stores
  <2>2. r = x => r \in Odd'
    BY <2>1, ActorsAssumption DEF Ordered, Shown, Slot
  <2> QED
    BY <1>1, <1>2, <2>1, <2>2
<1>7. \A r \in Recs : nextRec <= r => row'[r] = "absent"
  BY <1>1 DEF Ordered, Shown
<1>8. ASSUME NEW r \in Recs \ Odd', row'[r] \in Busy
      PROVE  \/ r = active \/ r \in Elems(meeting) \/ r \in handed
             \/ \E a \in Actors : Owns(me'[a], r)
  <2>1. CASE r = x
    BY <1>8, <2>1
  <2>2. CASE r # x
    <3>1. row[r] \in Busy /\ r \in Recs \ Odd
      BY <1>1, <1>2, <1>8, <2>2
    <3>2. \/ r = active \/ r \in Elems(meeting) \/ r \in handed
          \/ \E a \in Actors : Owns(me[a], r)
      BY <3>1 DEF Ordered, Shown
    <3> QED
      BY <3>2
  <2> QED
    BY <2>1, <2>2
<1>9. Shown'
  BY <1>2, <1>5, <1>6, <1>7, <1>8 DEF Ordered, Shown
<1>10. ASSUME NEW r \in Recs PROVE \E a \in Actors : Handles(a, r) /\ \A b \in Actors : Still(b, r)
  <2>1. Watcher(r) \in Actors
    BY DEF Actors, Watchers
  <2>2. \A b \in Actors : Still(b, r)
    BY DEF Still
  <2> QED
    BY <1>2, <2>1, <2>2 DEF Handles, InSlots
<1>11. Handled
  BY <1>10 DEF Handled
<1> QED
  BY <1>3, <1>4, <1>9, <1>11 DEF Ordered, Orderly

LEMMA QuietGoes ==
  ASSUME IInv, Home, Ordered, NEW a \in Actors, NEW q, Goto(a, q), Untouched,
         row' = row, wav' = wav, me[a].at \in NoTracks \ OnRec, q \notin OnRec
  PROVE  Orderly
<1> DEFINE m == [me[a] EXCEPT !.at = q]
<1>1. me[a] \in Locals /\ me = [b \in Actors |-> me[b]] /\ me[a].tracks = <<>>
  BY DEF IInv, Shapes, Shape
<1>2. me' = [me EXCEPT ![a] = m]
  BY <1>1 DEF Goto
<1>3. m.at = q /\ m.tracks = <<>>
  BY <1>1 DEF Locals
<1> HIDE DEF m
<1> QED
  BY <1>1, <1>2, <1>3, QuietRows

LEMMA QuietReturns ==
  ASSUME IInv, Home, Ordered, NEW a \in Actors, me' = [me EXCEPT ![a] = Idle], Untouched,
         row' = row, wav' = wav, me[a].at \notin OnRec, me[a].tracks = <<>>
  PROVE  Orderly
BY QuietRows DEF Idle, OnRec, Minted, Opening

LEMMA QuietSteps ==
  ASSUME IInv, Home, Ordered, NEW a \in Actors,
         \/ StartCheckMeeting(a) \/ StartRefused(a) \/ MeetingStartCall(a)
         \/ MeetingStopCall(a) \/ ToggleCall(a) \/ ToggleDecide(a)
         \/ MeetingCheckActive(a) \/ MeetingCheckMeeting(a) \/ MeetingOpenSources(a)
  PROVE  Orderly
<1>1. me[a].at \in NoTracks => me[a].tracks = <<>>
  BY DEF IInv, Shapes, Shape
<1>2. ASSUME StartCheckMeeting(a) PROVE Orderly
  <2>1. Goto(a, "reserve")
    BY <1>2 DEF StartCheckMeeting
  <2>2. me[a].at = "idle" /\ row' = row /\ wav' = wav
    BY <1>2 DEF StartCheckMeeting, At, store, Calls
  <2>3. Untouched
    BY <1>2 DEF StartCheckMeeting, Untouched, Odd, slots, store, ghosts
  <2> QED
    BY <2>1, <2>2, <2>3, QuietGoes
    DEF NoTracks, WatcherPlaces, OnRec, Minted, Opening
<1>3. ASSUME StartRefused(a) PROVE Orderly
  <2>1. me' = [me EXCEPT ![a] = Idle]
    BY <1>3 DEF StartRefused, Return
  <2>2. me[a].at = "reserve" /\ row' = row /\ wav' = wav
    BY <1>3 DEF StartRefused, At, store
  <2>3. Untouched
    BY <1>3 DEF StartRefused, Untouched, Odd, slots, store, ghosts
  <2> QED
    BY <2>1, <2>2, <2>3, <1>1, QuietReturns
    DEF NoTracks, WatcherPlaces, OnRec, Minted, Opening
<1>4. ASSUME MeetingStartCall(a) PROVE Orderly
  <2>1. Goto(a, "meetStart")
    BY <1>4 DEF MeetingStartCall
  <2>2. me[a].at = "idle" /\ row' = row /\ wav' = wav
    BY <1>4 DEF MeetingStartCall, At, store, Calls
  <2>3. Untouched
    BY <1>4 DEF MeetingStartCall, Untouched, Odd, slots, store, ghosts
  <2> QED
    BY <2>1, <2>2, <2>3, QuietGoes
    DEF NoTracks, WatcherPlaces, OnRec, Minted, Opening
<1>5. ASSUME MeetingStopCall(a) PROVE Orderly
  <2>1. Goto(a, "meetStop")
    BY <1>5 DEF MeetingStopCall
  <2>2. me[a].at = "idle" /\ row' = row /\ wav' = wav
    BY <1>5 DEF MeetingStopCall, At, store, Calls
  <2>3. Untouched
    BY <1>5 DEF MeetingStopCall, Untouched, Odd, slots, store, ghosts
  <2> QED
    BY <2>1, <2>2, <2>3, QuietGoes
    DEF NoTracks, WatcherPlaces, OnRec, Minted, Opening
<1>6. ASSUME ToggleCall(a) PROVE Orderly
  <2>1. Goto(a, "toggle")
    BY <1>6 DEF ToggleCall
  <2>2. me[a].at = "idle" /\ row' = row /\ wav' = wav
    BY <1>6 DEF ToggleCall, At, store, Calls
  <2>3. Untouched
    BY <1>6 DEF ToggleCall, Untouched, Odd, slots, store, ghosts
  <2> QED
    BY <2>1, <2>2, <2>3, QuietGoes
    DEF NoTracks, WatcherPlaces, OnRec, Minted, Opening
<1>7. ASSUME ToggleDecide(a) PROVE Orderly
  <2>1. Goto(a, "meetStop") \/ Goto(a, "meetStart")
    BY <1>7 DEF ToggleDecide
  <2>2. me[a].at = "toggle" /\ row' = row /\ wav' = wav
    BY <1>7 DEF ToggleDecide, At, store
  <2>3. Untouched
    BY <1>7 DEF ToggleDecide, Untouched, Odd, slots, store, ghosts
  <2> QED
    BY <2>1, <2>2, <2>3, QuietGoes
    DEF NoTracks, WatcherPlaces, OnRec, Minted, Opening
<1>8. ASSUME MeetingCheckActive(a) PROVE Orderly
  <2>1. Goto(a, "meetCheck") \/ me' = [me EXCEPT ![a] = Idle]
    BY <1>8 DEF MeetingCheckActive, Return
  <2>2. me[a].at = "meetStart" /\ row' = row /\ wav' = wav
    BY <1>8 DEF MeetingCheckActive, At, store
  <2>3. Untouched
    BY <1>8 DEF MeetingCheckActive, Untouched, Odd, slots, store, ghosts
  <2> QED
    BY <2>1, <2>2, <2>3, QuietGoes, <1>1, QuietReturns
    DEF NoTracks, WatcherPlaces, OnRec, Minted, Opening
<1>9. ASSUME MeetingCheckMeeting(a) PROVE Orderly
  <2>1. Goto(a, "meetOpen") \/ me' = [me EXCEPT ![a] = Idle]
    BY <1>9 DEF MeetingCheckMeeting, Return
  <2>2. me[a].at = "meetCheck" /\ row' = row /\ wav' = wav
    BY <1>9 DEF MeetingCheckMeeting, At, store
  <2>3. Untouched
    BY <1>9 DEF MeetingCheckMeeting, Untouched, Odd, slots, store, ghosts
  <2> QED
    BY <2>1, <2>2, <2>3, QuietGoes, <1>1, QuietReturns
    DEF NoTracks, WatcherPlaces, OnRec, Minted, Opening
<1>10. ASSUME MeetingOpenSources(a) PROVE Orderly
  <2>1. Goto(a, "meetLock") \/ me' = [me EXCEPT ![a] = Idle]
    BY <1>10 DEF MeetingOpenSources, Return
  <2>2. me[a].at = "meetOpen" /\ row' = row /\ wav' = wav
    BY <1>10 DEF MeetingOpenSources, At, store
  <2>3. Untouched
    BY <1>10, OddGrows DEF MeetingOpenSources, Untouched, slots, store
  <2> QED
    BY <2>1, <2>2, <2>3, QuietGoes, <1>1, QuietReturns
    DEF NoTracks, WatcherPlaces, OnRec, Minted, Opening
<1> QED
  BY <1>2, <1>3, <1>4, <1>5, <1>6, <1>7, <1>8, <1>9, <1>10

LEMMA QuietTakes ==
  ASSUME IInv, JInv, Home, Ordered, NEW a \in Actors,
         \/ PauseMeeting(a) \/ ResumeMeeting(a) \/ AbortNothing(a) \/ DropCapture(a)
         \/ (MeetingStopTake(a) /\ meeting = <<>>)
         \/ (MeetingLock(a) /\ (meeting # <<>> \/ ~Room(Tracks)))
  PROVE  Orderly
<1>1. /\ me[a] \in Locals /\ me = [b \in Actors |-> me[b]]
      /\ me[a].at \in NoTracks => me[a].tracks = <<>>
  BY DEF IInv, Shapes, Shape
<1>2. ASSUME PauseMeeting(a) \/ ResumeMeeting(a) PROVE Orderly
  <2>1. PICK q \in Flipping : me' = [me EXCEPT ![a].at = q, ![a].tracks = meeting]
    BY <1>2 DEF PauseMeeting, ResumeMeeting, FlipMeeting, Flipping
  <2>2. Untouched /\ row' = row /\ wav' = wav
    BY <1>2 DEF PauseMeeting, ResumeMeeting, FlipMeeting, Untouched, Odd, store, ghosts
  <2> DEFINE m == [me[a] EXCEPT !.at = q, !.tracks = meeting]
  <2>3. me' = [me EXCEPT ![a] = m]
    BY <1>1, <2>1
  <2>4. m.at = q
    BY <1>1 DEF Locals
  <2> HIDE DEF m
  <2>5. me[a].at = "idle"
    BY <1>2 DEF PauseMeeting, ResumeMeeting, Calls, At
  <2>6. me[a].at \notin OnRec /\ me[a].tracks = <<>> /\ q \notin OnRec
    BY <1>1, <2>5 DEF NoTracks, WatcherPlaces, OnRec, Minted, Opening, Flipping
  <2> QED
    BY <2>2, <2>3, <2>4, <2>6, QuietRows
<1>3. ASSUME AbortNothing(a) PROVE Orderly
  <2>1. /\ me' = [me EXCEPT ![a] = Idle] /\ Untouched /\ row' = row /\ wav' = wav
        /\ me[a].at = "abort" /\ me[a].tracks = <<>>
    BY <1>3 DEF AbortNothing, At, Return, Untouched, Odd, slots, store, ghosts
  <2> QED
    BY <2>1, QuietReturns DEF OnRec, Minted, Opening
<1>4. ASSUME DropCapture(a) PROVE Orderly
  <2>1. me' = me /\ Untouched /\ row' = row /\ wav' = wav
    BY <1>4 DEF DropCapture, Untouched, Odd, slots, store, ghosts
  <2> QED
    BY <2>1, RestRows
<1>5. ASSUME MeetingStopTake(a), meeting = <<>> PROVE Orderly
  <2>1. /\ me' = [me EXCEPT ![a] = Idle] /\ Untouched /\ row' = row /\ wav' = wav
        /\ me[a].at = "meetStop"
    BY <1>5 DEF MeetingStopTake, At, Return, Untouched, Odd, store, ghosts
  <2>2. me[a].tracks = <<>>
    BY <2>1 DEF JInv, Tidy, Neat, Tracking, Halting, Opening, Flipping
  <2> QED
    BY <2>1, <2>2, QuietReturns DEF OnRec, Minted, Opening
<1>6. ASSUME MeetingLock(a), meeting # <<>> \/ ~Room(Tracks) PROVE Orderly
  <2>1. /\ me' = [me EXCEPT ![a] = Idle] /\ Untouched /\ row' = row /\ wav' = wav
        /\ me[a].at = "meetLock"
    BY <1>6 DEF MeetingLock, At, Return, Untouched, Odd, slots, store, ghosts
  <2> QED
    BY <1>1, <2>1, QuietReturns DEF NoTracks, OnRec, Minted, Opening
<1> QED
  BY <1>2, <1>3, <1>4, <1>5, <1>6

\* A handler at work on one recording moves on, and changes no row but its own.
LEMMA OneGoes ==
  ASSUME IInv, JInv, Home, Ordered, NEW a \in Actors, NEW q, NEW rec, Goto(a, q), Untouched,
         rec = me[a].rec, me[a].at \in OnOne, q \in OnOne \ {"insert"},
         Advances(Stage(me[a].at), Stage(q)),
         me[a].at \in Starting => q \in Starting,
         \A r \in Recs : r # rec => row'[r] = row[r],
         \A r \in Recs : wav'[r] = wav[r] \/ wav'[r] = r,
         q \in Present => row'[rec] # "absent",
         q \in Undoable => row'[rec] \notin Settled,
         q \in Taken => me[a].take = rec,
         q = "handoff" => row'[rec] = "Transcribing" \/ rec \in Odd',
         q = "enqueue" => row'[rec] = "Queued" \/ rec \in Odd'
  PROVE  Orderly
<1>1. rec \in Recs /\ \A r \in Recs : Owns(me[a], r) <=> r = rec
  BY OwnsOne
<1>2. SameKind(me[a].at, q)
  BY DEF SameKind, Flipping, OnOne, OnRec, Minted, Opening
<1>3. ASSUME NEW m, m.at = q, m.rec = me[a].rec, m.take = me[a].take, m.tracks = me[a].tracks,
             NEW r \in Recs, Owns(me[a], r)
      PROVE  Fit(m, r, row'[r], Odd')
  <2>1. r = rec /\ ~Coming(m, r) /\ q \notin {"trackQueue", "trackFail"}
    BY <1>1, <1>3 DEF Coming, OnOne, OnRec, Minted, Opening
  <2> QED
    BY <1>3, <2>1 DEF Fit
<1> QED
  BY <1>1, <1>2, <1>3, GoRows

LEMMA OneReturns ==
  ASSUME IInv, JInv, Home, Ordered, NEW a \in Actors, NEW rec, Return(a), Untouched,
         rec = me[a].rec, me[a].at \in OnOne \ Starting, wav' = wav,
         \A r \in Recs : r # rec => row'[r] = row[r],
         rec \in Odd' \/ (row'[rec] \notin Busy /\ me[a].at \in Discards)
  PROVE  Orderly
<1>1. rec \in Recs /\ \A r \in Recs : Owns(me[a], r) <=> r = rec
  BY OwnsOne
<1>2. me' = [me EXCEPT ![a] = Idle]
  BY DEF Return
<1> QED
  BY <1>1, <1>2, ReturnRows

\* What the row of a handler at work on one recording can be.
LEMMA OneFits ==
  ASSUME IInv, JInv, Ordered, NEW a \in Actors, me[a].at \in OnOne
  PROVE  Fit(me[a], me[a].rec, row[me[a].rec], Odd)
BY OwnsOne DEF Ordered, Owners

LEMMA UpdateIs ==
  ASSUME IInv, NEW x \in Recs, NEW s, UpdateStatus(x, s)
  PROVE  /\ \A r \in Recs : r # x => row'[r] = row[r]
         /\ row[x] = "absent" => row' = row
         /\ row[x] # "absent" => row'[x] = s
BY DEF UpdateStatus, IInv, Stores

LEMMA StartRows ==
  ASSUME IInv, JInv, Home, Ordered, NEW a \in Actors,
         StartInsertRow(a) \/ StartOpenSource(a) \/ StartDropRow(a)
  PROVE  Orderly
<1> DEFINE rec == me[a].rec
<1>1. /\ me[a].at \in {"insert", "open", "unrow"} /\ rec \in Recs
      /\ row = [r \in Recs |-> row[r]]
  BY LocalsAre DEF StartInsertRow, StartOpenSource, StartDropRow, At, OnRec, Minted,
                   IInv, Stores
<1>2. me[a].at \in OnOne /\ Fit(me[a], rec, row[rec], Odd)
  BY <1>1, OneFits DEF OnOne, OnRec, Minted, Opening
<1>3. wav' = wav /\ late' = late
  BY DEF StartInsertRow, StartOpenSource, StartDropRow, store
<1>4. ASSUME StartInsertRow(a) PROVE Orderly
  <2>1. Untouched /\ Odd \subseteq Odd' /\ me[a].at = "insert"
    BY <1>3, <1>4, OddGrows DEF StartInsertRow, Untouched, slots, At
  <2>2. row[rec] = "absent"
    BY <1>2, <2>1 DEF Fit, Coming
  <2>3. CASE row' = [row EXCEPT ![rec] = "Recording"] /\ Goto(a, "open")
    <3>1. row'[rec] = "Recording" /\ \A r \in Recs : r # rec => row'[r] = row[r]
      BY <1>1, <2>3
    <3> QED
      BY <1>2, <1>3, <2>1, <2>3, <3>1, OneGoes
      DEF Advances, Stage, BringsUp, Discards, Life!Paths,
          OnOne, OnRec, Minted, Opening, Starting, Present, Undoable, Settled, Taken, Halting
  <2>4. CASE row' = row /\ Goto(a, "clear")
    BY <1>2, <1>3, <2>1, <2>2, <2>4, OneGoes
    DEF Advances, Stage, BringsUp, Discards, Life!Paths,
        OnOne, OnRec, Minted, Opening, Starting, Present, Undoable, Settled, Taken, Halting
  <2> QED
    BY <1>4, <2>3, <2>4 DEF StartInsertRow
<1>5. ASSUME StartOpenSource(a) PROVE Orderly
  <2>1. Untouched /\ Odd \subseteq Odd' /\ me[a].at = "open" /\ row' = row
    BY <1>3, <1>5, OddGrows DEF StartOpenSource, Untouched, slots, store, At
  <2>2. row[rec] # "absent" /\ row[rec] \notin Settled
    BY <1>2, <2>1 DEF Fit, Coming, Present, Undoable, Starting, Opening
  <2>3. Goto(a, "store") \/ Goto(a, "clear")
    BY <1>5 DEF StartOpenSource
  <2> QED
    BY <1>2, <1>3, <2>1, <2>2, <2>3, OneGoes
    DEF Advances, Stage, BringsUp, Discards, Life!Paths,
        OnOne, OnRec, Minted, Opening, Starting, Present, Undoable, Taken, Halting
<1>6. ASSUME StartDropRow(a) PROVE Orderly
  <2>1. Untouched /\ me[a].at = "unrow" /\ Return(a)
    BY <1>3, <1>6, OddGrows DEF StartDropRow, Untouched, slots, At
  <2>2. /\ \A r \in Recs : r # rec => row'[r] = row[r]
        /\ rec \in Odd' \/ (row'[rec] \notin Busy /\ me[a].at \in Discards)
    BY <1>1, <1>3, <1>6, OddGrows DEF StartDropRow, At, Busy, Discards
  <2> QED
    BY <1>2, <1>3, <2>1, <2>2, OneReturns DEF Starting
<1> QED
  BY <1>4, <1>5, <1>6

LEMMA StopRows ==
  ASSUME IInv, JInv, Home, Ordered, NEW a \in Actors,
         StopSend(a) \/ StopWriteWav(a) \/ StopMark(a) \/ StopMarkQueued(a)
  PROVE  Orderly
<1> DEFINE rec == me[a].rec
<1>1. me[a].at \in {"teardown", "join", "mark", "handoff"} /\ rec \in Recs
  BY LocalsAre DEF StopSend, StopWriteWav, StopMark, StopMarkQueued, At, OnRec
<1>2. me[a].at \in OnOne \ Starting /\ Fit(me[a], rec, row[rec], Odd)
  BY <1>1, OneFits DEF OnOne, OnRec, Minted, Opening, Starting
<1>3. late' = late /\ ~Coming(me[a], rec)
  BY <1>1 DEF StopSend, StopWriteWav, StopMark, StopMarkQueued, ghosts, Coming, Opening
<1>4. ASSUME StopSend(a) PROVE Orderly
  <2>1. Untouched /\ me[a].at = "teardown" /\ row' = row /\ wav' = wav /\ Goto(a, "join")
    BY <1>4 DEF StopSend, Untouched, Odd, slots, store, ghosts, At
  <2>2. row[rec] # "absent" /\ me[a].take = rec
    BY <1>2, <1>3, <2>1 DEF Fit, Present, Taken
  <2> QED
    BY <1>2, <2>1, <2>2, OneGoes
    DEF Advances, Stage, BringsUp, Discards, Life!Paths,
        OnOne, OnRec, Minted, Opening, Starting, Undoable, Taken
<1>5. ASSUME StopWriteWav(a) PROVE Orderly
  <2>1. Untouched /\ me[a].at = "join" /\ row' = row
    BY <1>3, <1>5, OddGrows DEF StopWriteWav, Untouched, slots, At
  <2>2. row[rec] # "absent" /\ me[a].take = rec
    BY <1>2, <1>3, <2>1 DEF Fit, Present, Taken
  <2>3. CASE wav' = [wav EXCEPT ![rec] = me[a].take] /\ Goto(a, "mark")
    <3>1. \A r \in Recs : wav'[r] = wav[r] \/ wav'[r] = r
      BY <2>2, <2>3 DEF IInv, Stores
    <3> QED
      BY <1>2, <2>1, <2>2, <2>3, <3>1, OneGoes
      DEF Advances, Stage, BringsUp, Discards, Life!Paths,
          OnOne, OnRec, Minted, Opening, Starting, Undoable, Taken
  <2>4. CASE Fails(rec) /\ Return(a) /\ wav' = wav
    <3>1. rec \in Odd'
      BY <1>3, <2>4, OddGrows
    <3> QED
      BY <1>2, <2>1, <2>4, <3>1, OneReturns
  <2> QED
    BY <1>5, <2>3, <2>4 DEF StopWriteWav
<1>6. ASSUME StopMark(a) PROVE Orderly
  <2>1. Untouched /\ me[a].at = "mark" /\ wav' = wav
    BY <1>3, <1>6, OddGrows DEF StopMark, Untouched, slots, At
  <2>2. row[rec] # "absent"
    BY <1>2, <1>3, <2>1 DEF Fit, Present
  <2>3. CASE UpdateStatus(rec, "Transcribing") /\ Goto(a, "handoff")
    <3>1. row'[rec] = "Transcribing" /\ \A r \in Recs : r # rec => row'[r] = row[r]
      BY <1>1, <2>2, <2>3, UpdateIs
    <3> QED
      BY <1>2, <2>1, <2>3, <3>1, OneGoes
      DEF Advances, Stage, BringsUp, Discards, Life!Paths,
          OnOne, OnRec, Minted, Opening, Starting, Undoable, Taken
  <2>4. CASE Fails(rec) /\ Return(a) /\ row' = row
    <3>1. rec \in Odd'
      BY <1>3, <2>4, OddGrows
    <3> QED
      BY <1>2, <2>1, <2>4, <3>1, OneReturns
  <2> QED
    BY <1>6, <2>3, <2>4 DEF StopMark
<1>7. ASSUME StopMarkQueued(a) PROVE Orderly
  <2>1. Untouched /\ me[a].at = "handoff" /\ wav' = wav
    BY <1>3, <1>7, OddGrows DEF StopMarkQueued, Untouched, slots, At
  <2>2. row[rec] = "Transcribing" \/ rec \in Odd'
    BY <1>2, <2>1 DEF Fit, Untouched
  <2>3. CASE UpdateStatus(rec, "Queued") /\ Goto(a, "enqueue")
    <3>1. /\ row'[rec] = "Queued" \/ rec \in Odd'
          /\ \A r \in Recs : r # rec => row'[r] = row[r]
      BY <1>1, <2>2, <2>3, UpdateIs
    <3> QED
      BY <1>2, <2>1, <2>3, <3>1, OneGoes
      DEF Advances, Stage, BringsUp, Discards, Life!Paths,
          OnOne, OnRec, Minted, Opening, Starting, Present, Halting, Undoable, Taken
  <2>4. CASE Fails(rec) /\ Return(a) /\ row' = row
    <3>1. rec \in Odd'
      BY <1>3, <2>4, OddGrows
    <3> QED
      BY <1>2, <2>1, <2>4, <3>1, OneReturns
  <2> QED
    BY <1>7, <2>3, <2>4 DEF StopMarkQueued
<1> QED
  BY <1>4, <1>5, <1>6, <1>7

LEMMA CancelRows ==
  ASSUME IInv, JInv, Home, Ordered, NEW a \in Actors, CancelSend(a) \/ CancelDeleteRow(a)
  PROVE  Orderly
<1> DEFINE rec == me[a].rec
<1>1. me[a].at \in {"cancel", "delete"} /\ rec \in Recs /\ row = [r \in Recs |-> row[r]]
  BY LocalsAre DEF CancelSend, CancelDeleteRow, At, OnRec, IInv, Stores
<1>2. me[a].at \in OnOne \ Starting /\ Fit(me[a], rec, row[rec], Odd)
  BY <1>1, OneFits DEF OnOne, OnRec, Minted, Opening, Starting
<1>3. late' = late /\ wav' = wav
  BY DEF CancelSend, CancelDeleteRow, ghosts, store
<1>4. ASSUME CancelSend(a) PROVE Orderly
  <2>1. Untouched /\ me[a].at = "cancel" /\ row' = row /\ Goto(a, "delete")
    BY <1>4 DEF CancelSend, Untouched, Odd, slots, store, ghosts, At
  <2>2. row[rec] \notin Settled
    BY <1>2, <2>1 DEF Fit, Undoable
  <2> QED
    BY <1>2, <1>3, <2>1, <2>2, OneGoes
    DEF Advances, Stage, BringsUp, Discards, Life!Paths,
        OnOne, OnRec, Minted, Opening, Starting, Present, Halting, Taken
<1>5. ASSUME CancelDeleteRow(a) PROVE Orderly
  <2>1. Untouched /\ Return(a)
    BY <1>3, <1>5, OddGrows DEF CancelDeleteRow, Untouched, slots
  <2>2. /\ \A r \in Recs : r # rec => row'[r] = row[r]
        /\ rec \in Odd' \/ (row'[rec] \notin Busy /\ me[a].at \in Discards)
    BY <1>1, <1>3, <1>5, OddGrows DEF CancelDeleteRow, At, Busy, Discards
  <2> QED
    BY <1>2, <1>3, <2>1, <2>2, OneReturns
<1> QED
  BY <1>4, <1>5

LEMMA SlotStays ==
  ASSUME IInv, Ordered, active' = active, handle' = handle,
         nextRec' \in Int, nextRec <= nextRec',
         active # None =>
           active \notin Elems(meeting') \cup handed' /\ row'[active] = row[active],
         (\E a \in Actors : me[a].at \in Starting) => \E a \in Actors : me'[a].at \in Starting
  PROVE  Slot'
<1>1. nextRec \in Int /\ (active # None => active \in Int)
  BY BoundAssumption DEF IInv, Stores, Recs
<1> QED
  BY <1>1 DEF Ordered, Slot

LEMMA OddUpdate ==
  ASSUME Works \/ Refused \/ (\E r : Fails(r)), late' = late
  PROVE  Odd \subseteq Odd'
BY DEF Works, Refused, Fails, Odd

\* A handler hands its recording over and returns.
LEMMA HandRows ==
  ASSUME IInv, JInv, Home, Ordered, NEW a \in Actors, NEW rec, Return(a),
         rec = me[a].rec, me[a].at \in {"handoff", "enqueue"},
         active' = active, handle' = handle, meeting' = meeting, nextRec' = nextRec,
         handed' = handed \cup {rec}, row' = row, wav' = wav, Odd \subseteq Odd',
         row[rec] \in {"Transcribing", "Queued"} \/ rec \in Odd'
  PROVE  Orderly
<1>0. me[a].at \in OnOne \ Starting
  BY DEF OnOne, OnRec, Minted, Opening, Starting
<1>1. rec \in Recs /\ \A r \in Recs : Owns(me[a], r) <=> r = rec
  BY <1>0, OwnsOne
<1>2. /\ me'[a] = Idle /\ \A b \in Actors \ {a} : me'[b] = me[b]
      /\ Elems(meeting) \subseteq Recs /\ nextRec \in Int
  BY ElemsAreRecs, BoundAssumption DEF Return, IInv, Shapes, Stores
<1>3. /\ rec \notin Elems(meeting) /\ rec # active
      /\ \A r : ~Owns(Idle, r)
  BY <1>0, <1>1, IdleOwnsNothing DEF Ordered, Owners
<1>4. Owners' /\ Shown'
  <2>1. \A r \in Elems(meeting') :
          /\ r \in Recs /\ (r \in Elems(meeting) \/ Owns(me[a], r))
          /\ r \notin handed' /\ row'[r] \notin Settled \cup {"absent"}
    BY <1>2, <1>3 DEF Ordered, Shown
  <2>2. \A r \in handed' :
          \/ r \in handed
          \/ /\ r \in Recs /\ Owns(me[a], r)
             /\ row'[r] \in {"Transcribing", "Queued"} \/ r \in Odd'
    BY <1>1
  <2>3. \A r \in Recs \ Odd' :
          row'[r] \in Busy /\ (Owns(me[a], r) \/ r = active \/ r \in Elems(meeting)) =>
            r = active' \/ r \in Elems(meeting') \/ r \in handed' \/ Owns(Idle, r)
    BY <1>1
  <2>4. /\ nextRec' \in Int /\ nextRec <= nextRec' /\ active' \in {active, None, nextRec}
        /\ handed \subseteq handed'
    BY <1>2
  <2> QED
    BY <1>2, <1>3, <2>1, <2>2, <2>3, <2>4, Passes
<1>5. Slot'
  <2>1. active # None => active \notin Elems(meeting') \cup handed' /\ row'[active] = row[active]
    BY <1>3 DEF Ordered, Slot
  <2>2. \A b \in Actors : me[b].at \in Starting => me'[b].at \in Starting
    BY <1>0, <1>2
  <2> QED
    BY <1>2, <2>1, <2>2, SlotStays
<1>6. ASSUME NEW r \in Recs PROVE Handles(a, r)
  <2>1. Stage(me[a].at) = "finishing"
    BY DEF Stage, BringsUp, Minted, Opening, Discards
  <2>2. r # rec => (r \in handed <=> r \in handed') /\ ~Owns(me[a], r)
    BY <1>1
  <2>3. r = rec => r \in handed' /\ Owns(me[a], r)
    BY <1>1
  <2> QED
    BY <1>2, <1>3, <2>1, <2>2, <2>3 DEF Handles, Still, Gives, InSlots
<1>7. Handled
  BY <1>2, <1>6, Hands
<1> QED
  BY <1>4, <1>5, <1>7 DEF Ordered, Orderly

LEMMA HandOver ==
  ASSUME IInv, JInv, Home, Ordered, NEW a \in Actors, StopFastLane(a) \/ StopEnqueue(a)
  PROVE  Orderly
<1> DEFINE rec == me[a].rec
<1>1. me[a].at \in {"handoff", "enqueue"} /\ rec \in Recs
  BY LocalsAre DEF StopFastLane, StopEnqueue, At, OnRec
<1>2. me[a].at \in OnOne \ Starting /\ Fit(me[a], rec, row[rec], Odd)
  BY <1>1, OneFits DEF OnOne, OnRec, Minted, Opening, Starting
<1>3. /\ active' = active /\ handle' = handle /\ meeting' = meeting /\ nextRec' = nextRec
      /\ row' = row /\ wav' = wav /\ late' = late /\ Return(a)
  BY DEF StopFastLane, StopEnqueue, slots, ghosts
<1>4. Odd \subseteq Odd'
  BY <1>3, OddUpdate DEF StopFastLane, StopEnqueue, ghosts, Odd
<1>5. row[rec] \in {"Transcribing", "Queued"} \/ rec \in Odd'
  BY <1>1, <1>2, <1>4 DEF Fit
<1>6. CASE handed' = handed \cup {rec}
  BY <1>1, <1>3, <1>4, <1>5, <1>6, HandRows
<1>7. CASE StopEnqueue(a) /\ Fails(rec) /\ handed' = handed
  <2>1. rec \in Odd' /\ Untouched
    BY <1>3, <1>4, <1>7, OddGrows DEF Untouched
  <2> QED
    BY <1>2, <1>3, <2>1, OneReturns
<1> QED
  BY <1>6, <1>7 DEF StopFastLane, StopEnqueue

-----------------------------------------------------------------------------
\* A handler at work on the tracks of a meeting it took, one after the other.
LEMMA OwnsTracks ==
  ASSUME IInv, NEW a \in Actors, me[a].at \notin Flipping \cup OnRec
  PROVE  \A r \in Recs : Owns(me[a], r) <=> r \in Elems(me[a].tracks)
BY DEF Owns, OnOne, OnRec

LEMMA TrackFits ==
  ASSUME IInv, Ordered, NEW a \in Actors, NEW h, me[a].at \notin Flipping \cup OnRec,
         me[a].tracks # <<>>, h = Head(me[a].tracks)
  PROVE  /\ h \in Recs /\ h \in Elems(me[a].tracks)
         /\ h \notin handed /\ h \notin Elems(meeting) /\ Fit(me[a], h, row[h], Odd)
<1>1. h \in Recs /\ h \in Elems(me[a].tracks)
  BY HeadTail, LocalsAre
<1> QED
  BY <1>1, OwnsTracks DEF Ordered, Owners

LEMMA ListGoes ==
  ASSUME IInv, Home, Ordered, NEW a \in Actors, NEW q, NEW h, Goto(a, q), Untouched,
         me[a].tracks # <<>>, h = Head(me[a].tracks),
         me[a].at \in Halting \cup {"haltAll"}, q \in Halting,
         \A r \in Recs : r # h => row'[r] = row[r], row[h] # "absent" => row'[h] # "absent",
         \A r \in Recs : wav'[r] = wav[r] \/ wav'[r] = r,
         q = "trackQueue" => row'[h] = "Queued" \/ h \in Odd',
         q = "trackFail" => h \in Odd'
  PROVE  Orderly
<1>1. /\ me[a].at \notin Flipping \cup OnRec /\ q \notin Flipping \cup OnRec
      /\ SameKind(me[a].at, q) /\ me[a].at \notin Starting
  BY DEF Flipping, OnRec, Minted, Opening, Halting, SameKind, OnOne, Starting
<1>2. h \in Recs /\ h \in Elems(me[a].tracks)
  BY <1>1, TrackFits
<1>3. \A r \in Recs : Owns(me[a], r) <=> r \in Elems(me[a].tracks)
  BY <1>1, OwnsTracks
<1>4. ASSUME NEW m, m.at = q, m.rec = me[a].rec, m.take = me[a].take, m.tracks = me[a].tracks,
             NEW r \in Recs, Owns(me[a], r)
      PROVE  Fit(m, r, row'[r], Odd')
  <2>1. Fit(me[a], r, row[r], Odd)
    BY <1>4 DEF Ordered, Owners
  <2>2. ~Coming(me[a], r) /\ ~Coming(m, r) /\ me[a].at \in Present
    BY <1>1, <1>4 DEF Coming, OnRec, Minted, Halting, Present
  <2>3. row[r] # "absent"
    BY <2>1, <2>2 DEF Fit
  <2>4. row'[r] # "absent"
    BY <2>3
  <2>5. q \notin Undoable \cup Taken \cup {"handoff", "enqueue"}
    BY DEF Halting, Undoable, Taken, Starting, Opening
  <2> QED
    BY <1>4, <2>2, <2>4, <2>5 DEF Fit
<1>5. \A r \in Recs : row'[r] = row[r] \/ Owns(me[a], r)
  BY <1>2, <1>3
<1>6. Advances(Stage(me[a].at), Stage(q))
  BY DEF Advances, Stage, BringsUp, Minted, Opening, Discards, Halting
<1> QED
  BY <1>1, <1>4, <1>5, <1>6, GoRows

LEMMA MeetingGoRows ==
  ASSUME IInv, Home, Ordered, NEW a \in Actors,
         \/ MeetingHaltAll(a) \/ MeetingAlign(a) \/ MeetingWriteTrack(a)
         \/ (MeetingEnqueueTrack(a) /\ Goto(a, "trackFail") /\ handed' = handed)
  PROVE  Orderly
<1> DEFINE h == Head(me[a].tracks)
<1>1. me[a].at \in {"haltAll", "align", "trackWav", "trackQueue"}
  BY DEF MeetingHaltAll, MeetingAlign, MeetingWriteTrack, MeetingEnqueueTrack, At
<1>2. /\ me[a].at \notin Flipping \cup OnRec /\ me[a].at \in Halting \cup {"haltAll"}
      /\ me[a].tracks # <<>>
  BY <1>1, LocalsAre DEF Flipping, OnRec, Minted, Opening, Halting, OnTracks
<1>3. h \in Recs /\ Fit(me[a], h, row[h], Odd)
  BY <1>2, TrackFits
<1>4. late' = late
  BY DEF MeetingHaltAll, MeetingAlign, MeetingWriteTrack, MeetingEnqueueTrack, ghosts
<1>5. ASSUME MeetingHaltAll(a) \/ MeetingAlign(a) PROVE Orderly
  <2>1. Untouched /\ row' = row /\ wav' = wav
    BY <1>5 DEF MeetingHaltAll, MeetingAlign, Untouched, Odd, slots, store, ghosts
  <2>2. Goto(a, "align") \/ Goto(a, "trackWav")
    BY <1>5 DEF MeetingHaltAll, MeetingAlign
  <2> QED
    BY <1>2, <2>1, <2>2, ListGoes DEF Halting
<1>6. ASSUME MeetingWriteTrack(a) PROVE Orderly
  <2>1. Untouched /\ me[a].at = "trackWav"
    BY <1>4, <1>6, OddGrows DEF MeetingWriteTrack, Untouched, slots, At
  <2>2. row[h] # "absent"
    BY <1>3, <2>1 DEF Fit, Present, Halting, Coming, Opening
  <2>3. \A r \in Recs : wav'[r] = wav[r] \/ wav'[r] = r
    BY <1>6 DEF MeetingWriteTrack, IInv, Stores
  <2>4. CASE UpdateStatus(h, "Queued") /\ Goto(a, "trackQueue")
    <3>1. row'[h] = "Queued" /\ \A r \in Recs : r # h => row'[r] = row[r]
      BY <1>3, <2>2, <2>4, UpdateIs
    <3> QED
      BY <1>2, <2>1, <2>3, <2>4, <3>1, ListGoes DEF Halting
  <2>5. CASE Fails(h) /\ Goto(a, "trackFail") /\ row' = row
    <3>1. h \in Odd'
      BY <1>4, <2>5, OddGrows
    <3> QED
      BY <1>2, <2>1, <2>3, <2>5, <3>1, ListGoes DEF Halting
  <2> QED
    BY <1>6, <2>4, <2>5 DEF MeetingWriteTrack
<1>7. ASSUME MeetingEnqueueTrack(a), Goto(a, "trackFail"), handed' = handed PROVE Orderly
  <2>1. Untouched /\ me[a].at = "trackQueue" /\ row' = row /\ wav' = wav
    BY <1>4, <1>7, OddGrows DEF MeetingEnqueueTrack, Untouched, slots, At
  <2>2. CASE Fails(h)
    <3>1. h \in Odd'
      BY <1>4, <2>2, OddGrows
    <3> QED
      BY <1>2, <1>7, <2>1, <3>1, ListGoes DEF Halting
  <2>3. CASE ~Fails(h)
    <3>1. handed' = handed \cup {h}
      BY <1>7, <2>3 DEF MeetingEnqueueTrack
    <3> QED
      BY <1>2, <1>7, <3>1, TrackFits
  <2> QED
    BY <2>2, <2>3
<1> QED
  BY <1>5, <1>6, <1>7

LEMMA MeetingNextRows ==
  ASSUME IInv, OnDisk, Home, Ordered, NEW a \in Actors,
         \/ DropRow(a) \/ MeetingFailTrack(a)
         \/ (MeetingEnqueueTrack(a) /\ NextTrack(a, "trackWav"))
  PROVE  Orderly
<1> DEFINE h == Head(me[a].tracks)
<1>1. me[a].at \in {"drop", "abort", "trackQueue", "trackFail"} /\ me[a].tracks # <<>>
  BY LocalsAre DEF DropRow, Drops, MeetingFailTrack, MeetingEnqueueTrack, At, OnTracks
<1>2. me[a].at \notin Flipping \cup OnRec
  BY <1>1 DEF Flipping, OnRec, Minted, Opening
<1>3. h \in Recs /\ h \notin handed /\ Fit(me[a], h, row[h], Odd)
  BY <1>1, <1>2, TrackFits
<1>4. /\ active' = active /\ handle' = handle /\ meeting' = meeting /\ nextRec' = nextRec
      /\ wav' = wav /\ late' = late
  BY DEF DropRow, MeetingFailTrack, MeetingEnqueueTrack, slots
<1>5. Odd \subseteq Odd'
  BY <1>4, OddUpdate DEF DropRow, MeetingFailTrack, MeetingEnqueueTrack
<1>6. ASSUME DropRow(a) PROVE Orderly
  <2>1. /\ \A r \in Recs : r # h => row'[r] = row[r]
        /\ row'[h] = "absent" \/ h \in Odd'
    BY <1>3, <1>4, <1>6, OddGrows DEF DropRow, IInv, Stores
  <2>2. NextTrack(a, me[a].at) /\ handed' = handed /\ me[a].at \in {"drop", "abort"}
    BY <1>6 DEF DropRow, Drops
  <2> QED
    BY <1>1, <1>3, <1>4, <1>5, <2>1, <2>2, NextTrackRows DEF Busy
<1>7. ASSUME MeetingFailTrack(a) PROVE Orderly
  <2>1. h \in Odd'
    BY <1>3, <1>5, <1>7 DEF Fit, MeetingFailTrack, At
  <2>2. \A r \in Recs : r # h => row'[r] = row[r]
    BY <1>3, <1>7, UpdateIs DEF MeetingFailTrack
  <2>3. NextTrack(a, "trackWav") /\ handed' = handed /\ me[a].at \in Halting
    BY <1>1, <1>7 DEF MeetingFailTrack, At, Halting
  <2> QED
    BY <1>1, <1>3, <1>4, <1>5, <2>1, <2>2, <2>3, NextTrackRows
<1>8. ASSUME MeetingEnqueueTrack(a), NextTrack(a, "trackWav") PROVE Orderly
  <2>1. row' = row /\ me[a].at = "trackQueue" /\ me[a].at \in Halting
    BY <1>8 DEF MeetingEnqueueTrack, At, Halting
  <2>2. row[h] = "Queued" \/ h \in Odd'
    BY <1>3, <1>5, <2>1 DEF Fit
  <2>3. handed' = handed \cup {h} \/ (handed' = handed /\ h \in Odd')
    BY <1>4, <1>8, OddGrows DEF MeetingEnqueueTrack
  <2> QED
    BY <1>1, <1>3, <1>4, <1>5, <1>8, <2>1, <2>2, <2>3, NextTrackRows
<1> QED
  BY <1>6, <1>7, <1>8

-----------------------------------------------------------------------------
\* The slot fills and empties.
LEMMA NoneStarts ==
  ASSUME IInv, Home, Ordered, ~MidStart, active # None
  PROVE  handle = active
<1>1. ASSUME NEW a \in Actors, me[a].at \in Starting PROVE FALSE
  <2>1. me[a].rec = active
    BY <1>1 DEF Home
  <2>2. a \in Clients
    BY <1>1 DEF IInv, Shapes, Shape, Starting, WatcherPlaces, Actors
  <2> QED
    BY <1>1, <2>1, <2>2 DEF MidStart, Starting
<1> QED
  BY <1>1 DEF Ordered, Slot, Home

LEMMA ReserveRows ==
  ASSUME IInv, Home, Ordered, NEW a \in Actors, StartReserve(a)
  PROVE  Orderly
<1> DEFINE m == [me[a] EXCEPT !.at = "insert", !.rec = nextRec]
<1>1. /\ me[a] \in Locals /\ me = [b \in Actors |-> me[b]] /\ me[a].tracks = <<>>
      /\ me[a].at = "reserve" /\ nextRec \in Int /\ Elems(meeting) \subseteq Recs
      /\ handed \subseteq Recs /\ \A r \in Recs : r \in Int
  BY ElemsAreRecs, BoundAssumption
  DEF IInv, Shapes, Shape, NoTracks, StartReserve, At, Stores, Recs
<1>2. /\ me' = [me EXCEPT ![a] = m] /\ nextRec' = nextRec + 1 /\ active = None
      /\ active' = nextRec /\ handle' = handle /\ meeting' = meeting
      /\ handed' = handed /\ row' = row /\ wav' = wav /\ Odd' = Odd
  BY <1>1 DEF StartReserve, store, ghosts, Odd
<1>3. m.at = "insert" /\ m.rec = nextRec /\ m.tracks = <<>>
  BY <1>1 DEF Locals
<1> HIDE DEF m
<1>4. me'[a] = m /\ \A b \in Actors \ {a} : me'[b] = me[b]
  BY <1>1, <1>2
<1>5. \A r \in Recs : ~Owns(me[a], r) /\ (Owns(m, r) <=> r = nextRec)
  BY <1>1, <1>3, EmptySeq DEF Owns, OnOne, OnRec, Minted, Opening, Flipping
<1>6. m.at \in Starting /\ handle = None
  BY <1>2, <1>3 DEF Starting, Home
<1>7. ASSUME NEW r \in Recs, Owns(m, r)
      PROVE  /\ r < nextRec' /\ r \notin Elems(meeting') /\ r \notin handed'
             /\ Fit(m, r, row'[r], Odd')
  <2>1. r = nextRec /\ row[r] = "absent" /\ r \notin handed
    BY <1>1, <1>5, <1>7 DEF Ordered, Shown
  <2>2. r \notin Elems(meeting)
    BY <1>1, <2>1 DEF IInv, Exclusive
  <2>3. Fit(m, r, row'[r], Odd')
    BY <1>2, <1>3, <2>1 DEF Fit, Coming, Present, Settled, Taken, Opening, Halting
  <2> QED
    BY <1>1, <1>2, <2>1, <2>2, <2>3
<1>8. Owners' /\ Shown'
  <2>1. \A r \in Elems(meeting') :
          /\ r \in Recs /\ (r \in Elems(meeting) \/ Owns(me[a], r))
          /\ r \notin handed' /\ row'[r] \notin Settled \cup {"absent"}
    BY <1>1, <1>2 DEF Ordered, Shown
  <2>2. nextRec' \in Int /\ nextRec <= nextRec'
    BY <1>1, <1>2
  <2>3. \A r \in Recs : Owns(m, r) => nextRec <= r
    BY <1>1, <1>5
  <2>4. \A r \in Recs \ Odd' :
          row'[r] \in Busy /\ (Owns(me[a], r) \/ r = active \/ r \in Elems(meeting)) =>
            r = active' \/ r \in Elems(meeting') \/ r \in handed' \/ Owns(m, r)
    BY <1>2, <1>5, ActorsAssumption
  <2> QED
    BY <1>2, <1>4, <1>6, <1>7, <2>1, <2>2, <2>3, <2>4, Passes
<1>9. Slot'
  <2>1. nextRec \in Recs
    BY <1>1, BoundAssumption DEF StartReserve, Room, IInv, Stores, Recs
  <2>2. /\ nextRec < nextRec' /\ nextRec \notin Elems(meeting') /\ nextRec \notin handed'
        /\ row'[nextRec] = "absent"
    BY <1>1, <1>2, <1>5, <1>7, <2>1 DEF Ordered, Shown
  <2> QED
    BY <1>2, <1>4, <1>6, <2>2 DEF Slot, Settled
<1>10. ASSUME NEW r \in Recs PROVE Handles(a, r)
  <2>1. CASE r = nextRec
    <3>1. Stage(m.at) = "starting" /\ nextRec <= r
      BY <1>1, <1>3, <2>1 DEF Stage, BringsUp, Minted
    <3> QED
      BY <1>4, <1>5, <2>1, <3>1 DEF Handles, Takes
  <2>2. CASE r # nextRec
    <3>1. nextRec <= r <=> nextRec' <= r
      BY <1>1, <1>2, <2>2
    <3>2. InSlots(r) <=> InSlots(r)'
      BY <1>2, <2>2, ActorsAssumption DEF InSlots
    <3> QED
      BY <1>2, <1>4, <1>5, <2>2, <3>1, <3>2 DEF Handles, Still
  <2> QED
    BY <2>1, <2>2
<1>11. Handled
  BY <1>4, <1>10, Hands
<1> QED
  BY <1>8, <1>9, <1>11 DEF Ordered, Orderly

LEMMA ClearRows ==
  ASSUME IInv, JInv, Home, Ordered, NEW a \in Actors, StartClearSlot(a)
  PROVE  Orderly
<1> DEFINE m == [me[a] EXCEPT !.at = "unrow"]
<1>1. /\ me[a] \in Locals /\ me = [b \in Actors |-> me[b]] /\ me[a].at = "clear"
      /\ nextRec \in Int /\ Elems(meeting) \subseteq Recs
  BY ElemsAreRecs, BoundAssumption DEF IInv, Shapes, Shape, StartClearSlot, At, Stores
<1>2. /\ me' = [me EXCEPT ![a] = m] /\ nextRec' = nextRec /\ active' = None
      /\ handle' = handle /\ meeting' = meeting
      /\ handed' = handed /\ row' = row /\ wav' = wav /\ Odd' = Odd
  BY <1>1 DEF StartClearSlot, Goto, store, ghosts, Odd
<1>3. m.at = "unrow" /\ m.rec = me[a].rec /\ m.tracks = me[a].tracks
  BY <1>1 DEF Locals
<1> HIDE DEF m
<1>4. me'[a] = m /\ \A b \in Actors \ {a} : me'[b] = me[b]
  BY <1>1, <1>2
<1>5. me[a].at \in OnOne /\ me[a].at \in Starting
  BY <1>1 DEF OnOne, OnRec, Minted, Opening, Starting
<1>6. /\ active = me[a].rec /\ me[a].rec \in Recs
      /\ \A r \in Recs : Owns(me[a], r) <=> r = me[a].rec
  BY <1>5, OwnsOne DEF Home
<1>7. \A r \in Recs : Owns(m, r) <=> Owns(me[a], r)
  BY <1>1, <1>3 DEF Owns, OnOne, OnRec, Minted, Opening, Flipping
<1>8. ASSUME NEW r \in Recs, Owns(m, r)
      PROVE  /\ r < nextRec /\ r \notin Elems(meeting) /\ r \notin handed
             /\ r # None /\ Fit(m, r, row[r], Odd)
  <2>1. /\ r < nextRec /\ r \notin Elems(meeting) /\ r \notin handed
        /\ Fit(me[a], r, row[r], Odd)
    BY <1>7, <1>8 DEF Ordered, Owners
  <2>2. row[r] \notin Settled
    BY <1>5, <2>1 DEF Fit, Undoable
  <2>3. Fit(m, r, row[r], Odd)
    BY <1>3, <2>2 DEF Fit, Coming, Present, Taken, Opening, Halting
  <2> QED
    BY <2>1, <2>3, ActorsAssumption
<1>9. Owners' /\ Shown'
  <2>1. \A r \in Elems(meeting') :
          /\ r \in Recs /\ (r \in Elems(meeting) \/ Owns(me[a], r))
          /\ r \notin handed' /\ row'[r] \notin Settled \cup {"absent"}
    BY <1>1, <1>2 DEF Ordered, Shown
  <2>2. nextRec' \in Int /\ nextRec <= nextRec'
    BY <1>1, <1>2
  <2> QED
    BY <1>2, <1>4, <1>6, <1>7, <1>8, <2>1, <2>2, Passes
<1>10. ASSUME NEW r \in Recs PROVE Handles(a, r)
  <2>1. Stage(m.at) = Stage(me[a].at)
    BY <1>1, <1>3 DEF Stage, BringsUp, Minted, Opening, Discards
  <2>2. ~Owns(me[a], r) => (InSlots(r) <=> InSlots(r)')
    BY <1>2, <1>6, ActorsAssumption DEF InSlots
  <2> QED
    BY <1>2, <1>4, <1>7, <2>1, <2>2 DEF Handles, Still, Advances
<1>11. Handled
  BY <1>4, <1>10, Hands
<1> QED
  BY <1>2, <1>9, <1>11 DEF Ordered, Slot, Orderly

LEMMA StoreRows ==
  ASSUME IInv, JInv, Home, Ordered, NEW a \in Actors, StartStoreHandle(a)
  PROVE  Orderly
<1> DEFINE rec == me[a].rec
           w == Watcher(rec)
<1>1. /\ me = [b \in Actors |-> me[b]] /\ me[a].at = "store" /\ rec \in Recs
      /\ nextRec \in Int /\ Elems(meeting) \subseteq Recs
  BY LocalsAre, ElemsAreRecs, BoundAssumption
  DEF IInv, Shapes, StartStoreHandle, At, OnRec, Minted, Stores
<1>2. w \in Actors /\ w \in Watchers
  BY <1>1 DEF Actors, Watchers
<1>3. me[w].at = "idle" /\ me[w] \in Locals /\ w # a
  BY <1>1, <1>2 DEF JInv, Sleeping, Minted, IInv, Shapes, Shape
<1>4. PICK q \in {"armed", "fired"} : me' = [me EXCEPT ![a] = Idle, ![w].at = q]
  BY DEF StartStoreHandle
<1>5. /\ active' = active /\ handle' = rec /\ meeting' = meeting /\ nextRec' = nextRec
      /\ handed' = handed /\ row' = row /\ wav' = wav /\ Odd' = Odd
  BY DEF StartStoreHandle, store, ghosts, Odd
<1>6. me[a].at \in OnOne /\ me[a].at \in Starting
  BY <1>1 DEF OnOne, OnRec, Minted, Opening, Starting
<1>7. /\ active = rec /\ \A r \in Recs : Owns(me[a], r) <=> r = rec
      /\ Fit(me[a], rec, row[rec], Odd)
  BY <1>6, OwnsOne, OneFits DEF Home
<1>8. me[w].tracks = <<>>
  BY <1>2, <1>3 DEF IInv, Shapes, Shape, NoTracks, WatcherPlaces
<1>9. row[rec] # "absent"
  BY <1>1, <1>7 DEF Fit, Present, Coming, Opening
<1> HIDE DEF w, rec
<1>10. /\ me'[a] = Idle /\ me'[w] = [me[w] EXCEPT !.at = q]
       /\ \A b \in Actors : b # a /\ b # w => me'[b] = me[b]
  BY <1>1, <1>2, <1>3, <1>4
<1>11. me'[w].at = q /\ me'[w].tracks = <<>>
  BY <1>3, <1>8, <1>10 DEF Locals
<1>12. \A r : ~Owns(me'[w], r) /\ ~Owns(me[w], r) /\ ~Owns(Idle, r)
  BY <1>3, <1>8, <1>11, OwnsNothing, IdleOwnsNothing DEF OnRec, Minted, Opening
<1>13. Owners' /\ Shown'
  <2>1. \A r \in Elems(meeting') :
          /\ r \in Recs /\ (r \in Elems(meeting) \/ Owns(me[a], r))
          /\ r \notin handed' /\ row'[r] \notin Settled \cup {"absent"}
    BY <1>1, <1>5 DEF Ordered, Shown
  <2>2. nextRec' \in Int /\ nextRec <= nextRec'
    BY <1>1, <1>5
  <2>3. \A b \in Actors \ {a} :
          me'[b] = me[b] \/ \A r \in Recs : ~Owns(me'[b], r) /\ ~Owns(me[b], r)
    BY <1>10, <1>12
  <2> QED
    BY <1>5, <1>7, <1>10, <1>12, <2>1, <2>2, <2>3, Passes
<1>14. Slot'
  BY <1>1, <1>5, <1>7, <1>9, ActorsAssumption DEF Ordered, Slot
<1>15. ASSUME NEW r \in Recs PROVE Handles(a, r)
  <2>1. InSlots(r)' = InSlots(r) /\ InSlots(rec)
    BY <1>5, <1>7 DEF InSlots
  <2>2. CASE r = rec
    <3>1. Stage(me[a].at) = "starting" /\ Owns(me[a], r)
      BY <1>1, <1>7, <2>2 DEF Stage, BringsUp, Minted
    <3>2. r \notin handed
      BY <3>1 DEF Ordered, Owners
    <3> QED
      BY <1>5, <1>10, <1>12, <2>1, <2>2, <3>1, <3>2 DEF Handles, Gives
  <2>3. CASE r # rec
    BY <1>5, <1>7, <1>10, <1>12, <2>1, <2>3 DEF Handles, Still
  <2> QED
    BY <2>2, <2>3
<1>16. Handled
  <2>1. \A b \in Actors \ {a} :
          me'[b] = me[b] \/ \A r \in Recs : ~Owns(me'[b], r) /\ ~Owns(me[b], r)
    BY <1>10, <1>12
  <2> QED
    BY <1>10, <1>15, <2>1, Hands
<1> QED
  BY <1>13, <1>14, <1>16 DEF Ordered, Orderly

LEMMA TakeRows ==
  ASSUME IInv, JInv, Home, Ordered, ~MidStart, NEW a \in Actors,
         StopTake(a) \/ CancelTake(a) \/ StopTakeHalf(a)
  PROVE  Orderly
<1>1. active # None /\ handle = active /\ active \in Recs
  BY NoneStarts DEF StopTake, CancelTake, StopTakeHalf, IInv, Stores
<1>2. PICK q \in {"teardown", "cancel"} :
        me' = [me EXCEPT ![a].at = q, ![a].rec = active, ![a].take = handle]
  BY <1>1 DEF StopTake, CancelTake, StopTakeHalf
<1> DEFINE m == [me[a] EXCEPT !.at = q, !.rec = active, !.take = handle]
<1>3. /\ me[a] \in Locals /\ me = [b \in Actors |-> me[b]]
      /\ me[a].at \in {"idle", "fired"} /\ me[a].tracks = <<>>
      /\ nextRec \in Int /\ Elems(meeting) \subseteq Recs
  BY ElemsAreRecs, BoundAssumption
  DEF IInv, Shapes, Shape, NoTracks, WatcherPlaces, Stores, StopTake, CancelTake,
      StopTakeHalf, CallsStop, Calls, At
<1>4. /\ active' = None /\ handle' = None /\ meeting' = meeting /\ nextRec' = nextRec
      /\ handed' = handed /\ row' = row /\ wav' = wav /\ Odd' = Odd
  BY <1>1 DEF StopTake, CancelTake, StopTakeHalf, store, Odd
<1>5. me' = [me EXCEPT ![a] = m]
  BY <1>2, <1>3
<1>6. m.at = q /\ m.rec = active /\ m.take = active /\ m.tracks = <<>>
  BY <1>1, <1>3 DEF Locals
<1> HIDE DEF m
<1>7. me'[a] = m /\ \A b \in Actors \ {a} : me'[b] = me[b]
  BY <1>3, <1>5
<1>8. \A r \in Recs : ~Owns(me[a], r) /\ (Owns(m, r) <=> r = active)
  BY <1>1, <1>3, <1>6, EmptySeq DEF Owns, OnOne, OnRec, Minted, Opening, Flipping
<1>9. /\ active < nextRec /\ active \notin Elems(meeting) /\ active \notin handed
      /\ row[active] \notin Settled \cup {"absent"}
  BY <1>1 DEF Ordered, Slot
<1>10. Fit(m, active, row[active], Odd)
  BY <1>6, <1>9 DEF Fit, Coming, Taken, Opening
<1>11. Owners' /\ Shown'
  <2>1. \A r \in Elems(meeting') :
          /\ r \in Recs /\ (r \in Elems(meeting) \/ Owns(me[a], r))
          /\ r \notin handed' /\ row'[r] \notin Settled \cup {"absent"}
    BY <1>3, <1>4 DEF Ordered, Shown
  <2>2. nextRec' \in Int /\ nextRec <= nextRec'
    BY <1>3, <1>4
  <2>3. \A r \in Recs : Owns(m, r) =>
          /\ r < nextRec' /\ r \notin Elems(meeting') /\ r \notin handed'
          /\ r = active' => m.at \in Starting
          /\ Fit(m, r, row'[r], Odd')
    BY <1>1, <1>4, <1>8, <1>9, <1>10
  <2> QED
    BY <1>1, <1>4, <1>7, <1>8, <2>1, <2>2, <2>3, Passes
<1>12. ASSUME NEW r \in Recs PROVE Handles(a, r)
  <2>1. CASE r = active
    <3>1. Stage(m.at) \in {"finishing", "discarding"} /\ InSlots(r)
      BY <1>6, <2>1 DEF Stage, BringsUp, Minted, Opening, Discards, InSlots
    <3> QED
      BY <1>7, <1>8, <1>9, <2>1, <3>1 DEF Handles, Takes
  <2>2. CASE r # active
    <3>1. InSlots(r) <=> InSlots(r)'
      BY <1>4, <2>2, ActorsAssumption DEF InSlots
    <3> QED
      BY <1>4, <1>7, <1>8, <2>2, <3>1 DEF Handles, Still
  <2> QED
    BY <2>1, <2>2
<1>13. Handled
  BY <1>7, <1>12, Hands
<1> QED
  BY <1>4, <1>11, <1>13 DEF Ordered, Slot, Orderly

-----------------------------------------------------------------------------
\* Meetings are taken, minted and started.
LEMMA MeetingTakeRows ==
  ASSUME IInv, JInv, Home, Ordered, NEW a \in Actors,
         CancelTakeMeeting(a) \/ (MeetingStopTake(a) /\ meeting # <<>>)
  PROVE  Orderly
<1>1. PICK q \in {"drop", "haltAll"} :
        /\ me' = [me EXCEPT ![a].at = q, ![a].tracks = meeting]
        /\ q = "drop" => active = None
  BY DEF CancelTakeMeeting, MeetingStopTake
<1> DEFINE m == [me[a] EXCEPT !.at = q, !.tracks = meeting]
<1>2. /\ me[a] \in Locals /\ me = [b \in Actors |-> me[b]]
      /\ me[a].at \in {"idle", "meetStop"} /\ me[a].tracks = <<>>
      /\ nextRec \in Int /\ Elems(meeting) \subseteq Recs
  BY ElemsAreRecs, BoundAssumption
  DEF IInv, Shapes, Shape, Stores, CancelTakeMeeting, MeetingStopTake, Calls, At,
      JInv, Tidy, Neat, Tracking, Halting, Opening, Flipping
<1>3. /\ active' = active /\ handle' = handle /\ meeting' = <<>> /\ nextRec' = nextRec
      /\ handed' = handed /\ row' = row /\ wav' = wav /\ Odd' = Odd
  BY DEF CancelTakeMeeting, MeetingStopTake, store, ghosts, Odd
<1>4. me' = [me EXCEPT ![a] = m]
  BY <1>1, <1>2
<1>5. m.at = q /\ m.tracks = meeting
  BY <1>2 DEF Locals
<1> HIDE DEF m
<1>6. me'[a] = m /\ \A b \in Actors \ {a} : me'[b] = me[b]
  BY <1>2, <1>4
<1>7. \A r \in Recs : ~Owns(me[a], r) /\ (Owns(m, r) <=> r \in Elems(meeting))
  BY <1>2, <1>5, EmptySeq DEF Owns, OnOne, OnRec, Minted, Opening, Flipping
<1>8. ASSUME NEW r \in Recs, Owns(m, r)
      PROVE  r < nextRec /\ r \notin handed /\ r # active /\ Fit(m, r, row[r], Odd)
  <2>1. r \in Elems(meeting)
    BY <1>7, <1>8
  <2>2. r < nextRec /\ r \notin handed /\ row[r] \notin Settled \cup {"absent"}
    BY <2>1 DEF Ordered, Shown, IInv, Exclusive
  <2>3. r # active
    BY <2>1, ActorsAssumption DEF Ordered, Slot
  <2>4. Fit(m, r, row[r], Odd)
    BY <1>5, <2>2 DEF Fit, Coming, Taken, Opening
  <2> QED
    BY <2>2, <2>3, <2>4
<1>9. Elems(meeting') = {}
  BY <1>3, EmptySeq
<1>10. Owners' /\ Shown'
  <2>1. nextRec' \in Int /\ nextRec <= nextRec'
    BY <1>2, <1>3
  <2> QED
    BY <1>3, <1>6, <1>7, <1>8, <1>9, <2>1, Passes
<1>11. Slot'
  <2>1. me[a].at \notin Starting
    BY <1>2 DEF Starting
  <2>2. \A b \in Actors : me[b].at \in Starting => me'[b].at \in Starting
    BY <1>6, <2>1
  <2>3. active # None =>
          active \notin Elems(meeting') \cup handed' /\ row'[active] = row[active]
    BY <1>3, <1>9 DEF Ordered, Slot
  <2> QED
    BY <1>2, <1>3, <2>2, <2>3, SlotStays
<1>12. ASSUME NEW r \in Recs PROVE Handles(a, r)
  <2>1. CASE r \in Elems(meeting)
    <3>1. Stage(m.at) \in {"finishing", "discarding"} /\ InSlots(r)
      BY <1>5, <2>1 DEF Stage, BringsUp, Minted, Opening, Discards, InSlots
    <3>2. r < nextRec /\ r \notin handed
      BY <1>7, <1>8, <2>1
    <3> QED
      BY <1>6, <1>7, <2>1, <3>1, <3>2 DEF Handles, Takes
  <2>2. CASE r \notin Elems(meeting)
    <3>1. InSlots(r) <=> InSlots(r)'
      BY <1>3, <1>9, <2>2 DEF InSlots
    <3> QED
      BY <1>3, <1>6, <1>7, <2>2, <3>1 DEF Handles, Still
  <2> QED
    BY <2>1, <2>2
<1>13. Handled
  BY <1>6, <1>12, Hands
<1> QED
  BY <1>10, <1>11, <1>13 DEF Ordered, Orderly

LEMMA MintRows ==
  ASSUME IInv, Home, Ordered, NEW a \in Actors, MeetingLock(a),
         ~(meeting # <<>> \/ ~Room(Tracks))
  PROVE  Orderly
<1> DEFINE m == [me[a] EXCEPT !.at = "trackRow", !.rec = nextRec]
<1>1. /\ me[a] \in Locals /\ me = [b \in Actors |-> me[b]] /\ me[a].tracks = <<>>
      /\ me[a].at = "meetLock" /\ nextRec \in Int /\ Elems(meeting) = {}
      /\ handed \subseteq Recs /\ \A r \in Recs : r \in Int
  BY EmptySeq, BoundAssumption
  DEF IInv, Shapes, Shape, NoTracks, MeetingLock, At, Stores, Recs
<1>2. /\ me' = [me EXCEPT ![a] = m] /\ nextRec' = nextRec + Tracks
      /\ active' = active /\ handle' = handle /\ meeting' = meeting
      /\ handed' = handed /\ row' = row /\ wav' = wav /\ Odd' = Odd
  BY <1>1 DEF MeetingLock, slots, store, ghosts, Odd
<1>3. m.at = "trackRow" /\ m.rec = nextRec /\ m.tracks = <<>> /\ Len(m.tracks) = 0
  BY <1>1 DEF Locals
<1> HIDE DEF m
<1>4. me'[a] = m /\ \A b \in Actors \ {a} : me'[b] = me[b]
  BY <1>1, <1>2
<1>5. /\ \A r \in Recs : ~Owns(me[a], r)
      /\ \A r \in Recs : Owns(m, r) <=> nextRec <= r /\ r < nextRec + Tracks
  BY <1>1, <1>3, EmptySeq, BoundAssumption
  DEF Owns, OnOne, OnRec, Minted, Opening, Flipping
<1>6. ASSUME NEW r \in Recs, Owns(m, r)
      PROVE  /\ r < nextRec' /\ r \notin Elems(meeting) /\ r \notin handed /\ r # active
             /\ Fit(m, r, row[r], Odd)
  <2>1. nextRec <= r /\ r < nextRec' /\ row[r] = "absent"
    BY <1>2, <1>5, <1>6 DEF Ordered, Shown
  <2>2. r \notin handed /\ r # active
    BY <1>1, <2>1, ActorsAssumption DEF Ordered, Shown, Slot
  <2>3. Coming(m, r)
    BY <1>1, <1>3, <2>1 DEF Coming, Opening
  <2>4. Fit(m, r, row[r], Odd)
    BY <1>3, <2>1, <2>3 DEF Fit, Settled, Taken
  <2> QED
    BY <1>1, <2>1, <2>2, <2>4
<1>7. nextRec' \in Int /\ nextRec <= nextRec'
  BY <1>1, <1>2, BoundAssumption
<1>8. Owners' /\ Shown'
  <2>1. \A r \in Recs : Owns(m, r) => nextRec <= r
    BY <1>5
  <2> QED
    BY <1>1, <1>2, <1>4, <1>5, <1>6, <1>7, <2>1, Passes
<1>9. Slot'
  <2>1. \A b \in Actors : me[b].at \in Starting => me'[b].at \in Starting
    BY <1>1, <1>4 DEF Starting
  <2>2. active # None =>
          active \notin Elems(meeting') \cup handed' /\ row'[active] = row[active]
    BY <1>2 DEF Ordered, Slot
  <2> QED
    BY <1>2, <1>7, <2>1, <2>2, SlotStays
<1>10. ASSUME NEW r \in Recs PROVE Handles(a, r)
  <2>1. CASE Owns(m, r)
    <3>1. Stage(m.at) = "starting" /\ nextRec <= r
      BY <1>3, <1>5, <2>1 DEF Stage, BringsUp, Opening
    <3> QED
      BY <1>4, <1>5, <2>1, <3>1 DEF Handles, Takes
  <2>2. CASE ~Owns(m, r)
    <3>1. ~(nextRec <= r /\ r < nextRec + Tracks) /\ Tracks \in Int /\ Tracks > 0
      BY <1>5, <2>2, BoundAssumption
    <3>2. nextRec <= r <=> nextRec' <= r
      BY <1>1, <1>2, <3>1
    <3>3. InSlots(r)' = InSlots(r)
      BY <1>2 DEF InSlots
    <3> QED
      BY <1>2, <1>4, <1>5, <2>2, <3>2, <3>3 DEF Handles, Still
  <2> QED
    BY <2>1, <2>2
<1>11. Handled
  BY <1>4, <1>10, Hands
<1> QED
  BY <1>8, <1>9, <1>11 DEF Ordered, Orderly

\* What the start of a meeting owns: the tracks it started, the one it is at,
\* and those still to come.
LEMMA OpeningFits ==
  ASSUME IInv, OnDisk, Ordered, NEW a \in Actors, me[a].at \in Opening
  PROVE  /\ me[a] \in Locals /\ me[a].rec \in Recs /\ me[a].tracks \in SeqRecs
         /\ Elems(me[a].tracks) \subseteq Recs /\ \A r \in Recs : r \in Int
         /\ Len(me[a].tracks) \in Int /\ Len(me[a].tracks) < Tracks
         /\ \A r \in Recs : Owns(me[a], r) <=>
              \/ r \in Elems(me[a].tracks)
              \/ me[a].rec <= r /\ r < me[a].rec + Tracks - Len(me[a].tracks)
         /\ Owns(me[a], me[a].rec) /\ \A r \in Elems(me[a].tracks) : r < me[a].rec
         /\ \A r \in Recs : Owns(me[a], r) =>
              /\ row[r] \notin Settled
              /\ me[a].rec < r => row[r] = "absent"
              /\ r < me[a].rec => row[r] # "absent"
         /\ me[a].at = "trackRow" => row[me[a].rec] = "absent"
         /\ me[a].at = "trackStart" => row[me[a].rec] # "absent"
<1> DEFINE rec == me[a].rec
           t == me[a].tracks
<1>1. /\ me[a] \in Locals /\ rec \in Recs /\ t \in SeqRecs /\ Elems(t) \subseteq Recs
      /\ Len(t) < Tracks /\ Tracks \in Int /\ \A r \in Recs : r \in Int
  BY LocalsAre, ElemsAreRecs, BoundAssumption DEF IInv, Shapes, Shape, OnRec, Recs
<1>2. Len(t) \in Int
  BY <1>1, SeqRecsAre
<1>3. me[a].at \notin Flipping \cup OnOne
  BY DEF Flipping, Opening, OnOne
<1>4. \A r \in Recs :
        Owns(me[a], r) <=> r \in Elems(t) \/ (rec <= r /\ r < rec + Tracks - Len(t))
  BY <1>3 DEF Owns
<1>5. Owns(me[a], rec)
  BY <1>1, <1>2, <1>4
<1>6. \A r \in Elems(t) : r < rec
  BY DEF OnDisk, Recorded
<1>7. me[a].at \in Undoable /\ me[a].at \in Present
  BY DEF Undoable, Present
<1>8. \A r \in Recs : Coming(me[a], r) <=> rec < r \/ (me[a].at = "trackRow" /\ r = rec)
  BY DEF Coming, Opening
<1>9. ASSUME NEW r \in Recs, Owns(me[a], r)
      PROVE  /\ row[r] \notin Settled
             /\ rec < r => row[r] = "absent"
             /\ r < rec => row[r] # "absent"
             /\ me[a].at = "trackRow" /\ r = rec => row[r] = "absent"
             /\ me[a].at = "trackStart" /\ r = rec => row[r] # "absent"
  <2>1. Fit(me[a], r, row[r], Odd)
    BY <1>9 DEF Ordered, Owners
  <2>2. r < rec \/ r = rec => ~(rec < r)
    BY <1>1
  <2> QED
    BY <1>1, <1>7, <1>8, <2>1, <2>2 DEF Fit
<1> QED
  BY <1>1, <1>2, <1>4, <1>5, <1>6, <1>9

LEMMA OpeningRows ==
  ASSUME IInv, OnDisk, Home, Ordered, NEW a \in Actors,
         MeetingInsertRow(a) \/ MeetingTrackFails(a)
  PROVE  Orderly
<1> DEFINE rec == me[a].rec
           t == me[a].tracks
<1>1. me[a].at \in Opening
  BY DEF MeetingInsertRow, MeetingTrackFails, At, Opening
<1>2. /\ me[a] \in Locals /\ rec \in Recs /\ Elems(t) \subseteq Recs
      /\ \A r \in Recs : r \in Int
      /\ \A r \in Recs :
           Owns(me[a], r) <=> r \in Elems(t) \/ (rec <= r /\ r < rec + Tracks - Len(t))
      /\ Owns(me[a], rec) /\ \A r \in Elems(t) : r < rec
      /\ \A r \in Recs : Owns(me[a], r) =>
           /\ row[r] \notin Settled
           /\ rec < r => row[r] = "absent"
           /\ r < rec => row[r] # "absent"
      /\ me[a].at = "trackRow" => row[rec] = "absent"
  BY <1>1, OpeningFits
<1>3. Untouched /\ wav' = wav
  BY OddGrows DEF MeetingInsertRow, MeetingTrackFails, Untouched, slots
<1>4. me = [b \in Actors |-> me[b]] /\ row = [r \in Recs |-> row[r]]
  BY DEF IInv, Shapes, Stores
<1>5. CASE row' = [row EXCEPT ![rec] = "Recording"] /\ Goto(a, "trackStart")
  <2>1. row'[rec] = "Recording" /\ \A r \in Recs : r # rec => row'[r] = row[r]
    BY <1>2, <1>4, <1>5
  <2>2. ASSUME NEW m, m.at = "trackStart", m.rec = me[a].rec, m.take = me[a].take,
               m.tracks = me[a].tracks, NEW r \in Recs, Owns(me[a], r)
        PROVE  Fit(m, r, row'[r], Odd')
    <3>1. Coming(m, r) <=> rec < r
      BY <2>2 DEF Coming, Opening
    <3>2. row'[r] \notin Settled
      BY <1>2, <2>1, <2>2 DEF Settled
    <3>3. rec < r => row'[r] = "absent"
      BY <1>2, <2>1, <2>2
    <3>4. ~(rec < r) => row'[r] # "absent"
      BY <1>2, <2>1, <2>2
    <3> QED
      BY <2>2, <3>1, <3>2, <3>3, <3>4 DEF Fit, Taken
  <2>3. /\ SameKind(me[a].at, "trackStart") /\ me[a].at \notin Starting
        /\ Advances(Stage(me[a].at), Stage("trackStart"))
    BY <1>1 DEF SameKind, Flipping, OnOne, Opening, Starting, Advances, Stage, BringsUp
  <2> QED
    BY <1>2, <1>3, <1>5, <2>1, <2>2, <2>3, GoRows
<1>6. CASE /\ Goto(a, "abort")
           /\ \/ me[a].at = "trackRow" /\ row' = row
              \/ row' = [row EXCEPT ![rec] = "absent"]
  <2> DEFINE m == [me[a] EXCEPT !.at = "abort"]
  <2>1. row'[rec] = "absent" /\ \A r \in Recs : r # rec => row'[r] = row[r]
    BY <1>2, <1>4, <1>6
  <2>2. me' = [me EXCEPT ![a] = m]
    BY <1>4, <1>6 DEF Goto
  <2>3. m.at = "abort" /\ m.tracks = t /\ m.rec = rec
    BY <1>2 DEF Locals
  <2> HIDE DEF m
  <2>4. \A r \in Recs : Owns(m, r) <=> r \in Elems(t)
    BY <2>3 DEF Owns, OnOne, OnRec, Minted, Opening, Flipping
  <2>5. ASSUME NEW r \in Recs, Owns(m, r) PROVE Owns(me[a], r) /\ Fit(m, r, row'[r], Odd')
    <3>1. Owns(me[a], r)
      BY <1>2, <2>4, <2>5
    <3>2. row'[r] \notin Settled
      BY <1>2, <2>1, <3>1 DEF Settled
    <3>3. Fit(m, r, row'[r], Odd')
      BY <2>3, <3>2 DEF Fit, Coming, Present, Opening, Halting, Taken
    <3> QED
      BY <3>1, <3>3
  <2>6. ASSUME NEW r \in Recs, Owns(me[a], r), row'[r] \in Busy PROVE Owns(m, r)
    <3>1. r # rec
      BY <2>1, <2>6 DEF Busy
    <3>2. row[r] # "absent"
      BY <2>1, <2>6, <3>1 DEF Busy
    <3>3. ~(rec < r)
      BY <1>2, <2>6, <3>2
    <3> QED
      BY <1>2, <2>4, <2>6, <3>1, <3>3
  <2>7. me[a].at \notin Starting
    BY <1>1 DEF Opening, Starting
  <2>8. \A r \in Recs : row'[r] = row[r] \/ Owns(me[a], r)
    BY <1>2, <2>1
  <2>9. Stage(me[a].at) = "starting" /\ Advances("starting", Stage(m.at))
    BY <1>1, <2>3
    DEF Advances, Stage, BringsUp, Minted, Opening, Discards, Life!Paths
  <2> QED
    BY <1>3, <2>2, <2>5, <2>6, <2>7, <2>8, <2>9, Tends
<1>7. CASE MeetingInsertRow(a)
  BY <1>5, <1>6, <1>7 DEF MeetingInsertRow, At
<1>8. CASE MeetingTrackFails(a)
  BY <1>6, <1>8 DEF MeetingTrackFails
<1> QED
  BY <1>7, <1>8

LEMMA TrackStartRows ==
  ASSUME IInv, Locked, OnDisk, Home, Ordered, NEW a \in Actors, MeetingStartTrack(a)
  PROVE  Orderly
<1> DEFINE rec == me[a].rec
           t == me[a].tracks
           started == Append(t, rec)
<1>1. me[a].at \in Opening /\ me[a].at = "trackStart"
  BY DEF MeetingStartTrack, At, Opening
<1>2. /\ me[a] \in Locals /\ rec \in Recs /\ t \in SeqRecs /\ Elems(t) \subseteq Recs
      /\ Len(t) \in Int /\ Len(t) < Tracks /\ Tracks \in Int /\ \A r \in Recs : r \in Int
      /\ \A r \in Recs :
           Owns(me[a], r) <=> r \in Elems(t) \/ (rec <= r /\ r < rec + Tracks - Len(t))
      /\ \A r \in Elems(t) : r < rec
      /\ \A r \in Recs : Owns(me[a], r) =>
           /\ row[r] \notin Settled
           /\ rec < r => row[r] = "absent"
           /\ r < rec => row[r] # "absent"
      /\ row[rec] # "absent"
  BY <1>1, OpeningFits, BoundAssumption
<1>3. Elems(started) = Elems(t) \cup {rec} /\ Len(started) = Len(t) + 1
  BY <1>2, AppendTo
<1>4. /\ active' = active /\ handle' = handle /\ nextRec' = nextRec /\ handed' = handed
      /\ row' = row /\ wav' = wav /\ Odd' = Odd /\ nextRec \in Int /\ meeting = <<>>
  BY <1>1, BoundAssumption
  DEF MeetingStartTrack, store, ghosts, Odd, IInv, Stores, Locked
<1>5. me = [b \in Actors |-> me[b]] /\ me[a].at \notin Starting
  BY <1>1 DEF IInv, Shapes, Starting
<1> HIDE DEF started, t, rec
<1>6. CASE Len(started) < Tracks
  <2> DEFINE m == [me[a] EXCEPT !.at = "trackRow", !.rec = rec + 1, !.tracks = started]
  <2>1. me' = [me EXCEPT ![a] = m] /\ meeting' = meeting
    BY <1>5, <1>6 DEF MeetingStartTrack, rec, started, t
  <2>2. m.at = "trackRow" /\ m.rec = rec + 1 /\ m.tracks = started
    BY <1>2 DEF Locals
  <2> HIDE DEF m
  <2>3. \A r \in Recs : Owns(m, r) <=>
          r \in Elems(started) \/ (rec + 1 <= r /\ r < rec + 1 + Tracks - Len(started))
    BY <2>2 DEF Owns, OnOne, Opening, Flipping
  <2>4. \A r \in Recs : Owns(m, r) <=> Owns(me[a], r)
    <3> SUFFICES ASSUME NEW r \in Recs PROVE Owns(m, r) <=> Owns(me[a], r)
      OBVIOUS
    <3>1. rec + 1 + Tracks - Len(started) = rec + Tracks - Len(t)
      BY <1>2, <1>3
    <3>2. (rec <= r /\ r < rec + Tracks - Len(t))
            <=> r = rec \/ (rec + 1 <= r /\ r < rec + Tracks - Len(t))
      BY <1>2
    <3>3. Owns(m, r) <=> \/ r \in Elems(t) \/ r = rec
                         \/ (rec + 1 <= r /\ r < rec + Tracks - Len(t))
      BY <1>3, <2>3, <3>1
    <3>4. Owns(me[a], r) <=> r \in Elems(t) \/ (rec <= r /\ r < rec + Tracks - Len(t))
      BY <1>2
    <3> QED
      BY <3>2, <3>3, <3>4
  <2>5. ASSUME NEW r \in Recs, Owns(m, r) PROVE Fit(m, r, row'[r], Odd')
    <3>1. Owns(me[a], r)
      BY <2>4, <2>5
    <3>2. Coming(m, r) <=> rec < r
      BY <1>2, <2>2 DEF Coming, Opening
    <3>3. row[r] \notin Settled /\ (rec < r => row[r] = "absent")
          /\ (~(rec < r) => row[r] # "absent")
      BY <1>2, <3>1
    <3> QED
      BY <1>4, <2>2, <3>2, <3>3 DEF Fit, Taken
  <2>6. Untouched
    BY <1>4, <2>1 DEF Untouched
  <2>7. Advances(Stage(me[a].at), Stage(m.at))
    BY <1>1, <2>2 DEF Advances, Stage, BringsUp, Opening
  <2> QED
    BY <1>4, <1>5, <2>1, <2>4, <2>5, <2>6, <2>7, Tends
<1>7. CASE ~(Len(started) < Tracks)
  <2>1. me' = [me EXCEPT ![a] = Idle] /\ meeting' = started
    BY <1>7 DEF MeetingStartTrack, Return, rec, started, t
  <2>2. me'[a] = Idle /\ \A b \in Actors \ {a} : me'[b] = me[b]
    BY <1>5, <2>1
  <2>3. \A r \in Recs : ~Owns(Idle, r)
    BY IdleOwnsNothing
  <2>4. \A r \in Recs : Owns(me[a], r) <=> r \in Elems(started)
    BY <1>2, <1>3, <1>7
  <2>5. ASSUME NEW r \in Elems(started)
        PROVE  /\ r \in Recs /\ Owns(me[a], r) /\ r \notin handed /\ r # active
               /\ row[r] \notin Settled \cup {"absent"}
    <3>1. r \in Recs /\ Owns(me[a], r)
      BY <1>2, <1>3, <2>4
    <3>2. r \notin handed /\ r # active
      BY <1>5, <3>1 DEF Ordered, Owners
    <3> QED
      BY <1>2, <1>3, <3>1, <3>2
  <2>6. Elems(meeting) = {}
    BY <1>4, EmptySeq
  <2>7. Owners' /\ Shown'
    <3>1. nextRec' \in Int /\ nextRec <= nextRec'
      BY <1>4
    <3> QED
      BY <1>4, <2>1, <2>2, <2>3, <2>4, <2>5, <2>6, <3>1, Passes
  <2>8. Slot'
    <3>1. \A b \in Actors : me[b].at \in Starting => me'[b].at \in Starting
      BY <1>5, <2>2
    <3>2. active # None =>
            active \notin Elems(meeting') \cup handed' /\ row'[active] = row[active]
      BY <1>4, <2>1, <2>5 DEF Ordered, Slot
    <3> QED
      BY <1>4, <3>1, <3>2, SlotStays
  <2>9. ASSUME NEW r \in Recs PROVE Handles(a, r)
    <3>1. InSlots(r)' <=> r \in Elems(started) \/ r = active
      BY <1>4, <2>1 DEF InSlots
    <3>2. Stage(me[a].at) = "starting"
      BY <1>1 DEF Stage, BringsUp, Opening
    <3>3. CASE r \in Elems(started)
      BY <1>4, <2>2, <2>3, <2>4, <2>5, <3>1, <3>2, <3>3 DEF Handles, Gives
    <3>4. CASE r \notin Elems(started)
      <4>1. InSlots(r) <=> InSlots(r)'
        BY <2>6, <3>1, <3>4 DEF InSlots
      <4> QED
        BY <1>4, <2>2, <2>3, <2>4, <3>4, <4>1 DEF Handles, Still
    <3> QED
      BY <3>3, <3>4
  <2>10. Handled
    BY <2>2, <2>9, Hands
  <2> QED
    BY <2>7, <2>8, <2>10 DEF Ordered, Orderly
<1> QED
  BY <1>6, <1>7

-----------------------------------------------------------------------------
\* Pauses, and captures that end by themselves.
LEMMA PauseRows ==
  ASSUME IInv, Home, Ordered, NEW a \in Actors, PauseSingle(a) \/ ResumeSingle(a)
  PROVE  Orderly
<1>1. /\ active \in Recs /\ me' = me /\ wav' = wav /\ late' = late
      /\ \/ Works /\ UpdateStatus(active, "Paused")
         \/ Works /\ UpdateStatus(active, "Recording")
         \/ Fails(active) /\ row' = row
  BY DEF PauseSingle, ResumeSingle, IInv, Stores
<1>2. Untouched
  BY <1>1, OddUpdate DEF PauseSingle, ResumeSingle, Untouched
<1>3. CASE row' = row
  BY <1>1, <1>2, <1>3, RestRows
<1>4. CASE UpdateStatus(active, "Paused") \/ UpdateStatus(active, "Recording")
  BY <1>1, <1>2, <1>4, FlipRows
<1> QED
  BY <1>1, <1>3, <1>4

LEMMA FlipRowRows ==
  ASSUME IInv, Home, Ordered, NEW a \in Actors, FlipRow(a)
  PROVE  Orderly
<1> DEFINE h == Head(me[a].tracks)
<1>1. /\ me[a] \in Locals /\ me = [b \in Actors |-> me[b]]
      /\ me[a].at \in Flipping /\ h \in Recs
  BY LocalsAre DEF IInv, Shapes, Shape, FlipRow, Flipping, OnTracks
<1>2. /\ active' = active /\ handle' = handle /\ meeting' = meeting /\ handed' = handed
      /\ nextRec' = nextRec /\ wav' = wav
  BY DEF FlipRow, slots
<1>3. me[a].at \notin OnRec \cup Starting
  BY <1>1 DEF Flipping, OnRec, Minted, Opening, Starting
<1>4. CASE Fails(h) /\ Return(a) /\ row' = row /\ late' = late
  <2>1. Untouched /\ me' = [me EXCEPT ![a] = Idle]
    BY <1>2, <1>4, OddGrows DEF Untouched, Return
  <2> QED
    BY <1>1, <1>2, <1>3, <1>4, <2>1, QuietRows DEF Idle, OnRec, Minted, Opening
<1>5. CASE ~(Fails(h) /\ Return(a) /\ row' = row /\ late' = late)
  <2>1. /\ Works /\ NextTrack(a, me[a].at)
        /\ late' = IF h \in Elems(meeting) THEN late ELSE late \cup {h}
        /\ UpdateStatus(h, "Paused") \/ UpdateStatus(h, "Recording")
    BY <1>5 DEF FlipRow
  <2>2. Odd \subseteq Odd' /\ (h \in Elems(meeting) \/ h \in Odd')
    BY <2>1 DEF Works, Odd
  <2>3. Untouched
    BY <1>2, <2>2 DEF Untouched
  <2>4. /\ \A b \in Actors \ {a} : me'[b] = me[b]
        /\ me'[a] = Idle \/ me'[a].at = me[a].at
    BY <1>1, <2>1 DEF NextTrack, Return, Locals
  <2>5. \A r : ~Owns(me[a], r)
    BY <1>1, <1>3, OwnsNothing
  <2>6. me'[a].at \notin Starting /\ \A r : ~Owns(me'[a], r)
    BY <1>1, <1>3, <2>4, OwnsNothing, IdleOwnsNothing, IdleIsNeat
  <2>7. \A b \in Actors : me'[b] = me[b] \/
          /\ me'[b].at \notin Starting /\ me[b].at \notin Starting
          /\ \A r \in Recs : ~Owns(me'[b], r) /\ ~Owns(me[b], r)
    BY <1>3, <2>4, <2>5, <2>6
  <2> QED
    BY <1>1, <1>2, <2>1, <2>2, <2>3, <2>7, FlipRows
<1> QED
  BY <1>4, <1>5

LEMMA EndRows ==
  ASSUME IInv, Home, Ordered, NEW r \in Recs, CaptureEnds(r) \/ WatcherFindsNothing(r)
  PROVE  Orderly
<1>1. Untouched /\ row' = row /\ wav' = wav
  BY DEF CaptureEnds, WatcherFindsNothing, Untouched, Odd, slots, store, ghosts
<1>2. /\ Watcher(r) \in Actors
      /\ me[Watcher(r)].at \in NoTracks => me[Watcher(r)].tracks = <<>>
  BY DEF Actors, Watchers, IInv, Shapes, Shape
<1>3. CASE me' = me
  BY <1>1, <1>3, RestRows
<1>4. CASE At(Watcher(r), "armed") /\ Goto(Watcher(r), "fired")
  BY <1>1, <1>2, <1>4, QuietGoes DEF At, NoTracks, WatcherPlaces, OnRec, Minted, Opening
<1>5. CASE At(Watcher(r), "fired") /\ me' = [me EXCEPT ![Watcher(r)] = Idle]
  BY <1>1, <1>2, <1>5, QuietReturns DEF At, NoTracks, WatcherPlaces, OnRec, Minted, Opening
<1> QED
  BY <1>3, <1>4, <1>5 DEF CaptureEnds, WatcherFindsNothing, Goto

-----------------------------------------------------------------------------
\* Once raced, always raced; and a step after which nothing has raced took no
\* slot from a start in flight.
LEMMA RacedStays ==
  ASSUME IInv, [Next]_vars
  PROVE  /\ ~raced' => ~raced
         /\ \A a \in Actors :
              StopTake(a) \/ CancelTake(a) \/ StopTakeHalf(a) => (~raced' => ~MidStart)
<1>1. ASSUME NEW a, StopTake(a) \/ CancelTake(a) \/ StopTakeHalf(a)
      PROVE  ~raced' => ~raced /\ ~MidStart
  BY <1>1, Zenon DEF StopTake, CancelTake, StopTakeHalf
<1>2. ASSUME NEW a \in Clients, Request(a) PROVE ~raced' => ~raced
  <2>1. CASE StopTake(a) \/ CancelTake(a) \/ StopTakeHalf(a)
    BY <1>1, <2>1, Zenon
  <2>2. CASE ~(StopTake(a) \/ CancelTake(a) \/ StopTakeHalf(a))
    <3>1. raced' = raced
      BY <1>2, <2>2
      DEF Request, StartCheckMeeting, CancelTakeMeeting, PauseSingle, ResumeSingle,
          PauseMeeting, ResumeMeeting, FlipMeeting, MeetingStartCall, MeetingStopCall,
          ToggleCall, ghosts
    <3> QED
      BY <3>1
  <2> QED
    BY <2>1, <2>2
<1>3. ASSUME NEW a \in Actors, Acquires(a) PROVE raced' = raced
  BY <1>3
  DEF Acquires, StartReserve, StartRefused, StartClearSlot, ToggleDecide,
      MeetingCheckActive, MeetingCheckMeeting, MeetingLock, MeetingStopTake, ghosts
<1>4. ASSUME NEW a \in Actors, Continues(a) PROVE raced' = raced
  BY <1>4
  DEF Continues, StartInsertRow, StartOpenSource, StartStoreHandle, StartDropRow,
      StopSend, StopWriteWav, StopMark, StopFastLane, StopMarkQueued, StopEnqueue,
      CancelSend, CancelDeleteRow, DropCapture, DropRow, AbortNothing, FlipRow,
      MeetingOpenSources, MeetingInsertRow, MeetingStartTrack, MeetingTrackFails,
      MeetingHaltAll, MeetingAlign, MeetingWriteTrack, MeetingEnqueueTrack,
      MeetingFailTrack, ghosts
<1>5. ASSUME NEW r \in Recs, CaptureEnds(r) \/ WatcherFindsNothing(r) PROVE raced' = raced
  BY <1>5 DEF CaptureEnds, WatcherFindsNothing, ghosts
<1>6. ASSUME NEW r \in Recs, WatcherWakes(r) PROVE ~raced' => ~raced
  <2>1. CASE WatcherFindsNothing(r)
    BY <1>5, <2>1
  <2>2. CASE ~WatcherFindsNothing(r)
    BY <1>1, <1>6, <2>2, Zenon DEF WatcherWakes
  <2> QED
    BY <2>1, <2>2
<1>7. UNCHANGED vars => raced' = raced
  BY DEF vars, ghosts
<1>8. ~raced' => ~raced
  BY <1>2, <1>3, <1>4, <1>5, <1>6, <1>7 DEF Next
<1> QED
  BY <1>1, <1>8, Zenon

LEMMA OrderedStays ==
  ASSUME IInv, Locked, JInv, OnDisk, Home, Ordered, [Next]_vars, ~raced'
  PROVE  Orderly
<1>1. \A a \in Actors : StopTake(a) \/ CancelTake(a) \/ StopTakeHalf(a) => Orderly
  BY RacedStays, TakeRows
<1>2. ASSUME NEW a \in Clients, Request(a) PROVE Orderly
  <2>1. a \in Actors
    BY DEF Actors
  <2> QED
    BY <1>1, <1>2, <2>1, QuietSteps, QuietTakes, MeetingTakeRows, PauseRows DEF Request
<1>3. ASSUME NEW a \in Actors, Acquires(a) PROVE Orderly
  BY <1>3, QuietSteps, QuietTakes, ReserveRows, ClearRows, MeetingTakeRows, MintRows
  DEF Acquires
<1>4. ASSUME NEW a \in Actors, Continues(a) PROVE Orderly
  <2>1. CASE MeetingEnqueueTrack(a)
    <3>1. NextTrack(a, "trackWav") \/ (Goto(a, "trackFail") /\ handed' = handed)
      BY <2>1 DEF MeetingEnqueueTrack
    <3> QED
      BY <2>1, <3>1, MeetingNextRows, MeetingGoRows
  <2>2. CASE ~MeetingEnqueueTrack(a)
    BY <1>4, <2>2, QuietSteps, QuietTakes, StartRows, StoreRows, StopRows, HandOver,
       CancelRows, MeetingNextRows, MeetingGoRows, OpeningRows, TrackStartRows,
       FlipRowRows DEF Continues
  <2> QED
    BY <2>1, <2>2
<1>5. ASSUME NEW r \in Recs, CaptureEnds(r) PROVE Orderly
  BY <1>5, EndRows
<1>6. ASSUME NEW r \in Recs, WatcherWakes(r) PROVE Orderly
  <2>1. Watcher(r) \in Actors
    BY DEF Actors, Watchers
  <2> QED
    BY <1>1, <1>6, <2>1, EndRows DEF WatcherWakes
<1>7. ASSUME UNCHANGED vars PROVE Orderly
  <2>1. me' = me /\ Untouched /\ row' = row /\ wav' = wav
    BY <1>7 DEF vars, slots, store, ghosts, Untouched, Odd
  <2> QED
    BY <2>1, RestRows
<1> QED
  BY <1>2, <1>3, <1>4, <1>5, <1>6, <1>7 DEF Next

LEMMA InitOrdered == Init => Ordered
<1> SUFFICES ASSUME Init PROVE Ordered
  OBVIOUS
<1>1. \A a \in Actors : me[a] = Idle
  BY DEF Init
<1>2. Owners
  BY <1>1, IdleOwnsNothing DEF Owners
<1>3. Elems(meeting) = {} /\ handed = {} /\ active = None
  BY EmptySeq DEF Init
<1>4. \A r \in Recs : row[r] = "absent" /\ wav[r] = None
  BY DEF Init
<1>5. Slot /\ Shown
  BY <1>3, <1>4 DEF Slot, Shown, Busy
<1> QED
  BY <1>2, <1>5 DEF Ordered

RInv == IInv /\ Locked /\ JInv /\ OnDisk /\ (~raced => Home /\ Ordered)

LEMMA RowsInvariance == Spec => []RInv
<1>1. Init => RInv
  <2> SUFFICES ASSUME Init PROVE RInv
    OBVIOUS
  <2>1. IInv /\ Locked /\ JInv /\ OnDisk /\ Ordered
    BY InitIInv, InitJInv, InitOnDisk, InitOrdered
  <2>2. ~raced => Home
    BY <2>1, Zenon DEF JInv, HomeUnlessRaced
  <2> QED
    BY <2>1, <2>2, Zenon DEF RInv
<1>2. RInv /\ [Next]_vars => RInv'
  <2> SUFFICES ASSUME RInv, [Next]_vars PROVE RInv'
    OBVIOUS
  <2>1. IInv /\ Locked /\ JInv /\ OnDisk
    BY Zenon DEF RInv
  <2>2. (IInv /\ Locked /\ JInv /\ OnDisk)'
    BY <2>1, StepIInv, LocksKept, StepJInv, DiskKept
  <2>3. ASSUME ~raced' PROVE Home' /\ Ordered'
    <3>1. ~raced
      BY <2>1, <2>3, RacedStays, Zenon
    <3>2. Home /\ Ordered
      BY <3>1, Zenon DEF RInv
    <3>3. Home'
      BY <2>2, <2>3, Zenon DEF JInv, HomeUnlessRaced
    <3> QED
      BY <2>1, <2>3, <3>2, <3>3, OrderedStays, Zenon DEF Orderly
  <2> QED
    BY <2>2, <2>3, Zenon DEF RInv
<1> QED
  BY <1>1, <1>2, PTL DEF Spec

(* Until a stop or cancel hits a start in flight, a row that says something*)
(* is going on is backed: by the slot, the meeting, what was handed over,  *)
(* a handler, an error, or the late write of a pause.                      *)
THEOREM RowsAreAlwaysBacked == Spec => []RowsAreBacked
<1>1. RInv => RowsAreBacked
  <2> SUFFICES ASSUME RInv, ~raced, NEW r \in Recs \ (lost \cup late),
                      row[r] \in {"Recording", "Paused", "Transcribing", "Queued"}
               PROVE  \/ r = active \/ r \in Elems(meeting) \/ r \in handed
                      \/ \E a \in Actors : me[a].rec = r \/ r \in Elems(me[a].tracks)
    BY Zenon DEF RowsAreBacked
  <2>1. IInv /\ OnDisk /\ Ordered
    BY Zenon DEF RInv
  <2>2. \/ r = active \/ r \in Elems(meeting) \/ r \in handed
        \/ \E a \in Actors : Owns(me[a], r)
    BY <2>1 DEF Ordered, Shown, Busy, Odd
  <2>3. ASSUME NEW a \in Actors, Owns(me[a], r)
        PROVE  me[a].rec = r \/ r \in Elems(me[a].tracks)
    <3>1. CASE me[a].at \in Opening
      <4>1. row[r] # "absent"
        OBVIOUS
      <4>2. me[a].rec \in Int /\ r \in Int /\ (me[a].rec < r => row[r] = "absent")
        BY <2>1, <2>3, <3>1, OpeningFits
      <4> QED
        BY <2>3, <3>1, <4>1, <4>2 DEF Owns, OnOne
    <3>2. CASE me[a].at \notin Opening
      BY <2>3, <3>2 DEF Owns
    <3> QED
      BY <3>1, <3>2
  <2> QED
    BY <2>2, <2>3
<1> QED
  BY <1>1, RowsInvariance, PTL

(* What stop() and stop_meeting() hand over has its audio on disk and,     *)
(* until a stop or cancel hits a start in flight, a row that nothing       *)
(* deletes any more: no rollback, no cancel, no drop.                      *)
THEOREM HandedOverStaysWhole == Spec => []HandedOverWhole
<1>1. RInv => HandedOverWhole
  <2> SUFFICES ASSUME RInv, NEW r \in handed
               PROVE  /\ wav[r] # None
                      /\ ~raced => row[r] \in {"Transcribing", "Queued"} \/ r \in late \cup lost
    BY Zenon DEF HandedOverWhole
  <2>1. wav[r] # None
    BY DEF RInv, OnDisk
  <2>2. ASSUME ~raced PROVE row[r] \in {"Transcribing", "Queued"} \/ r \in late \cup lost
    <3>1. Ordered
      BY <2>2, Zenon DEF RInv
    <3> QED
      BY <3>1 DEF Ordered, Shown, Odd
  <2> QED
    BY <2>1, <2>2
<1> QED
  BY <1>1, RowsInvariance, PTL

(* Until a stop or cancel hits a start in flight, the samples of a capture *)
(* go to the file of the recording it was started for.                     *)
THEOREM RecordersGoHome == Spec => [](~raced => RecorderGoesHome)
<1>1. RInv => (~raced => RecorderGoesHome)
  <2> SUFFICES ASSUME RInv, ~raced PROVE RecorderGoesHome
    BY Zenon
  <2>1. Ordered
    BY Zenon DEF RInv
  <2> QED
    BY <2>1 DEF Ordered, Shown, RecorderGoesHome
<1> QED
  BY <1>1, RowsInvariance, PTL

-----------------------------------------------------------------------------
\* No step sets back the row of a recording that was given up or handed over.
Untold == {"absent", "Recording", "Paused"}

LEMMA ClientWrites ==
  ASSUME IInv, Ordered, NEW a \in Actors, Request(a), NEW r \in Recs, row[r] \in Settled
  PROVE  row'[r] \notin Untold
<1>1. row[r] \notin Untold
  BY DEF Settled, Untold
<1>2. CASE PauseSingle(a) \/ ResumeSingle(a)
  <2>1. active \in Recs /\ row[active] \notin Settled
    BY <1>2 DEF PauseSingle, ResumeSingle, Ordered, Slot, IInv, Stores
  <2>2. row'[r] = row[r]
    BY <1>2, <2>1, UpdateIs DEF PauseSingle, ResumeSingle
  <2> QED
    BY <1>1, <2>2
<1>3. CASE ~(PauseSingle(a) \/ ResumeSingle(a))
  <2>1. row' = row
    BY <1>3
    DEF Request, StartCheckMeeting, StopTake, StopTakeHalf, CancelTake, CancelTakeMeeting,
        PauseMeeting, ResumeMeeting, FlipMeeting, MeetingStartCall, MeetingStopCall,
        ToggleCall, store
  <2> QED
    BY <1>1, <2>1
<1> QED
  BY <1>2, <1>3

LEMMA SingleWrites ==
  ASSUME IInv, JInv, Ordered, NEW a \in Actors, NEW r \in Recs, row[r] \in Settled,
         \/ StartInsertRow(a) \/ StartDropRow(a) \/ CancelDeleteRow(a)
         \/ StopMark(a) \/ StopMarkQueued(a)
  PROVE  row'[r] \notin Untold
<1>1. row[r] \notin Untold
  BY DEF Settled, Untold
<1>2. /\ me[a].at \in {"insert", "unrow", "delete", "mark", "handoff"}
      /\ row = [s \in Recs |-> row[s]]
  BY DEF StartInsertRow, StartDropRow, CancelDeleteRow, StopMark, StopMarkQueued, At,
         IInv, Stores
<1>3. me[a].rec \in Recs /\ Fit(me[a], me[a].rec, row[me[a].rec], Odd)
  BY <1>2, LocalsAre, OneFits DEF OnOne, OnRec, Minted, Opening
<1>4. CASE StopMark(a) \/ StopMarkQueued(a)
  BY <1>1, <1>3, <1>4, UpdateIs DEF StopMark, StopMarkQueued, Untold
<1>5. CASE StartInsertRow(a) \/ StartDropRow(a) \/ CancelDeleteRow(a)
  <2>1. row[me[a].rec] \notin Settled
    BY <1>2, <1>3, <1>5
    DEF Fit, Undoable, Starting, StartInsertRow, StartDropRow, CancelDeleteRow, At
  <2>2. r # me[a].rec
    BY <2>1
  <2>3. row'[r] = row[r]
    BY <1>2, <1>5, <2>2 DEF StartInsertRow, StartDropRow, CancelDeleteRow
  <2> QED
    BY <1>1, <2>3
<1> QED
  BY <1>4, <1>5

LEMMA TrackWrites ==
  ASSUME IInv, OnDisk, Ordered, NEW a \in Actors, NEW r \in Recs \ late', row[r] \in Settled,
         \/ DropRow(a) \/ FlipRow(a) \/ MeetingInsertRow(a) \/ MeetingTrackFails(a)
         \/ MeetingWriteTrack(a) \/ MeetingFailTrack(a)
  PROVE  row'[r] \notin Untold
<1> DEFINE h == Head(me[a].tracks)
<1>1. row[r] \notin Untold /\ row = [s \in Recs |-> row[s]]
  BY DEF Settled, Untold, IInv, Stores
<1>2. CASE MeetingWriteTrack(a) \/ MeetingFailTrack(a)
  <2>1. h \in Recs
    BY <1>2, LocalsAre DEF MeetingWriteTrack, MeetingFailTrack, At, OnTracks
  <2> QED
    BY <1>1, <1>2, <2>1, UpdateIs DEF MeetingWriteTrack, MeetingFailTrack, Untold
<1>3. CASE DropRow(a)
  <2>1. h \in Recs /\ Fit(me[a], h, row[h], Odd) /\ me[a].at \in {"drop", "abort"}
    BY <1>3, TrackFits DEF DropRow, Drops, Flipping, OnRec, Minted, Opening
  <2>2. r # h
    BY <2>1 DEF Fit, Undoable
  <2> QED
    BY <1>1, <1>3, <2>2 DEF DropRow
<1>4. CASE FlipRow(a)
  <2>1. h \in Recs
    BY <1>4, LocalsAre DEF FlipRow, OnTracks, Flipping
  <2>2. CASE row' = row
    BY <1>1, <2>2
  <2>3. CASE ~(row' = row)
    <3>1. /\ UpdateStatus(h, "Paused") \/ UpdateStatus(h, "Recording")
          /\ h \in Elems(meeting) \/ h \in late'
      BY <1>4, <2>3 DEF FlipRow
    <3>2. r # h
      BY <3>1 DEF Ordered, Shown
    <3>3. row'[r] = row[r]
      BY <2>1, <3>1, <3>2, UpdateIs
    <3> QED
      BY <1>1, <3>3
  <2> QED
    BY <2>2, <2>3
<1>5. CASE MeetingInsertRow(a) \/ MeetingTrackFails(a)
  <2>1. me[a].at \in Opening
    BY <1>5 DEF MeetingInsertRow, MeetingTrackFails, At, Opening
  <2>2. me[a].rec \in Recs /\ row[me[a].rec] \notin Settled
    BY <2>1, OpeningFits
  <2>3. r # me[a].rec
    BY <2>2
  <2> QED
    BY <1>1, <1>5, <2>3 DEF MeetingInsertRow, MeetingTrackFails
<1> QED
  BY <1>2, <1>3, <1>4, <1>5

LEMMA OtherWrites ==
  ASSUME NEW a \in Actors,
         \/ Acquires(a) \/ StartOpenSource(a) \/ StartStoreHandle(a) \/ StopSend(a)
         \/ StopWriteWav(a) \/ StopFastLane(a) \/ StopEnqueue(a) \/ CancelSend(a)
         \/ DropCapture(a) \/ AbortNothing(a) \/ MeetingOpenSources(a)
         \/ MeetingStartTrack(a) \/ MeetingHaltAll(a) \/ MeetingAlign(a)
         \/ MeetingEnqueueTrack(a) \/ StopTake(a) \/ StopTakeHalf(a)
  PROVE  row' = row
BY DEF Acquires, StartReserve, StartRefused, StartClearSlot, ToggleDecide,
       MeetingCheckActive, MeetingCheckMeeting, MeetingLock, MeetingStopTake,
       StartOpenSource, StartStoreHandle, StopSend, StopWriteWav, StopFastLane,
       StopEnqueue, CancelSend, DropCapture, AbortNothing, MeetingOpenSources,
       MeetingStartTrack, MeetingHaltAll, MeetingAlign, MeetingEnqueueTrack, StopTake,
       StopTakeHalf, store

LEMMA SettledStays ==
  ASSUME IInv, JInv, OnDisk, Ordered, [Next]_vars, NEW r \in Recs \ late', row[r] \in Settled
  PROVE  row'[r] \notin Untold
<1>1. row' = row => row'[r] \notin Untold
  BY DEF Settled, Untold
<1>2. ASSUME NEW a \in Clients, Request(a) PROVE row'[r] \notin Untold
  BY <1>2, ClientWrites DEF Actors
<1>3. ASSUME NEW a \in Actors, Acquires(a) PROVE row'[r] \notin Untold
  BY <1>1, <1>3, OtherWrites
<1>4. ASSUME NEW a \in Actors, Continues(a) PROVE row'[r] \notin Untold
  BY <1>1, <1>4, SingleWrites, TrackWrites, OtherWrites DEF Continues
<1>5. ASSUME NEW s \in Recs, CaptureEnds(s) \/ WatcherWakes(s) PROVE row'[r] \notin Untold
  <2>1. Watcher(s) \in Actors
    BY DEF Actors, Watchers
  <2>2. row' = row
    BY <1>5, <2>1, OtherWrites DEF CaptureEnds, WatcherWakes, WatcherFindsNothing, store
  <2> QED
    BY <1>1, <2>2
<1>6. ASSUME UNCHANGED vars PROVE row'[r] \notin Untold
  BY <1>1, <1>6 DEF vars, store
<1> QED
  BY <1>2, <1>3, <1>4, <1>5, <1>6 DEF Next

(* Once a track has been given up or handed over, no cancel, rollback, drop*)
(* or pause sets its row back, except the write of a pause that a stop     *)
(* overtook, and until a stop or cancel hits a start in flight.            *)
THEOREM SettledRowsAreFinal == Spec => SettledRowsStay
<1> DEFINE Final == ~raced => \A r \in Recs \ late' :
                      row[r] \in {"Queued", "TranscribeFailed"} =>
                        row'[r] \notin {"absent", "Recording", "Paused"}
<1>1. RInv /\ [Next]_vars => [Final]_vars
  <2> SUFFICES ASSUME RInv, [Next]_vars, ~raced, NEW r \in Recs \ late',
                      row[r] \in {"Queued", "TranscribeFailed"}
               PROVE  row'[r] \notin {"absent", "Recording", "Paused"}
    BY Zenon
  <2>1. IInv /\ JInv /\ OnDisk /\ Ordered
    BY Zenon DEF RInv
  <2> QED
    BY <2>1, SettledStays DEF Settled, Untold
<1> QED
  BY <1>1, RowsInvariance, PTL DEF Spec, SettledRowsStay

-----------------------------------------------------------------------------
(* Recorder implements RecordingLife.                                      *)
(*                                                                         *)
(* What has an owner is in the stage of the owner's place (OwnedIs), what  *)
(* has none is where the slot, the meeting and the stores have it          *)
(* (UnownedIs).  So what a step does with a recording (Handled) goes along *)
(* the paths (LifeGoes).                                                   *)

\* Only what failed with an error is marked so.
Failed == \A r \in Recs : row[r] = "TranscribeFailed" => r \in Odd

Accounted ==
  /\ ~raced /\ IInv /\ Locked /\ JInv /\ OnDisk /\ Home /\ Ordered /\ Failed

LifeStep(r) == StageOf(r)' = "void" \/ Advances(StageOf(r), StageOf(r)')

LEMMA OwnedIs ==
  ASSUME Accounted, NEW r \in Recs \ Odd, NEW a \in Actors, Owns(me[a], r)
  PROVE  /\ StageOf(r) = Stage(me[a].at)
         /\ r < nextRec /\ r \notin handed /\ \A b \in Actors : Owns(me[b], r) => a = b
<1>1. r < nextRec /\ r \notin handed /\ \A b \in Actors : Owns(me[b], r) => a = b
  BY DEF Accounted, Ordered, Owners
<1>2. ~(nextRec <= r)
  BY <1>1, BoundAssumption DEF Accounted, IInv, Stores, Recs
<1>3. \A s : InStage(r, s) <=> s = Stage(me[a].at)
  BY <1>1 DEF InStage
<1>4. Stage(me[a].at) \in {"starting", "discarding", "finishing"}
  BY DEF Stage
<1>5. ~(raced \/ r \in lost \cup late)
  BY DEF Accounted, Odd
<1>6. StageOf(r) = Stage(me[a].at)
  BY <1>2, <1>3, <1>4, <1>5 DEF StageOf
<1> QED
  BY <1>1, <1>6

LEMMA UnownedIs ==
  ASSUME Accounted, NEW r \in Recs \ Odd, \A a \in Actors : ~Owns(me[a], r)
  PROVE  StageOf(r) = IF nextRec <= r THEN "unused"
                      ELSE IF r \in handed THEN "handed"
                      ELSE IF InSlots(r) THEN "capturing" ELSE "gone"
<1>1. ~(raced \/ r \in lost \cup late) /\ \A s : ~InStage(r, s)
  BY DEF Accounted, Odd, InStage
<1>2. r \in handed => wav[r] = r /\ row[r] \in {"Transcribing", "Queued"}
  <2>1. wav[r] \in {None, r} /\ (r \in handed => wav[r] # None)
    BY DEF Accounted, OnDisk, Ordered, Shown
  <2>2. r \in handed => row[r] \in {"Transcribing", "Queued"}
    BY DEF Accounted, Ordered, Shown
  <2> QED
    BY <2>1, <2>2
<1>3. InSlots(r) => row[r] # "absent"
  <2>1. r \in Elems(meeting) => row[r] # "absent"
    BY DEF Accounted, Ordered, Shown
  <2>2. ASSUME r = active, row[r] = "absent" PROVE FALSE
    <3>1. r # None
      BY ActorsAssumption
    <3>2. PICK b \in Actors : me[b].at \in Starting
      BY <2>2, <3>1 DEF Accounted, Ordered, Slot
    <3>3. me[b].rec = r
      BY <2>2, <3>2 DEF Accounted, Home
    <3>4. Owns(me[b], r)
      BY <3>2, <3>3 DEF Owns, OnOne, OnRec, Minted, Opening, Starting
    <3> QED
      BY <3>4
  <2> QED
    BY <2>1, <2>2 DEF InSlots
<1>4. ~InSlots(r) /\ r \notin handed => row[r] = "absent"
  <2>1. ~InSlots(r) /\ r \notin handed => row[r] \notin Busy
    BY DEF Accounted, Ordered, Shown, InSlots
  <2>2. row[r] \in Statuses /\ row[r] # "TranscribeFailed"
    BY DEF Accounted, Failed, IInv, Stores
  <2> QED
    BY <2>1, <2>2 DEF Busy, Statuses
<1> QED
  BY <1>1, <1>2, <1>3, <1>4, Zenon DEF StageOf, InSlots

\* Both at once, for the states before and after a step.
Unowned(r) ==
  IF nextRec <= r THEN "unused" ELSE IF r \in handed THEN "handed"
  ELSE IF InSlots(r) THEN "capturing" ELSE "gone"
Placed ==
  /\ nextRec \in Int
  /\ \A r \in Recs \ Odd : \A a \in Actors :
       Owns(me[a], r) => StageOf(r) = Stage(me[a].at) /\ r < nextRec
  /\ \A r \in Recs \ Odd : (\A a \in Actors : ~Owns(me[a], r)) => StageOf(r) = Unowned(r)

LEMMA PlacedIs == Accounted => Placed
<1> SUFFICES ASSUME Accounted PROVE Placed
  OBVIOUS
<1>1. nextRec \in Int
  BY BoundAssumption DEF Accounted, IInv, Stores
<1>2. \A r \in Recs \ Odd : \A a \in Actors :
        Owns(me[a], r) => StageOf(r) = Stage(me[a].at) /\ r < nextRec
  BY OwnedIs
<1>3. \A r \in Recs \ Odd : (\A a \in Actors : ~Owns(me[a], r)) => StageOf(r) = Unowned(r)
  BY UnownedIs DEF Unowned
<1> QED
  BY <1>1, <1>2, <1>3 DEF Placed

LEMMA LifeGoes ==
  ASSUME Placed, Placed', Odd \subseteq Odd', nextRec <= nextRec', Handled, NEW r \in Recs \ Odd'
  PROVE  LifeStep(r)
<1>1. r \in Recs \ Odd /\ r \in Int /\ nextRec \in Int /\ nextRec' \in Int
  BY BoundAssumption DEF Placed, Recs
<1>2. PICK a \in Actors : Handles(a, r) /\ \A b \in Actors \ {a} : Still(b, r)
  BY DEF Handled
<1>3. \A b \in Actors : Owns(me[b], r) => StageOf(r) = Stage(me[b].at) /\ r < nextRec
  BY <1>1 DEF Placed
<1>4. \A b \in Actors : Owns(me'[b], r) => StageOf(r)' = Stage(me'[b].at) /\ r < nextRec'
  BY DEF Placed
<1>5. (\A b \in Actors : ~Owns(me[b], r)) => StageOf(r) = Unowned(r)
  BY <1>1 DEF Placed
<1>6. (\A b \in Actors : ~Owns(me'[b], r)) => StageOf(r)' = Unowned(r)'
  BY DEF Placed
<1>7. CASE \E b \in Actors \ {a} : Owns(me[b], r)
  <2>1. PICK b \in Actors \ {a} : Owns(me[b], r)
    BY <1>7
  <2>2. Owns(me'[b], r) /\ Stage(me'[b].at) = Stage(me[b].at)
    BY <1>2, <2>1 DEF Still
  <2> QED
    BY <1>3, <1>4, <2>1, <2>2 DEF LifeStep, Advances
<1>8. CASE \A b \in Actors \ {a} : ~Owns(me[b], r)
  <2>1. \A b \in Actors \ {a} : ~Owns(me[b], r) /\ ~Owns(me'[b], r)
    BY <1>2, <1>8 DEF Still
  <2>2. ~Owns(me[a], r) => StageOf(r) = Unowned(r)
    BY <1>5, <2>1
  <2>3. ~Owns(me'[a], r) => StageOf(r)' = Unowned(r)'
    BY <1>6, <2>1
  <2>4. CASE /\ Still(a, r)
             /\ nextRec <= r <=> nextRec' <= r
             /\ r \in handed <=> r \in handed'
             /\ InSlots(r) <=> InSlots(r)'
    <3>1. CASE Owns(me[a], r)
      BY <1>3, <1>4, <2>4, <3>1 DEF Still, LifeStep, Advances
    <3>2. CASE ~Owns(me[a], r)
      BY <2>2, <2>3, <2>4, <3>2 DEF Still, LifeStep, Advances, Unowned
    <3> QED
      BY <3>1, <3>2
  <2>5. CASE /\ Owns(me[a], r) /\ Owns(me'[a], r)
             /\ Advances(Stage(me[a].at), Stage(me'[a].at))
    BY <1>3, <1>4, <2>5 DEF LifeStep
  <2>6. CASE Owns(me[a], r) /\ ~Owns(me'[a], r) /\ Gives(Stage(me[a].at), r)
    <3>1. ~(nextRec <= r) /\ StageOf(r) = Stage(me[a].at)
      BY <1>1, <1>3, <2>6
    <3>2. nextRec' <= r => nextRec <= r
      BY <1>1
    <3> QED
      BY <2>3, <2>6, <3>1, <3>2 DEF Gives, LifeStep, Advances, Unowned, Life!Paths
  <2>7. CASE ~Owns(me[a], r) /\ Owns(me'[a], r) /\ Takes(Stage(me'[a].at), r)
    <3>1. r < nextRec => ~(nextRec <= r)
      BY <1>1
    <3>2. StageOf(r)' = Stage(me'[a].at)
      BY <1>4, <2>7
    <3> QED
      BY <2>2, <2>7, <3>1, <3>2 DEF Takes, LifeStep, Advances, Unowned, Life!Paths
  <2> QED
    BY <1>2, <2>4, <2>5, <2>6, <2>7 DEF Handles
<1> QED
  BY <1>7, <1>8

\* The only row that says TranscribeFailed is that of a track given up.
LEMMA FailedStays ==
  ASSUME IInv, Ordered, Failed, [Next]_vars, Odd \subseteq Odd'
  PROVE  Failed'
<1>1. row = [r \in Recs |-> row[r]]
  BY DEF IInv, Stores
<1>2. \A x \in Recs : \A s : UpdateStatus(x, s) \/ row' = [row EXCEPT ![x] = s] =>
        \A r \in Recs : row'[r] = row[r] \/ row'[r] = s
  BY <1>1 DEF UpdateStatus
<1> DEFINE Unfailing == \A r \in Recs : row'[r] = "TranscribeFailed" => row'[r] = row[r]
<1>3. Unfailing => Failed'
  BY DEF Failed
<1>4. row' = row => Unfailing
  OBVIOUS
<1> HIDE DEF Unfailing
<1>5. ASSUME NEW x \in Recs, NEW s, s # "TranscribeFailed",
             UpdateStatus(x, s) \/ row' = [row EXCEPT ![x] = s]
      PROVE  Unfailing
  BY <1>2, <1>5 DEF Unfailing
<1>6. ASSUME NEW a \in Clients, Request(a) PROVE Unfailing
  <2>1. CASE PauseSingle(a) \/ ResumeSingle(a)
    <3>1. active \in Recs
      BY <2>1 DEF PauseSingle, ResumeSingle, IInv, Stores
    <3> QED
      BY <1>4, <1>5, <2>1, <3>1 DEF PauseSingle, ResumeSingle
  <2>2. CASE ~(PauseSingle(a) \/ ResumeSingle(a))
    <3>1. row' = row
      BY <1>6, <2>2
      DEF Request, StartCheckMeeting, StopTake, StopTakeHalf, CancelTake,
          CancelTakeMeeting, PauseMeeting, ResumeMeeting, FlipMeeting,
          MeetingStartCall, MeetingStopCall, ToggleCall, store
    <3> QED
      BY <1>4, <3>1
  <2> QED
    BY <2>1, <2>2
<1>7. ASSUME NEW a \in Actors, Continues(a) PROVE Failed'
  <2>1. /\ me[a].at \in OnRec => me[a].rec \in Recs
        /\ me[a].tracks # <<>> => Head(me[a].tracks) \in Recs
        /\ me[a].at \in OnTracks => me[a].tracks # <<>>
    BY LocalsAre
  <2>2. CASE MeetingFailTrack(a)
    <3>1. /\ Head(me[a].tracks) \in Recs
          /\ Fit(me[a], Head(me[a].tracks), row[Head(me[a].tracks)], Odd)
      BY <2>1, <2>2, TrackFits
      DEF MeetingFailTrack, At, OnTracks, Flipping, OnRec, Minted, Opening
    <3>2. Head(me[a].tracks) \in Odd
      BY <2>2, <3>1 DEF Fit, MeetingFailTrack, At
    <3>3. \A r \in Recs : r # Head(me[a].tracks) => row'[r] = row[r]
      BY <2>2, <3>1, UpdateIs DEF MeetingFailTrack
    <3> QED
      BY <3>2, <3>3 DEF Failed
  <2>3. CASE StartInsertRow(a) \/ StartDropRow(a) \/ CancelDeleteRow(a)
    <3>1. me[a].rec \in Recs
      BY <2>1, <2>3 DEF StartInsertRow, StartDropRow, CancelDeleteRow, At, OnRec, Minted
    <3> QED
      BY <1>3, <1>4, <1>5, <2>3, <3>1 DEF StartInsertRow, StartDropRow, CancelDeleteRow
  <2>4. CASE StopMark(a) \/ StopMarkQueued(a)
    <3>1. me[a].rec \in Recs
      BY <2>1, <2>4 DEF StopMark, StopMarkQueued, At, OnRec
    <3> QED
      BY <1>3, <1>4, <1>5, <2>4, <3>1 DEF StopMark, StopMarkQueued
  <2>5. CASE DropRow(a) \/ FlipRow(a) \/ MeetingWriteTrack(a)
    <3>1. Head(me[a].tracks) \in Recs
      BY <2>1, <2>5 DEF DropRow, Drops, FlipRow, MeetingWriteTrack, At, OnTracks, Flipping
    <3> QED
      BY <1>3, <1>4, <1>5, <2>5, <3>1 DEF DropRow, FlipRow, MeetingWriteTrack
  <2>6. CASE MeetingInsertRow(a) \/ MeetingTrackFails(a)
    <3>1. me[a].rec \in Recs
      BY <2>1, <2>6 DEF MeetingInsertRow, MeetingTrackFails, At, OnRec, Opening
    <3> QED
      BY <1>3, <1>4, <1>5, <2>6, <3>1 DEF MeetingInsertRow, MeetingTrackFails
  <2> QED
    BY <1>3, <1>4, <1>7, <2>2, <2>3, <2>4, <2>5, <2>6, OtherWrites DEF Continues
<1>8. ASSUME NEW a \in Actors, Acquires(a) PROVE Unfailing
  BY <1>4, <1>8, OtherWrites
<1>9. ASSUME NEW s \in Recs, CaptureEnds(s) \/ WatcherWakes(s) PROVE Unfailing
  <2>1. Watcher(s) \in Actors
    BY DEF Actors, Watchers
  <2>2. row' = row
    BY <1>9, <2>1, OtherWrites DEF CaptureEnds, WatcherWakes, WatcherFindsNothing, store
  <2> QED
    BY <1>4, <2>2
<1>10. UNCHANGED vars => Unfailing
  BY <1>4 DEF vars, store
<1> QED
  BY <1>3, <1>6, <1>7, <1>8, <1>9, <1>10 DEF Next

\* What is odd stays odd, and what was minted stays minted.
LEMMA Grows ==
  ASSUME IInv, [Next]_vars
  PROVE  Odd \subseteq Odd' /\ nextRec <= nextRec'
<1>1. nextRec \in Int /\ nextRec <= nextRec /\ nextRec <= nextRec + 1
      /\ nextRec <= nextRec + Tracks
  BY BoundAssumption DEF IInv, Stores
<1> DEFINE More == (Works \/ Refused \/ (\E r : Fails(r)) \/ lost' = lost) /\ late \subseteq late'
<1>2. More => Odd \subseteq Odd'
  BY DEF Works, Refused, Fails, Odd
<1>3. ASSUME NEW a, Request(a) PROVE More /\ nextRec' = nextRec
  BY <1>3
  DEF Request, StartCheckMeeting, StopTake, StopTakeHalf, CancelTake, CancelTakeMeeting,
      PauseSingle, ResumeSingle, PauseMeeting, ResumeMeeting, FlipMeeting,
      MeetingStartCall, MeetingStopCall, ToggleCall, ghosts
<1>4. ASSUME NEW a, Acquires(a) PROVE More /\ nextRec <= nextRec'
  BY <1>1, <1>4
  DEF Acquires, StartReserve, StartRefused, StartClearSlot, ToggleDecide,
      MeetingCheckActive, MeetingCheckMeeting, MeetingLock, MeetingStopTake, ghosts
<1>5. ASSUME NEW a, Continues(a) PROVE More /\ nextRec' = nextRec
  <2>1. CASE FlipRow(a)
    BY <2>1 DEF FlipRow
  <2>2. CASE ~FlipRow(a)
    BY <1>5, <2>2
    DEF Continues, StartInsertRow, StartOpenSource, StartStoreHandle, StartDropRow,
        StopSend, StopWriteWav, StopMark, StopFastLane, StopMarkQueued, StopEnqueue,
        CancelSend, CancelDeleteRow, DropCapture, DropRow, AbortNothing,
        MeetingOpenSources, MeetingInsertRow, MeetingStartTrack, MeetingTrackFails,
        MeetingHaltAll, MeetingAlign, MeetingWriteTrack, MeetingEnqueueTrack,
        MeetingFailTrack, ghosts
  <2> QED
    BY <2>1, <2>2
<1>6. ASSUME NEW r, CaptureEnds(r) \/ WatcherWakes(r) PROVE More /\ nextRec' = nextRec
  BY <1>6 DEF CaptureEnds, WatcherWakes, StopTake, StopTakeHalf, WatcherFindsNothing, ghosts
<1>7. UNCHANGED vars => More /\ nextRec' = nextRec
  BY DEF vars, ghosts
<1> HIDE DEF More
<1> QED
  BY <1>1, <1>2, <1>3, <1>4, <1>5, <1>6, <1>7 DEF Next

LInv == RInv /\ (~raced => Failed)

LEMMA LifeInvariance == Spec => []LInv
<1>1. Init => LInv
  <2> SUFFICES ASSUME Init PROVE LInv
    OBVIOUS
  <2>1. IInv /\ Locked /\ JInv /\ OnDisk /\ Ordered
    BY InitIInv, InitJInv, InitOnDisk, InitOrdered
  <2>2. ~raced => Home
    BY <2>1, Zenon DEF JInv, HomeUnlessRaced
  <2>3. Failed
    BY DEF Init, Failed
  <2> QED
    BY <2>1, <2>2, <2>3, Zenon DEF LInv, RInv
<1>2. RInv /\ RInv' /\ LInv /\ [Next]_vars => LInv'
  <2> SUFFICES ASSUME RInv, RInv', LInv, [Next]_vars, ~raced' PROVE Failed'
    BY Zenon DEF LInv
  <2>1. IInv
    BY Zenon DEF RInv
  <2>2. ~raced
    BY <2>1, RacedStays, Zenon
  <2>3. Ordered /\ Failed
    BY <2>2, Zenon DEF LInv, RInv
  <2> QED
    BY <2>1, <2>3, Grows, FailedStays
<1> QED
  BY <1>1, <1>2, RowsInvariance, PTL DEF Spec

LEMMA LifeBegins == Init => Life!Init
<1> SUFFICES ASSUME Init PROVE Lives = [r \in Recs |-> "unused"]
  BY DEF Life!Init
<1>1. ~raced /\ lost = {} /\ late = {} /\ nextRec = 1
  BY DEF Init
<1>2. \A r \in Recs : nextRec <= r
  BY <1>1, BoundAssumption DEF Recs
<1>3. \A r \in Recs : StageOf(r) = "unused"
  BY <1>1, <1>2 DEF StageOf
<1> QED
  BY <1>3 DEF Lives

LEMMA LifeMoves == LInv /\ LInv' /\ [Next]_vars => [Life!Next]_Lives
<1> SUFFICES ASSUME LInv, LInv', [Next]_vars
             PROVE  /\ Lives' \in [Recs -> Life!Stages]
                    /\ \A r \in Recs :
                         \/ Lives'[r] = Lives[r] \/ Lives'[r] = "void"
                         \/ <<Lives[r], Lives'[r]>> \in Life!Paths
  BY DEF Life!Next
<1>1. IInv /\ Locked /\ JInv /\ OnDisk /\ (~raced' => ~raced)
  BY RacedStays, Zenon DEF LInv, RInv
<1>2. \A r \in Recs : Lives[r] = StageOf(r) /\ Lives'[r] = StageOf(r)'
  BY DEF Lives
<1>3. ASSUME NEW r \in Recs PROVE StageOf(r)' \in Life!Stages /\ LifeStep(r)
  <2>1. CASE raced' \/ r \in Odd'
    <3>1. StageOf(r)' = "void"
      BY <2>1, Zenon DEF StageOf, Odd
    <3> QED
      BY <3>1 DEF LifeStep, Life!Stages
  <2>2. CASE ~raced' /\ r \notin Odd'
    <3>1. ~raced /\ Home /\ Ordered
      BY <1>1, <2>2, Zenon DEF LInv, RInv
    <3>2. Accounted
      BY <1>1, <3>1, Zenon DEF Accounted, LInv
    <3>3. Accounted'
      BY <2>2, Zenon DEF Accounted, LInv, RInv
    <3>4. (Accounted => Placed)'
      BY PlacedIs, PTL
    <3>5. Placed /\ Placed'
      BY <3>2, <3>3, <3>4, PlacedIs, Zenon
    <3>6. Handled
      BY <1>1, <2>2, <3>1, OrderedStays DEF Orderly
    <3>7. LifeStep(r)
      BY <1>1, <2>2, <3>5, <3>6, Grows, LifeGoes
    <3>8. StageOf(r)' \in Life!Stages
      BY <2>2, <3>5 DEF Placed, Unowned, Stage, Life!Stages
    <3> QED
      BY <3>7, <3>8
  <2> QED
    BY <2>1, <2>2, Zenon
<1>4. Lives' \in [Recs -> Life!Stages]
  BY <1>3 DEF Lives
<1> QED
  BY <1>2, <1>3, <1>4 DEF LifeStep, Advances

(* Recorder implements RecordingLife: whichever stops, cancels, watchers,  *)
(* toggles and failing starts race for a recording, one of them finishes it*)
(* or discards it, and what that one began nobody else undoes.             *)
THEOREM RecordingsAreFinishedOrDiscarded == Spec => FinishedOrDiscarded
<1>1. Init => Life!Init
  BY LifeBegins
<1>2. LInv /\ LInv' /\ [Next]_vars => [Life!Next]_Lives
  BY LifeMoves
<1> QED
  BY <1>1, <1>2, LifeInvariance, PTL DEF Spec, FinishedOrDiscarded, Life!Spec
=============================================================================
