----------------------- MODULE TranscriptPollerProofs -----------------------
(***************************************************************************)
(* The transcript poller never steps over a turn that is not in the store, *)
(* for any number of files, sessions, restarts and any Lag, as long as the *)
(* bus stores what it holds within Lag (BusInTime).  One invariant carries *)
(* all three properties: every position the program holds, be it a cursor, *)
(* a scan's new cursor, a pending or a written checkpoint, or the reader's *)
(* own place in a file, is sound for what is stored or on its way there.   *)
(***************************************************************************)
EXTENDS TranscriptPoller, FiniteSetTheorems, TLAPS

-----------------------------------------------------------------------------
(***************************************************************************)
(* The invariant.                                                          *)
(***************************************************************************)

Transcript == [there : BOOLEAN, session : Nat, lines : Seq(Nat),
               half : BOOLEAN, version : Int]

Place == [version : Int, offset : Nat, session : Nat, prompt : BOOLEAN]

Positions == UNION {[D -> Place] : D \in SUBSET Files}

Job == [path : Files, version : Int, offset : Nat, session : Nat,
        prompt : BOOLEAN, open : Seq(Seq(Nat))]

Noted == [at : Nat, positions : Positions]

Row == [id : Files \X Nat \X Nat, starts : BOOLEAN, at : Nat]

Same(t, session) == t.there /\ t.session = session

\* A place in path f, whose transcript is t: it never names a later session
\* than the path has had; where it is in the transcript that is there now, it
\* is inside of it, carries the state its last line leaves, and every turn it
\* is past is one of ids.
Sound(f, t, cur, ids) ==
  /\ cur.session <= t.session
  /\ cur.offset = 0 => ~cur.prompt
  /\ Same(t, cur.session) /\ cur.offset > 0 =>
       /\ cur.offset <= Len(t.lines)
       /\ cur.prompt <=> t.lines[cur.offset] = Prompt
       /\ \A i \in 1 .. cur.offset :
            t.lines[i] # Prompt => <<f, cur.session, t.lines[i]>> \in ids

SoundAll(fs, m, ids) ==
  m \in Positions /\ \A f \in DOMAIN m : Sound(f, fs[f], m[f], ids)

\* The turns stored, or on the bus since t at the latest.
HeldBy(rows, queue, t) ==
  {row.id : row \in rows} \cup
  {queue[i].id : i \in {j \in DOMAIN queue : queue[j].at <= t}}

Held == HeldBy(stored, bus, now)

\* A turn's id is of a session the path has had, and in the transcript that is
\* there it is a turn of it.
Known(fs, x) ==
  /\ x \in Files \X Nat \X Nat
  /\ x[2] <= fs[x[1]].session
  /\ Same(fs[x[1]], x[2]) => x[3] \in Turns(fs[x[1]].lines)

\* Does a row say of its turn what the transcript says?
Right(fs, x, starts) ==
  Same(fs[x[1]], x[2]) => starts = Starts(fs[x[1]].lines, x[3])

WorldInv ==
  /\ file \in [Files -> Transcript] /\ now \in Nat
  /\ daemon \in {"down", "idle", "scan", "read", "stopped"}
  /\ cancelled \in BOOLEAN
  /\ todo \subseteq Files
  /\ daemon # "read" => job = NoJob

\* The reader's job: its open file is the one at the path exactly while the
\* path's transcript is of the job's session.
JobInv ==
  daemon = "read" =>
    /\ job \in Job
    /\ job.open = << >> <=> Same(file[job.path], job.session)
    /\ Sound(job.path, file[job.path], job, Held \cup seen)

\* What the process takes for handed over is so; once its context has ended
\* the last of it may have been refused by the bus.
SeenInv ==
  /\ known \subseteq StoredIds
  /\ ~cancelled => seen \subseteq Held

\* The first row of a turn, in the store or on the bus, is right.
RowInv ==
  /\ \A row \in stored : Known(file, row.id) /\ Right(file, row.id, row.starts)
  /\ bus \in Seq(Row)
  /\ \A i \in DOMAIN bus :
       /\ Known(file, bus[i].id)
       /\ \/ bus[i].id \in StoredIds
          \/ \E j \in 1 .. i - 1 : bus[j].id = bus[i].id
          \/ Right(file, bus[i].id, bus[i].starts)

\* The bus holds no row for longer than Lag.
TimeInv ==
  \A i \in DOMAIN bus : bus[i].at <= now /\ now - bus[i].at < Lag

PlaceInv ==
  /\ SoundAll(file, cursors, Held)
  /\ SoundAll(file, live, Held)
  /\ SoundAll(file, saved, StoredIds)

PendingInv ==
  /\ pending \in Seq(Noted)
  /\ \A i \in DOMAIN pending :
       /\ pending[i].at <= now
       /\ SoundAll(file, pending[i].positions, HeldBy(stored, bus, pending[i].at))

PollerInv ==
  /\ WorldInv /\ JobInv /\ SeenInv /\ RowInv /\ TimeInv /\ PlaceInv /\ PendingInv

-----------------------------------------------------------------------------
(***************************************************************************)
(* Places and rows, as the transcripts grow and rows reach the store.      *)
(***************************************************************************)

\* What the other program may do to a transcript.
Grows(t, u) ==
  /\ t \in Transcript /\ u \in Transcript
  /\ t.session <= u.session
  /\ t.session = u.session =>
       /\ u.there => t.there
       /\ Len(t.lines) <= Len(u.lines)
       /\ \A i \in 1 .. Len(t.lines) : u.lines[i] = t.lines[i]

\* A sound place stays sound.
LEMMA SoundGrows ==
  \A f, t, u, cur, ids, more :
    /\ Grows(t, u) /\ ids \subseteq more
    /\ cur.session \in Nat /\ cur.offset \in Nat
    /\ Sound(f, t, cur, ids)
    => Sound(f, u, cur, more)
PROOF
<1> SUFFICES ASSUME NEW f, NEW t, NEW u, NEW cur, NEW ids, NEW more,
                    Grows(t, u), ids \subseteq more,
                    cur.session \in Nat, cur.offset \in Nat,
                    Sound(f, t, cur, ids)
             PROVE  Sound(f, u, cur, more)
  OBVIOUS
<1>1. cur.session <= u.session /\ (cur.offset = 0 => ~cur.prompt)
  BY DEF Grows, Sound, Transcript
<1>2. ASSUME Same(u, cur.session), cur.offset > 0
      PROVE  /\ cur.offset <= Len(u.lines)
             /\ cur.prompt <=> u.lines[cur.offset] = Prompt
             /\ \A i \in 1 .. cur.offset :
                  u.lines[i] # Prompt => <<f, cur.session, u.lines[i]>> \in more
  <2>1. t.session = u.session /\ t.there
    BY <1>2 DEF Grows, Sound, Same, Transcript
  <2>2. Same(t, cur.session)
    BY <1>2, <2>1 DEF Same
  <2>3. cur.offset <= Len(t.lines) /\ Len(t.lines) \in Nat /\ Len(u.lines) \in Nat
    BY <1>2, <2>2 DEF Grows, Sound, Transcript
  <2>4. \A i \in 1 .. cur.offset : u.lines[i] = t.lines[i]
    BY <2>1, <2>3 DEF Grows
  <2>5. cur.offset <= Len(u.lines)
    BY <2>1, <2>3 DEF Grows
  <2>6. cur.offset \in 1 .. cur.offset
    BY <1>2
  <2> QED BY <1>2, <2>2, <2>4, <2>5, <2>6 DEF Sound
<1> QED BY <1>1, <1>2 DEF Sound

\* So do the places of all paths.
LEMMA AllGrow ==
  \A fs, gs, m, ids, more :
    /\ \A f \in Files : Grows(fs[f], gs[f])
    /\ ids \subseteq more /\ SoundAll(fs, m, ids)
    => SoundAll(gs, m, more)
PROOF
<1> SUFFICES ASSUME NEW fs, NEW gs, NEW m, NEW ids, NEW more,
                    \A f \in Files : Grows(fs[f], gs[f]),
                    ids \subseteq more, SoundAll(fs, m, ids),
                    NEW f \in DOMAIN m
             PROVE  Sound(f, gs[f], m[f], more)
  BY DEF SoundAll
<1>1. f \in Files /\ m[f] \in Place
  BY DEF SoundAll, Positions
<1>2. m[f].session \in Nat /\ m[f].offset \in Nat
  BY <1>1 DEF Place
<1>3. Grows(fs[f], gs[f]) /\ Sound(f, fs[f], m[f], ids)
  BY <1>1 DEF SoundAll
<1> QED BY <1>2, <1>3, SoundGrows

\* A transcript that is left alone grows, by nothing.
LEMMA StaysGrows == \A t \in Transcript : Grows(t, t)
PROOF BY DEF Grows, Transcript

\* A turn's id stays one, and a right row stays right.
LEMMA RightGrows ==
  \A fs, gs, x, starts :
    /\ \A f \in Files : Grows(fs[f], gs[f])
    /\ Known(fs, x)
    => Known(gs, x) /\ (Right(fs, x, starts) => Right(gs, x, starts))
PROOF
<1> SUFFICES ASSUME NEW fs, NEW gs, NEW x, NEW starts,
                    \A f \in Files : Grows(fs[f], gs[f]), Known(fs, x)
             PROVE  Known(gs, x) /\ (Right(fs, x, starts) => Right(gs, x, starts))
  OBVIOUS
<1> DEFINE t == fs[x[1]]
           u == gs[x[1]]
<1>1. /\ x \in Files \X Nat \X Nat /\ x[1] \in Files /\ x[2] \in Nat /\ x[3] \in Nat
      /\ x[2] <= t.session /\ Grows(t, u)
  BY DEF Known
<1>2. t.session \in Nat /\ u.session \in Nat /\ x[2] <= u.session
  BY <1>1 DEF Grows, Transcript
<1>3. CASE ~Same(u, x[2])
  BY <1>1, <1>2, <1>3 DEF Known, Right
<1>4. CASE Same(u, x[2])
  <2>1. t.session = u.session /\ Same(t, x[2])
    BY <1>1, <1>2, <1>4 DEF Same, Grows
  <2>2. /\ t.lines \in Seq(Nat) /\ u.lines \in Seq(Nat) /\ Len(t.lines) <= Len(u.lines)
        /\ \A i \in 1 .. Len(t.lines) : u.lines[i] = t.lines[i]
        /\ DOMAIN t.lines = 1 .. Len(t.lines) /\ DOMAIN u.lines = 1 .. Len(u.lines)
        /\ Len(t.lines) \in Nat /\ Len(u.lines) \in Nat
    BY <1>1, <2>1 DEF Grows, Transcript
  <2>n. Len(t.lines) \in Nat /\ Len(u.lines) \in Nat /\ Len(t.lines) <= Len(u.lines)
    BY <2>2
  <2>3. PICK i \in 1 .. Len(t.lines) : t.lines[i] = x[3]
    BY <2>1, <2>2 DEF Known, Turns
  <2>4. x[3] \in Turns(t.lines) /\ x[3] \in Turns(u.lines)
    <3>1. x[3] \in Turns(t.lines)
      BY <2>1 DEF Known
    <3>2. i \in DOMAIN u.lines /\ u.lines[i] = x[3]
      BY <2>2, <2>3
    <3> QED BY <3>1, <3>2 DEF Turns
  <2>5. Starts(u.lines, x[3]) <=> Starts(t.lines, x[3])
    <3>1. ASSUME Starts(t.lines, x[3]) PROVE Starts(u.lines, x[3])
      <4>1. PICK k \in 1 .. Len(t.lines) :
              /\ t.lines[k] = x[3] /\ \A j \in 1 .. k - 1 : t.lines[j] # x[3]
              /\ k > 1 /\ t.lines[k - 1] = Prompt
        BY <2>2, <3>1 DEF Starts
      <4>2. k \in 1 .. Len(u.lines) /\ u.lines[k] = x[3] /\ u.lines[k - 1] = Prompt
        <5>1. k - 1 \in 1 .. Len(t.lines) /\ k \in 1 .. Len(u.lines)
          <6> HIDE DEF t, u
          <6>1. k \in 1 .. Len(t.lines) /\ k > 1
            BY <4>1
          <6> QED BY <2>n, <6>1
        <5> QED BY <2>2, <4>1, <5>1
      <4>3. ASSUME NEW j \in 1 .. k - 1 PROVE u.lines[j] # x[3]
        <5>1. j \in 1 .. Len(t.lines)
          BY <2>n
        <5>2. u.lines[j] = t.lines[j]
          BY <2>2, <5>1
        <5> QED BY <4>1, <5>2
      <4> QED BY <2>2, <4>1, <4>2, <4>3 DEF Starts
    <3>2. ASSUME Starts(u.lines, x[3]) PROVE Starts(t.lines, x[3])
      <4>1. PICK k \in DOMAIN u.lines :
              /\ u.lines[k] = x[3] /\ \A j \in 1 .. k - 1 : u.lines[j] # x[3]
              /\ k > 1 /\ u.lines[k - 1] = Prompt
        BY <3>2 DEF Starts
      <4>2. k \in 1 .. Len(u.lines)
        BY <2>2, <4>1
      <4>3. k <= i
        BY <2>2, <2>3, <4>1, <4>2
      <4>4. k \in 1 .. Len(t.lines) /\ t.lines[k] = x[3] /\ t.lines[k - 1] = Prompt
        <5>1. k - 1 \in 1 .. Len(t.lines) /\ k \in 1 .. Len(t.lines)
          <6> HIDE DEF t, u
          <6>1. k \in 1 .. Len(u.lines) /\ k > 1 /\ i \in 1 .. Len(t.lines) /\ k <= i
            BY <2>3, <4>1, <4>2, <4>3
          <6> QED BY <2>n, <6>1
        <5> QED BY <2>2, <4>1, <5>1
      <4>5. \A j \in 1 .. k - 1 : t.lines[j] # x[3]
        BY <2>2, <4>1, <4>4
      <4> QED BY <2>2, <4>1, <4>4, <4>5 DEF Starts
    <3> QED BY <3>1, <3>2
  <2> QED BY <1>1, <1>2, <2>1, <2>4, <2>5 DEF Known, Right, Starts
<1> QED BY <1>3, <1>4

\* The empty map of positions is sound.
LEMMA EmptySound == \A fs, ids : SoundAll(fs, << >>, ids)
PROOF
<1>1. << >> \in [{} -> Place]
  OBVIOUS
<1>2. << >> \in Positions
  BY <1>1 DEF Positions
<1> QED BY <1>2 DEF SoundAll

\* Nothing is written, read or stored.
LEMMA PollerInit == Init => PollerInv
PROOF
<1> SUFFICES ASSUME Init PROVE PollerInv
  OBVIOUS
<1>1. WorldInv
  <2>1. [there |-> TRUE, session |-> 1, lines |-> << >>, half |-> FALSE, version |-> 0]
          \in Transcript
    BY DEF Transcript
  <2> QED BY <2>1 DEF Init, WorldInv
<1>2. JobInv /\ SeenInv /\ RowInv /\ TimeInv
  BY DEF Init, JobInv, SeenInv, RowInv, TimeInv
<1>3. PlaceInv /\ PendingInv
  BY EmptySound DEF Init, PlaceInv, PendingInv
<1> QED BY <1>1, <1>2, <1>3 DEF PollerInv

-----------------------------------------------------------------------------
(***************************************************************************)
(* The other program.                                                      *)
(***************************************************************************)

\* A transcript's turns can be counted.
LEMMA TurnsCounted == \A s \in Seq(Nat) : Cardinality(Turns(s)) \in Nat
PROOF
<1> SUFFICES ASSUME NEW s \in Seq(Nat) PROVE Cardinality(Turns(s)) \in Nat
  OBVIOUS
<1> DEFINE R == {s[i] : i \in DOMAIN s}
<1>1. DOMAIN s = 1 .. Len(s) /\ Len(s) \in Nat
  OBVIOUS
<1>2. IsFiniteSet(DOMAIN s)
  BY <1>1, FS_Interval
<1>3. s \in Surjection(DOMAIN s, R)
  BY <1>1 DEF Surjection
<1>4. IsFiniteSet(R)
  BY <1>2, <1>3, FS_Surjection
<1>5. IsFiniteSet(Turns(s))
  BY <1>4, FS_RemoveElement DEF Turns
<1> QED BY <1>5, FS_CardinalityType

\* A transcript with a half line more.
LEMMA HalfLonger ==
  \A t \in Transcript :
    LET u == [t EXCEPT !.half = TRUE, !.version = @ + 1]
    IN  u \in Transcript /\ Grows(t, u)
PROOF
<1> SUFFICES ASSUME NEW t \in Transcript
             PROVE  LET u == [t EXCEPT !.half = TRUE, !.version = @ + 1]
                    IN  u \in Transcript /\ Grows(t, u)
  OBVIOUS
<1> DEFINE u == [t EXCEPT !.half = TRUE, !.version = @ + 1]
<1>1. /\ u.there = t.there /\ u.session = t.session /\ u.lines = t.lines
      /\ u.half = TRUE /\ u.version = t.version + 1
  BY DEF Transcript
<1>2. DOMAIN u = {"there", "session", "lines", "half", "version"}
  BY DEF Transcript
<1>3. u = [i \in DOMAIN u |-> u[i]]
  OBVIOUS
<1>4. t.there \in BOOLEAN /\ t.session \in Nat /\ t.lines \in Seq(Nat) /\ t.version \in Int
  BY DEF Transcript
<1> HIDE DEF u
<1>b. u.there \in BOOLEAN /\ u.half \in BOOLEAN
  BY <1>1, <1>4, Zenon
<1>t. u.session \in Nat /\ u.lines \in Seq(Nat) /\ u.version \in Int
  BY <1>1, <1>4
<1>5. u \in Transcript
  BY <1>2, <1>3, <1>b, <1>t DEF Transcript
<1>6. Grows(t, u)
  BY <1>1, <1>4, <1>5 DEF Grows
<1> QED BY <1>5, <1>6 DEF u

\* A transcript with a line more.
LEMMA LineLonger ==
  \A t \in Transcript, line \in Nat :
    LET u == [t EXCEPT !.half = FALSE, !.version = @ + 1, !.lines = Append(@, line)]
    IN  u \in Transcript /\ Grows(t, u)
PROOF
<1> SUFFICES ASSUME NEW t \in Transcript, NEW line \in Nat
             PROVE  LET u == [t EXCEPT !.half = FALSE, !.version = @ + 1,
                                       !.lines = Append(@, line)]
                    IN  u \in Transcript /\ Grows(t, u)
  OBVIOUS
<1> DEFINE u == [t EXCEPT !.half = FALSE, !.version = @ + 1, !.lines = Append(@, line)]
<1>1. /\ u.there = t.there /\ u.session = t.session /\ u.lines = Append(t.lines, line)
      /\ u.half = FALSE /\ u.version = t.version + 1
  BY DEF Transcript
<1>2. DOMAIN u = {"there", "session", "lines", "half", "version"}
  BY DEF Transcript
<1>3. u = [i \in DOMAIN u |-> u[i]]
  OBVIOUS
<1>4. t.there \in BOOLEAN /\ t.session \in Nat /\ t.lines \in Seq(Nat) /\ t.version \in Int
  BY DEF Transcript
<1> HIDE DEF u
<1>b. u.there \in BOOLEAN /\ u.half \in BOOLEAN
  BY <1>1, <1>4, Zenon
<1>t. u.session \in Nat /\ u.lines \in Seq(Nat) /\ u.version \in Int
  BY <1>1, <1>4
<1>5. u \in Transcript
  BY <1>2, <1>3, <1>b, <1>t DEF Transcript
<1>6. /\ Len(t.lines) <= Len(u.lines)
      /\ \A i \in 1 .. Len(t.lines) : u.lines[i] = t.lines[i]
  BY <1>1, <1>4
<1>7. Grows(t, u)
  BY <1>1, <1>4, <1>5, <1>6 DEF Grows
<1> QED BY <1>5, <1>7 DEF u

\* Whatever it does to a path, its transcript grows.
LEMMA WriterGrows ==
  ASSUME WorldInv, NEW f \in Files,
         HalfWrite(f) \/ EndLine(f) \/ Replace(f) \/ Remove(f)
  PROVE  file' \in [Files -> Transcript] /\ \A g \in Files : Grows(file[g], file'[g])
PROOF
<1>1. file \in [Files -> Transcript] /\ file[f] \in Transcript
  BY DEF WorldInv
<1>2. SUFFICES \E u \in Transcript : Grows(file[f], u) /\ file' = [file EXCEPT ![f] = u]
  BY <1>1, StaysGrows
<1>t. /\ file[f].there \in BOOLEAN /\ file[f].session \in Nat /\ file[f].lines \in Seq(Nat)
      /\ file[f].half \in BOOLEAN /\ file[f].version \in Int
  BY <1>1 DEF Transcript
<1>3. CASE HalfWrite(f)
  <2>1. file' = [file EXCEPT ![f] = [file[f] EXCEPT !.half = TRUE, !.version = @ + 1]]
    BY <1>1, <1>3 DEF HalfWrite
  <2> QED BY <1>1, <2>1, HalfLonger
<1>4. CASE EndLine(f)
  <2> DEFINE last == Cardinality(Turns(file[f].lines))
  <2>1. PICK line \in {Prompt, last, last + 1} :
          file' = [file EXCEPT ![f] = [file[f] EXCEPT !.half = FALSE, !.version = @ + 1,
                                                      !.lines = Append(@, line)]]
    BY <1>1, <1>4 DEF EndLine
  <2>2. last \in Nat
    BY <1>t, TurnsCounted
  <2>3. line \in Nat
    BY <2>1, <2>2 DEF Prompt
  <2> QED BY <1>1, <2>1, <2>3, LineLonger
<1>5. CASE Replace(f)
  <2> DEFINE u == [there |-> TRUE, session |-> file[f].session + 1, lines |-> << >>,
                   half |-> FALSE, version |-> file[f].version + 1]
  <2>1. file' = [file EXCEPT ![f] = u]
    BY <1>1, <1>5 DEF Replace
  <2>2. u \in Transcript /\ Grows(file[f], u)
    BY <1>1, <1>t DEF Transcript, Grows
  <2> QED BY <2>1, <2>2
<1>6. CASE Remove(f)
  <2> DEFINE u == [file[f] EXCEPT !.there = FALSE]
  <2>1. file' = [file EXCEPT ![f] = u]
    BY <1>1, <1>6 DEF Remove
  <2>2. /\ u.there = FALSE /\ u.session = file[f].session /\ u.lines = file[f].lines
        /\ u \in Transcript
    BY <1>1, <1>t DEF Transcript
  <2>3. Grows(file[f], u)
    BY <1>1, <1>t, <2>2 DEF Grows
  <2> QED BY <2>1, <2>2, <2>3
<1> QED BY <1>3, <1>4, <1>5, <1>6

\* As transcripts grow, what is held about them stays sound.
LEMMA WorldStep ==
  ASSUME PollerInv, \A g \in Files : Grows(file[g], file'[g]),
         UNCHANGED <<now, cancelled, known, cursors, live, seen, bus, stored, disk>>
  PROVE  SeenInv' /\ RowInv' /\ TimeInv' /\ PlaceInv' /\ PendingInv'
PROOF
<1> USE DEF PollerInv, disk
<1>1. Held' = Held /\ StoredIds' = StoredIds
  BY DEF Held, StoredIds
<1>2. SeenInv' /\ TimeInv'
  BY <1>1 DEF SeenInv, TimeInv
<1>3. RowInv'
  <2>1. \A row \in stored' : Known(file', row.id) /\ Right(file', row.id, row.starts)
    BY RightGrows DEF RowInv
  <2>2. ASSUME NEW i \in DOMAIN bus'
        PROVE  /\ Known(file', bus'[i].id)
               /\ \/ bus'[i].id \in StoredIds'
                  \/ \E j \in 1 .. i - 1 : bus'[j].id = bus'[i].id
                  \/ Right(file', bus'[i].id, bus'[i].starts)
    BY <1>1, RightGrows DEF RowInv
  <2> QED BY <2>1, <2>2 DEF RowInv
<1>4. PlaceInv'
  <2>1. SoundAll(file', cursors, Held) /\ SoundAll(file', live, Held)
    BY AllGrow DEF PlaceInv
  <2>2. SoundAll(file', saved, StoredIds)
    BY AllGrow DEF PlaceInv
  <2> QED BY <1>1, <2>1, <2>2 DEF PlaceInv
<1>5. PendingInv'
  <2>1. \A i \in DOMAIN pending :
          SoundAll(file', pending[i].positions, HeldBy(stored, bus, pending[i].at))
    BY AllGrow DEF PendingInv
  <2> QED BY <2>1 DEF PendingInv
<1> QED BY <1>2, <1>3, <1>4, <1>5

\* Claude Code's steps keep the invariant.
LEMMA WriterStep ==
  ASSUME PollerInv, NEW f \in Files,
         HalfWrite(f) \/ EndLine(f) \/ Replace(f) \/ Remove(f)
  PROVE  PollerInv'
PROOF
<1>1. /\ UNCHANGED <<now, process, cursors, todo, live, seen, bus, stored, disk>>
      /\ \/ job' = job
         \/ (Replace(f) \/ Remove(f)) /\ job.path = f
              /\ job.open = << >> /\ job' = [job EXCEPT !.open = <<file[f].lines>>]
  BY DEF HalfWrite, EndLine, Replace, Remove, tail
<1>2. file' \in [Files -> Transcript] /\ \A g \in Files : Grows(file[g], file'[g])
  BY WriterGrows DEF PollerInv
<1>3. SeenInv' /\ RowInv' /\ TimeInv' /\ PlaceInv' /\ PendingInv'
  BY <1>1, <1>2, WorldStep DEF process
<1>4. WorldInv'
  <2>1. daemon' # "read" => job' = NoJob
    BY <1>1, FilesAssumption DEF PollerInv, WorldInv, process, NoJob
  <2> QED BY <1>1, <1>2, <2>1 DEF PollerInv, WorldInv, process
<1>5. JobInv'
  <2> SUFFICES ASSUME daemon = "read"
               PROVE  /\ job' \in Job
                      /\ job'.open = << >> <=> Same(file'[job'.path], job'.session)
                      /\ Sound(job'.path, file'[job'.path], job', Held' \cup seen')
    BY <1>1 DEF JobInv, process
  <2>1. /\ job \in Job
        /\ job.open = << >> <=> Same(file[job.path], job.session)
        /\ Sound(job.path, file[job.path], job, Held \cup seen)
        /\ file \in [Files -> Transcript]
    BY DEF PollerInv, JobInv, WorldInv
  <2>2. Held' = Held /\ seen' = seen
    BY <1>1 DEF Held
  <2>3. /\ job.path \in Files /\ job.session \in Nat /\ job.offset \in Nat
        /\ Grows(file[job.path], file'[job.path])
    BY <1>2, <2>1 DEF Job
  <2>4. Sound(job.path, file'[job.path], job, Held \cup seen)
    BY <2>1, <2>3, SoundGrows
  <2>5. CASE job' = job /\ job.path # f
    <3>1. file'[job.path] = file[job.path]
      BY <2>1, <2>3, <2>5 DEF HalfWrite, EndLine, Replace, Remove
    <3> QED BY <2>1, <2>2, <2>4, <2>5, <3>1 DEF Same
  <2>6. CASE job' = job /\ job.path = f
    <3>1. CASE HalfWrite(f) \/ EndLine(f)
      <4>1. file'[f].there = file[f].there /\ file'[f].session = file[f].session
        BY <2>1, <3>1 DEF HalfWrite, EndLine, Transcript
      <4> QED BY <2>1, <2>2, <2>4, <2>6, <4>1 DEF Same
    <3>2. CASE Replace(f) \/ Remove(f)
      <4>1. job.open # << >>
        <5>1. ASSUME job.open = << >> PROVE FALSE
          <6>1. job' = [job EXCEPT !.open = <<file[f].lines>>]
            BY <2>6, <3>2, <5>1 DEF Replace, Remove
          <6>2. job'.open = <<file[f].lines>>
            BY <2>1, <6>1 DEF Job
          <6>3. <<file[f].lines>> # << >>
            OBVIOUS
          <6> QED BY <2>6, <5>1, <6>2, <6>3
        <5> QED BY <5>1
      <4>2. ~Same(file'[f], job.session)
        BY <2>1, <2>3, <2>6, <4>1 DEF Grows, Same, Sound, Transcript
      <4> QED BY <2>1, <2>2, <2>4, <2>6, <4>1, <4>2 DEF Same
    <3> QED BY <3>1, <3>2
  <2>7. CASE /\ (Replace(f) \/ Remove(f)) /\ job.path = f
             /\ job.open = << >> /\ job' = [job EXCEPT !.open = <<file[f].lines>>]
    <3>1. file[f].lines \in Seq(Nat) /\ file[f].session \in Nat
      BY <2>1 DEF Transcript
    <3>2. /\ job'.path = job.path /\ job'.session = job.session
          /\ job'.offset = job.offset /\ job'.prompt = job.prompt
          /\ job'.open = <<file[f].lines>>
      BY <2>1, <2>7 DEF Job
    <3>6. job' \in Job
      <4>1. <<file[f].lines>> \in Seq(Seq(Nat))
        BY <3>1
      <4> QED BY <2>1, <2>7, <4>1 DEF Job
    <3>3. file'[f].session # job.session \/ ~file'[f].there
      BY <2>1, <2>7, <3>1 DEF Replace, Remove, Same, Transcript
    <3>4. Sound(job'.path, file'[job'.path], job', Held \cup seen)
      BY <2>4, <3>2 DEF Sound
    <3>5. job'.open # << >>
      BY <3>2
    <3> QED BY <2>2, <2>7, <3>2, <3>3, <3>4, <3>5, <3>6 DEF Same
  <2> QED BY <1>1, <2>5, <2>6, <2>7
<1> QED BY <1>3, <1>4, <1>5 DEF PollerInv

-----------------------------------------------------------------------------
(***************************************************************************)
(* The clock and the bus.                                                  *)
(***************************************************************************)

\* More ids held leave sound positions sound.
LEMMA MoreHeld ==
  ASSUME WorldInv
  PROVE  \A m, ids, more :
           ids \subseteq more /\ SoundAll(file, m, ids) => SoundAll(file, m, more)
PROOF
<1>1. \A f \in Files : Grows(file[f], file[f])
  BY StaysGrows DEF WorldInv
<1> QED BY <1>1, AllGrow

\* Where the transcripts are left alone and no row that is held is lost, the
\* positions stay sound, ...
LEMMA PlacesStep ==
  ASSUME PollerInv, file' = file, Held \subseteq Held', StoredIds \subseteq StoredIds',
         now' \in Nat, now <= now',
         \A t \in Nat : HeldBy(stored, bus, t) \subseteq HeldBy(stored', bus', t),
         UNCHANGED <<cursors, live, disk>>
  PROVE  PlaceInv' /\ PendingInv'
PROOF
<1> USE DEF PollerInv, disk
<1>1. PlaceInv'
  <2>1. /\ SoundAll(file, cursors, Held') /\ SoundAll(file, live, Held')
        /\ SoundAll(file, saved, StoredIds')
    BY MoreHeld DEF PlaceInv
  <2> QED BY <2>1 DEF PlaceInv
<1>2. PendingInv'
  <2> SUFFICES ASSUME NEW i \in DOMAIN pending
               PROVE  /\ pending[i].at <= now'
                      /\ SoundAll(file, pending[i].positions,
                                  HeldBy(stored', bus', pending[i].at))
    BY DEF PendingInv
  <2>1. pending[i] \in Noted /\ now \in Nat
    BY DEF PendingInv, WorldInv
  <2>2. pending[i].at \in Nat /\ pending[i].at <= now
    BY <2>1 DEF PendingInv, Noted
  <2>3. SoundAll(file, pending[i].positions, HeldBy(stored, bus, pending[i].at))
    BY DEF PendingInv
  <2>4. SoundAll(file, pending[i].positions, HeldBy(stored', bus', pending[i].at))
    BY <2>2, <2>3, MoreHeld
  <2> QED BY <2>1, <2>2, <2>4
<1> QED BY <1>1, <1>2

\* ... and so do the reader's place and what it has seen.
LEMMA HeldStep ==
  ASSUME PollerInv, file' = file, Held \subseteq Held', StoredIds \subseteq StoredIds',
         now' \in Nat, now <= now',
         \A t \in Nat : HeldBy(stored, bus, t) \subseteq HeldBy(stored', bus', t),
         UNCHANGED <<daemon, cancelled, known, tail, disk>>
  PROVE  JobInv' /\ SeenInv' /\ PlaceInv' /\ PendingInv'
PROOF
<1> USE DEF PollerInv, tail
<1>1. JobInv'
  <2> SUFFICES ASSUME daemon = "read" PROVE JobInv'
    BY DEF JobInv
  <2>1. /\ job \in Job /\ Sound(job.path, file[job.path], job, Held \cup seen)
        /\ file \in [Files -> Transcript]
    BY DEF JobInv, WorldInv
  <2>2. /\ job.session \in Nat /\ job.offset \in Nat
        /\ Grows(file[job.path], file[job.path])
    BY <2>1, StaysGrows DEF Job
  <2>3. Sound(job.path, file[job.path], job, Held' \cup seen)
    <3>1. Held \cup seen \subseteq Held' \cup seen
      OBVIOUS
    <3> QED BY <2>1, <2>2, <3>1, SoundGrows
  <2> QED BY <2>3 DEF JobInv
<1>2. SeenInv'
  BY DEF SeenInv
<1> QED BY <1>1, <1>2, PlacesStep

\* So does the clock, while the bus keeps its time.
LEMMA TickStep == BusInTime /\ PollerInv /\ Tick => PollerInv'
PROOF
<1> SUFFICES ASSUME BusInTime, PollerInv, Tick PROVE PollerInv'
  OBVIOUS
<1> USE DEF PollerInv
<1>1. /\ now \in Nat /\ now' = now + 1
      /\ UNCHANGED <<file, process, tail, bus, stored, disk>>
  BY DEF Tick, WorldInv
<1>2. Held \subseteq Held' /\ StoredIds' = StoredIds
  <2>1. \A i \in DOMAIN bus : bus[i].at \in Nat
    <3>1. \A i \in DOMAIN bus : bus[i] \in Row
      BY DEF RowInv
    <3> QED BY <3>1 DEF Row
  <2> QED BY <1>1, <2>1 DEF Held, HeldBy, StoredIds
<1>3. JobInv' /\ SeenInv' /\ PlaceInv' /\ PendingInv'
  <2>1. now' \in Nat /\ now <= now'
    BY <1>1
  <2> QED BY <1>1, <1>2, <2>1, HeldStep DEF process
<1>4. TimeInv'
  <2> SUFFICES ASSUME NEW i \in DOMAIN bus PROVE bus[i].at <= now' /\ now' - bus[i].at < Lag
    BY <1>1 DEF TimeInv
  <2>0. bus[i] \in Row
    BY DEF RowInv
  <2>1. bus[i].at \in Nat /\ bus[i].at <= now
    BY <2>0 DEF Row, TimeInv
  <2> QED BY <1>1, <2>1 DEF Tick
<1>5. WorldInv' /\ RowInv'
  BY <1>1, <1>2 DEF WorldInv, RowInv, process, tail
<1> QED BY <1>3, <1>4, <1>5

\* So does a flush of the bus.
LEMMA CommitStep == PollerInv /\ Commit => PollerInv'
PROOF
<1> SUFFICES ASSUME PollerInv, Commit PROVE PollerInv'
  OBVIOUS
<1> USE DEF PollerInv
<1>1. /\ UNCHANGED <<file, now, process, tail, disk>> /\ now \in Nat
      /\ file \in [Files -> Transcript]
      /\ bus # << >> /\ bus' = Tail(bus) /\ bus \in Seq(Row)
  BY DEF Commit, world, WorldInv, RowInv
<1> DEFINE new == [id |-> bus[1].id, starts |-> bus[1].starts]
<1>2. /\ bus' \in Seq(Row) /\ Len(bus) \in Nat \ {0} /\ DOMAIN bus = 1 .. Len(bus)
      /\ Len(bus') = Len(bus) - 1 /\ DOMAIN bus' = 1 .. Len(bus')
      /\ \A i \in DOMAIN bus' : bus'[i] = bus[i + 1] /\ i + 1 \in DOMAIN bus
  BY <1>1
<1>3. stored' = IF bus[1].id \in StoredIds THEN stored ELSE stored \cup {new}
  <2>1. Head(bus) = bus[1]
    BY <1>1
  <2>2. (\E row \in stored : row.id = bus[1].id) <=> bus[1].id \in StoredIds
    BY DEF StoredIds
  <2> QED BY <2>1, <2>2 DEF Commit
<1>4. StoredIds' = StoredIds \cup {bus[1].id}
  <2>1. CASE bus[1].id \in StoredIds
    BY <1>3, <2>1 DEF StoredIds
  <2>2. CASE bus[1].id \notin StoredIds
    <3>1. stored' = stored \cup {new} /\ new.id = bus[1].id
      BY <1>3, <2>2
    <3> HIDE DEF new
    <3> QED BY <3>1 DEF StoredIds
  <2> QED BY <2>1, <2>2
<1>5. \A t : HeldBy(stored, bus, t) \subseteq HeldBy(stored', bus', t)
  <2> SUFFICES ASSUME NEW t, NEW x \in HeldBy(stored, bus, t)
               PROVE  x \in HeldBy(stored', bus', t)
    OBVIOUS
  <2>1. CASE x \in StoredIds \cup {bus[1].id}
    BY <1>4, <2>1 DEF HeldBy, StoredIds
  <2>2. CASE x \notin StoredIds \cup {bus[1].id}
    <3>1. PICK i \in DOMAIN bus : bus[i].at <= t /\ x = bus[i].id
      BY <2>2 DEF HeldBy, StoredIds
    <3>2. i # 1 /\ i - 1 \in DOMAIN bus' /\ bus'[i - 1] = bus[i]
      BY <1>2, <2>2, <3>1
    <3> QED BY <3>1, <3>2 DEF HeldBy
  <2> QED BY <2>1, <2>2
<1>6. JobInv' /\ SeenInv' /\ PlaceInv' /\ PendingInv'
  <2>1. Held \subseteq Held' /\ StoredIds \subseteq StoredIds'
    BY <1>1, <1>4, <1>5 DEF Held
  <2> QED BY <1>1, <1>5, <2>1, HeldStep DEF process
<1>7. WorldInv' /\ TimeInv'
  BY <1>1, <1>2 DEF WorldInv, TimeInv, process, tail
<1>8. RowInv'
  <2>1. ASSUME NEW row \in stored'
        PROVE  Known(file, row.id) /\ Right(file, row.id, row.starts)
    <3>1. CASE row \in stored
      BY <3>1 DEF RowInv
    <3>2. CASE row \notin stored
      <4>1. row = new /\ bus[1].id \notin StoredIds
        BY <1>3, <3>2
      <4>2. Known(file, bus[1].id) /\ Right(file, bus[1].id, bus[1].starts)
        BY <1>2, <4>1 DEF RowInv
      <4> QED BY <4>1, <4>2
    <3> QED BY <3>1, <3>2
  <2>2. ASSUME NEW i \in DOMAIN bus'
        PROVE  /\ Known(file, bus'[i].id)
               /\ \/ bus'[i].id \in StoredIds'
                  \/ \E j \in 1 .. i - 1 : bus'[j].id = bus'[i].id
                  \/ Right(file, bus'[i].id, bus'[i].starts)
    <3>1. bus'[i] = bus[i + 1] /\ i + 1 \in DOMAIN bus /\ i \in Nat \ {0}
      BY <1>2
    <3>2. CASE \E j \in 1 .. i : bus[j].id = bus[i + 1].id
      <4>1. PICK j \in 1 .. i : bus[j].id = bus[i + 1].id
        BY <3>2
      <4>2. CASE j = 1
        BY <1>4, <3>1, <4>1, <4>2 DEF RowInv
      <4>3. CASE j # 1
        <5>1. j - 1 \in 1 .. i - 1 /\ bus'[j - 1] = bus[j]
          BY <1>2, <3>1, <4>1, <4>3
        <5> QED BY <3>1, <4>1, <5>1 DEF RowInv
      <4> QED BY <4>2, <4>3
    <3>3. CASE ~\E j \in 1 .. i : bus[j].id = bus[i + 1].id
      <4>1. i + 1 - 1 = i
        BY <3>1
      <4> QED BY <1>4, <3>1, <3>3, <4>1 DEF RowInv
    <3> QED BY <3>2, <3>3
  <2> QED BY <1>1, <1>2, <2>1, <2>2 DEF RowInv
<1> QED BY <1>6, <1>7, <1>8

-----------------------------------------------------------------------------
(***************************************************************************)
(* The daemon and its checkpoints.                                         *)
(***************************************************************************)

\* So does a start from the checkpoint.
LEMMA StartStep == PollerInv /\ Start => PollerInv'
PROOF
<1> SUFFICES ASSUME PollerInv, Start PROVE PollerInv'
  OBVIOUS
<1> USE DEF PollerInv
<1>1. UNCHANGED <<file, now, bus, stored, saved>>
  BY DEF Start, world
<1>2. Held' = Held /\ StoredIds' = StoredIds /\ StoredIds \subseteq Held
  BY <1>1 DEF Held, HeldBy, StoredIds
<1>3. WorldInv' /\ TimeInv' /\ RowInv'
  BY <1>1, <1>2 DEF Start, WorldInv, TimeInv, RowInv
<1>4. JobInv' /\ SeenInv' /\ PendingInv'
  BY <1>1, <1>2 DEF Start, LoadStoredIDs, JobInv, SeenInv, PendingInv, StoredIds
<1>5. PlaceInv'
  <2>1. SoundAll(file, saved, Held) /\ SoundAll(file, saved, StoredIds)
    BY <1>2, MoreHeld DEF PlaceInv
  <2> QED BY <1>1, <1>2, <2>1, EmptySound DEF PlaceInv, Start, Restore
<1> QED BY <1>3, <1>4, <1>5

\* So does a crash.
LEMMA DieStep == PollerInv /\ Die => PollerInv'
PROOF
<1> SUFFICES ASSUME PollerInv, Die PROVE PollerInv'
  OBVIOUS
<1> USE DEF PollerInv
<1>1. UNCHANGED <<file, now, stored, saved>> /\ bus' = << >> /\ StoredIds' = StoredIds
  BY DEF Die, world, StoredIds
<1>2. WorldInv'
  BY <1>1 DEF Die, WorldInv
<1>6. TimeInv'
  BY <1>1 DEF TimeInv
<1>5. RowInv'
  BY <1>1 DEF RowInv
<1>3. JobInv' /\ SeenInv' /\ PendingInv'
  BY <1>1 DEF Die, JobInv, SeenInv, PendingInv
<1>4. PlaceInv'
  BY <1>1, EmptySound DEF PlaceInv, Die
<1> QED BY <1>2, <1>3, <1>4, <1>5, <1>6

\* Steps that move no row and no position.
LEMMA IdleStep == PollerInv /\ (Cancel \/ Stop \/ ScanStart) => PollerInv'
PROOF
<1> SUFFICES ASSUME PollerInv, Cancel \/ Stop \/ ScanStart PROVE PollerInv'
  OBVIOUS
<1> USE DEF PollerInv
<1>1. /\ UNCHANGED <<file, now, cursors, job, seen, known, bus, stored, disk>>
      /\ live' \in {live, << >>}
      /\ cancelled' \in BOOLEAN /\ (cancelled' = cancelled \/ cancelled' = TRUE)
      /\ daemon' = "read" <=> daemon = "read"
  BY DEF Cancel, Stop, ScanStart, world, tail, WorldInv
<1>2. Held' = Held /\ StoredIds' = StoredIds
  BY <1>1 DEF Held, StoredIds
<1>3. WorldInv' /\ TimeInv' /\ RowInv'
  BY <1>1, <1>2 DEF WorldInv, TimeInv, RowInv, Cancel, Stop, ScanStart, tail
<1>4. JobInv' /\ SeenInv' /\ PendingInv'
  BY <1>1, <1>2 DEF JobInv, SeenInv, PendingInv, disk
<1>5. PlaceInv'
  BY <1>1, <1>2, EmptySound DEF PlaceInv, disk
<1> QED BY <1>3, <1>4, <1>5

\* A row that has been on the bus for Lag is stored.
LEMMA DueIsStored ==
  ASSUME PollerInv, NEW t \in Nat, now - t >= Lag
  PROVE  HeldBy(stored, bus, t) = StoredIds
PROOF
<1>1. now \in Nat /\ Lag \in Nat
  BY BoundsAssumption DEF PollerInv, WorldInv
<1>2. \A i \in DOMAIN bus : bus[i] \in Row
  BY DEF PollerInv, RowInv
<1>3. \A i \in DOMAIN bus : bus[i].at \in Nat /\ now - bus[i].at < Lag
  BY <1>2 DEF PollerInv, TimeInv, Row
<1>4. \A i \in DOMAIN bus : ~(bus[i].at <= t)
  BY <1>1, <1>3
<1> QED BY <1>4 DEF HeldBy, StoredIds

\* Noting sound positions leaves only sound positions to be written, and what
\* is written is of rows that are stored.
LEMMA NoteStep ==
  ASSUME PollerInv, UNCHANGED <<file, now, bus, stored>>
  PROVE  \A positions : SoundAll(file, positions, Held) /\ Note(positions)
           => PendingInv' /\ SoundAll(file, saved', StoredIds)
PROOF
<1> SUFFICES ASSUME NEW positions, SoundAll(file, positions, Held), Note(positions)
             PROVE  PendingInv' /\ SoundAll(file, saved', StoredIds)
  OBVIOUS
<1> DEFINE last    == Len(pending)
           earlier == IF last > 0 /\ pending[last].at = now
                      THEN SubSeq(pending, 1, last - 1) ELSE pending
           entry   == [at |-> now, positions |-> positions]
           all     == Append(earlier, entry)
           due     == {i \in DOMAIN all : now - all[i].at >= Lag}
           Fine(e) == /\ e.at <= now
                      /\ SoundAll(file, e.positions, HeldBy(stored, bus, e.at))
<1>1. pending \in Seq(Noted) /\ now \in Nat /\ last \in Nat
  BY DEF PollerInv, PendingInv, WorldInv
<1>2. entry \in Noted /\ entry.at = now /\ entry.positions = positions
  BY <1>1 DEF SoundAll, Noted
<1>3. Fine(entry)
  BY <1>1, <1>2 DEF Held
<1>4. \A i \in DOMAIN pending : Fine(pending[i])
  BY DEF PollerInv, PendingInv
<1>5. earlier \in Seq(Noted) /\ \A i \in DOMAIN earlier : Fine(earlier[i])
  <2> HIDE DEF Fine
  <2>1. CASE last > 0 /\ pending[last].at = now
    <3>1. earlier = SubSeq(pending, 1, last - 1) /\ last - 1 \in Nat
      BY <1>1, <2>1
    <3>2. /\ earlier \in Seq(Noted) /\ DOMAIN earlier = 1 .. last - 1
          /\ \A i \in 1 .. last - 1 : earlier[i] = pending[i] /\ i \in DOMAIN pending
      BY <1>1, <3>1
    <3> QED BY <1>4, <3>2
  <2>2. CASE ~(last > 0 /\ pending[last].at = now)
    BY <1>1, <1>4, <2>2
  <2> QED BY <2>1, <2>2
<1> HIDE DEF earlier, entry, Fine
<1>6. /\ all \in Seq(Noted) /\ Len(all) \in Nat /\ DOMAIN all = 1 .. Len(all)
      /\ \A i \in DOMAIN all : all[i] \in Noted /\ Fine(all[i])
  <2>1. /\ all \in Seq(Noted) /\ Len(all) = Len(earlier) + 1 /\ Len(earlier) \in Nat
        /\ \A i \in 1 .. Len(earlier) : all[i] = earlier[i] /\ i \in DOMAIN earlier
        /\ all[Len(all)] = entry /\ DOMAIN all = 1 .. Len(all)
    BY <1>2, <1>5
  <2> HIDE DEF all
  <2>2. ASSUME NEW i \in DOMAIN all PROVE all[i] \in Noted /\ Fine(all[i])
    <3>1. i \in 1 .. Len(earlier) \/ i = Len(all)
      BY <2>1
    <3> QED BY <1>2, <1>3, <1>5, <2>1, <3>1
  <2> QED BY <2>1, <2>2
<1>7. \/ due = {} /\ pending' = all /\ saved' = saved
      \/ \E i \in due : pending' = SubSeq(all, i + 1, Len(all)) /\ saved' \in {all[i].positions, saved}
  BY DEF Note, earlier, entry
<1> HIDE DEF all
<1>8. CASE due = {} /\ pending' = all /\ saved' = saved
  BY <1>6, <1>8 DEF PendingInv, PollerInv, PlaceInv, Fine
<1>9. CASE \E i \in due : pending' = SubSeq(all, i + 1, Len(all)) /\ saved' \in {all[i].positions, saved}
  <2>1. PICK i \in due : pending' = SubSeq(all, i + 1, Len(all)) /\ saved' \in {all[i].positions, saved}
    BY <1>9
  <2>2. i \in 1 .. Len(all) /\ now - all[i].at >= Lag /\ all[i].at \in Nat /\ Fine(all[i])
    BY <1>6 DEF Noted
  <2>3. /\ pending' \in Seq(Noted)
        /\ \A j \in DOMAIN pending' : \E k \in DOMAIN all : pending'[j] = all[k]
    <3>1. /\ pending' \in Seq(Noted) /\ Len(pending') = Len(all) - i
          /\ \A j \in 1 .. Len(pending') : pending'[j] = all[i + j] /\ i + j \in 1 .. Len(all)
      BY <1>6, <2>1, <2>2
    <3> QED BY <1>6, <3>1
  <2>4. \A j \in DOMAIN pending' : Fine(pending'[j])
    BY <1>6, <2>3
  <2>5. HeldBy(stored, bus, all[i].at) = StoredIds
    BY <2>2, DueIsStored
  <2>6. SoundAll(file, saved', StoredIds)
    BY <2>1, <2>2, <2>5 DEF Fine, PollerInv, PlaceInv
  <2> QED BY <2>3, <2>4, <2>6 DEF PendingInv, Fine
<1> QED BY <1>7, <1>8, <1>9

-----------------------------------------------------------------------------
(***************************************************************************)
(* A scan.                                                                 *)
(***************************************************************************)

\* A sound place joins sound positions.
LEMMA WithSound ==
  \A fs, m, f, c, ids :
    f \in Files /\ c \in Place /\ Sound(f, fs[f], c, ids) /\ SoundAll(fs, m, ids)
      => SoundAll(fs, With(m, f, c), ids)
PROOF
<1> SUFFICES ASSUME NEW fs, NEW m, NEW f \in Files, NEW c \in Place, NEW ids,
                    Sound(f, fs[f], c, ids), SoundAll(fs, m, ids)
             PROVE  SoundAll(fs, With(m, f, c), ids)
  OBVIOUS
<1> DEFINE D == DOMAIN m \cup {f}
           w == With(m, f, c)
<1>1. D \subseteq Files /\ \A g \in DOMAIN m : m[g] \in Place
  BY DEF SoundAll, Positions
<1>2. w \in [D -> Place] /\ DOMAIN w = D
  BY <1>1 DEF With
<1>3. w \in Positions
  BY <1>1, <1>2 DEF Positions
<1>4. ASSUME NEW g \in DOMAIN w PROVE Sound(g, fs[g], w[g], ids)
  <2>1. w[g] = IF g = f THEN c ELSE m[g]
    BY <1>2 DEF With
  <2> QED BY <1>2, <2>1 DEF SoundAll
<1> QED BY <1>3, <1>4 DEF SoundAll

\* The end of a file's visit: where the scan goes on, the new cursors it has
\* found are sound; where it is cut short, it is the old ones that are noted.
LEMMA VisitedStep ==
  ASSUME PollerInv, NEW f \in Files,
         UNCHANGED <<file, now, cancelled, known, seen, bus, stored>>
  PROVE  \A found : (~cancelled => SoundAll(file, found, Held)) /\ Visited(f, found)
           => PollerInv'
PROOF
<1> SUFFICES ASSUME NEW found, ~cancelled => SoundAll(file, found, Held), Visited(f, found)
             PROVE  PollerInv'
  OBVIOUS
<1> USE DEF PollerInv
<1>1. Held' = Held /\ StoredIds' = StoredIds /\ cursors' = cursors
  BY DEF Held, StoredIds, Visited
<1>2. WorldInv'
  BY DEF WorldInv, Visited
<1>3. JobInv' /\ SeenInv' /\ TimeInv'
  BY <1>1 DEF JobInv, SeenInv, TimeInv, Visited
<1>4. RowInv'
  BY <1>1 DEF RowInv
<1>5. SoundAll(file, live', Held)
  BY EmptySound DEF Visited
<1>6. PendingInv' /\ SoundAll(file, saved', StoredIds)
  <2>1. CASE cancelled
    <3>1. Note(cursors) /\ SoundAll(file, cursors, Held)
      BY <2>1 DEF Visited, PlaceInv
    <3> QED BY <3>1, NoteStep
  <2>2. CASE ~cancelled
    BY <2>2 DEF Visited, disk, PendingInv, PlaceInv
  <2> QED BY <2>1, <2>2
<1>7. PlaceInv'
  BY <1>1, <1>5, <1>6 DEF PlaceInv
<1> QED BY <1>2, <1>3, <1>4, <1>6, <1>7

\* So does a file that is gone or cannot be read.
LEMMA UnreadStep ==
  ASSUME PollerInv, NEW f \in Files, Gone(f) \/ Unread(f)
  PROVE  PollerInv'
PROOF
<1>1. UNCHANGED <<file, now, cancelled, known, seen, bus, stored>>
  BY DEF Gone, Unread, world
<1>2. SoundAll(file, live, Held) /\ SoundAll(file, cursors, Held)
  BY DEF PollerInv, PlaceInv
<1>3. CASE Gone(f)
  BY <1>1, <1>2, <1>3, VisitedStep DEF Gone
<1>4. CASE Unread(f)
  <2> DEFINE found == IF f \in DOMAIN cursors THEN With(live, f, cursors[f]) ELSE live
  <2>1. Visited(f, found)
    BY <1>4 DEF Unread
  <2>2. SoundAll(file, found, Held)
    <3>1. CASE f \in DOMAIN cursors
      <4>1. cursors[f] \in Place /\ Sound(f, file[f], cursors[f], Held)
        BY <1>2, <3>1 DEF SoundAll, Positions
      <4> QED BY <1>2, <3>1, <4>1, WithSound
    <3> QED BY <1>2, <3>1
  <2> HIDE DEF found
  <2> QED BY <1>1, <2>1, <2>2, VisitedStep
<1> QED BY <1>3, <1>4

\* So does the end of a file.
LEMMA ReadEndStep ==
  ASSUME PollerInv, NEW again \in BOOLEAN, ReadEnd(again)
  PROVE  PollerInv'
PROOF
<1> DEFINE c == [version |-> IF again THEN -1 ELSE job.version, offset |-> job.offset,
                 session |-> job.session, prompt |-> job.prompt]
           found == With(live, job.path, c)
<1>1. /\ UNCHANGED <<file, now, cancelled, known, seen, bus, stored>>
      /\ daemon = "read" /\ Visited(job.path, found)
  BY DEF ReadEnd, world
<1>2. job \in Job /\ Sound(job.path, file[job.path], job, Held \cup seen)
  BY <1>1 DEF PollerInv, JobInv
<1>3. job.path \in Files
  BY <1>2 DEF Job
<1>4. ~cancelled => SoundAll(file, found, Held)
  <2> SUFFICES ASSUME ~cancelled PROVE SoundAll(file, found, Held)
    OBVIOUS
  <2>1. Held \cup seen = Held /\ SoundAll(file, live, Held)
    BY DEF PollerInv, SeenInv, PlaceInv
  <2>2. /\ c \in Place /\ c.offset = job.offset /\ c.session = job.session
        /\ c.prompt = job.prompt
    <3>1. /\ job.version \in Int /\ job.offset \in Nat /\ job.session \in Nat
          /\ job.prompt \in BOOLEAN
      BY <1>2 DEF Job
    <3> QED BY <3>1 DEF Place
  <2> HIDE DEF c
  <2>3. Sound(job.path, file[job.path], c, Held)
    BY <1>2, <2>1, <2>2 DEF Sound
  <2> QED BY <1>3, <2>1, <2>2, <2>3, WithSound
<1> HIDE DEF found
<1> QED BY <1>1, <1>3, <1>4, VisitedStep

\* So does the end of a scan.
LEMMA ScanDoneStep == PollerInv /\ ScanDone => PollerInv'
PROOF
<1> SUFFICES ASSUME PollerInv, ScanDone PROVE PollerInv'
  OBVIOUS
<1> USE DEF PollerInv
<1>1. UNCHANGED <<file, now, cancelled, known, todo, job, bus, stored>>
  BY DEF ScanDone, world
<1>2. Held' = Held /\ StoredIds' = StoredIds
  BY <1>1 DEF Held, StoredIds
<1>3. WorldInv' /\ TimeInv'
  BY <1>1 DEF WorldInv, TimeInv, ScanDone
<1>4. RowInv'
  BY <1>1, <1>2 DEF RowInv
<1>5. JobInv' /\ SeenInv'
  BY <1>1, <1>2 DEF JobInv, SeenInv, ScanDone
<1>6. PendingInv' /\ SoundAll(file, saved', StoredIds)
  <2>1. Note(live) /\ SoundAll(file, live, Held)
    BY DEF ScanDone, PlaceInv
  <2> QED BY <1>1, <2>1, NoteStep
<1>7. PlaceInv'
  BY <1>1, <1>2, <1>6, EmptySound DEF PlaceInv, ScanDone
<1> QED BY <1>3, <1>4, <1>5, <1>6, <1>7

\* So does the opening of a file.
LEMMA OpenStep ==
  ASSUME PollerInv, NEW f \in Files, Open(f)
  PROVE  PollerInv'
PROOF
<1> USE DEF PollerInv
<1> DEFINE cur  == Cursor(f)
           from == IF Continues(f, cur) THEN cur ELSE Fresh
           t    == file[f]
<1>1. /\ UNCHANGED <<file, now, cancelled, known, cursors, todo, live, seen, bus, stored, disk>>
      /\ t.there /\ daemon' = "read"
      /\ job' = [path |-> f, version |-> t.version, offset |-> from.offset,
                 session |-> t.session, prompt |-> from.prompt, open |-> << >>]
  BY DEF Open, world
<1>2. Held' = Held /\ StoredIds' = StoredIds
  BY <1>1 DEF Held, StoredIds
<1>3. WorldInv' /\ TimeInv' /\ SeenInv' /\ PlaceInv'
  BY <1>1, <1>2 DEF WorldInv, TimeInv, SeenInv, PlaceInv, disk
<1>4. RowInv' /\ PendingInv'
  BY <1>1, <1>2 DEF RowInv, PendingInv, disk
<1>5. JobInv'
  <2>1. t \in Transcript /\ t.session \in Nat /\ t.version \in Int
    BY DEF WorldInv, Transcript
  <2>2. /\ from.offset \in Nat /\ from.prompt \in BOOLEAN
        /\ from.offset = 0 => ~from.prompt
        /\ from.offset > 0 =>
             /\ from.offset <= Len(t.lines)
             /\ from.prompt <=> t.lines[from.offset] = Prompt
             /\ \A i \in 1 .. from.offset :
                  t.lines[i] # Prompt => <<f, t.session, t.lines[i]>> \in Held
    <3>1. CASE Continues(f, cur) /\ f \in DOMAIN cursors
      <4>1. from = cursors[f]
        BY <3>1 DEF Cursor
      <4>2. cursors[f] \in Place /\ Sound(f, t, cursors[f], Held)
        BY <3>1 DEF PlaceInv, SoundAll, Positions
      <4>3. cursors[f].offset \in Nat /\ cursors[f].prompt \in BOOLEAN
        BY <4>2 DEF Place
      <4>4. cursors[f].offset > 0 => cursors[f].session = t.session
        BY <3>1 DEF Continues, Cursor
      <4> HIDE DEF from, t
      <4> QED BY <1>1, <4>1, <4>2, <4>3, <4>4 DEF Sound, Same
    <3>2. CASE ~(Continues(f, cur) /\ f \in DOMAIN cursors)
      <4>1. from = Fresh
        BY <3>2 DEF Cursor
      <4> HIDE DEF from
      <4> QED BY <4>1 DEF Fresh
    <3> QED BY <3>1, <3>2
  <2> HIDE DEF from, t
  <2>3. job' \in Job
    <3>1. << >> \in Seq(Seq(Nat))
      OBVIOUS
    <3> QED BY <1>1, <2>1, <2>2, <3>1 DEF Job
  <2>4. /\ job'.path = f /\ job'.session = t.session /\ job'.offset = from.offset
        /\ job'.prompt = from.prompt /\ job'.open = << >> /\ file'[f] = t
    BY <1>1 DEF t
  <2>5. Same(t, t.session)
    BY <1>1 DEF Same
  <2>6. Sound(f, t, job', Held' \cup seen')
    BY <1>1, <1>2, <2>1, <2>2, <2>4 DEF Sound
  <2> QED BY <2>3, <2>4, <2>5, <2>6 DEF JobInv
<1> QED BY <1>3, <1>4, <1>5

\* A row at the end of the bus.
LEMMA BusLonger ==
  \A rows, q, row, t :
    q \in Seq(Row) /\ row \in Row
      => /\ HeldBy(rows, q, t) \subseteq HeldBy(rows, Append(q, row), t)
         /\ row.at <= t => row.id \in HeldBy(rows, Append(q, row), t)
PROOF
<1> SUFFICES ASSUME NEW rows, NEW q \in Seq(Row), NEW row \in Row, NEW t
             PROVE  /\ HeldBy(rows, q, t) \subseteq HeldBy(rows, Append(q, row), t)
                    /\ row.at <= t => row.id \in HeldBy(rows, Append(q, row), t)
  OBVIOUS
<1> DEFINE b == Append(q, row)
<1>1. /\ \A i \in DOMAIN q : i \in DOMAIN b /\ b[i] = q[i]
      /\ Len(b) \in DOMAIN b /\ b[Len(b)] = row
  OBVIOUS
<1> HIDE DEF b
<1>2. HeldBy(rows, q, t) \subseteq HeldBy(rows, b, t)
  BY <1>1 DEF HeldBy
<1>3. row.at <= t => row.id \in HeldBy(rows, b, t)
  BY <1>1 DEF HeldBy
<1> QED BY <1>2, <1>3 DEF b

\* What the reader does with a turn it has not seen, whose transcript is there
\* and holds it after the lines read: the row it publishes says whether the
\* turn starts a user message, unless an earlier row of the turn is held.
LEMMA FirstIsRight ==
  ASSUME PollerInv, daemon = "read", job.offset < Len(Content),
         Content[job.offset + 1] # Prompt,
         <<job.path, job.session, Content[job.offset + 1]>> \notin seen
  PROVE  LET x == <<job.path, job.session, Content[job.offset + 1]>>
         IN  /\ Known(file, x)
             /\ x \in Held \/ Right(file, x, job.prompt)
PROOF
<1> DEFINE t    == file[job.path]
           line == Content[job.offset + 1]
           x    == <<job.path, job.session, line>>
<1>1. /\ job \in Job
      /\ job.open = << >> <=> Same(t, job.session)
      /\ Sound(job.path, t, job, Held \cup seen)
  BY DEF PollerInv, JobInv
<1>2. /\ job.path \in Files /\ job.session \in Nat /\ job.offset \in Nat
      /\ job.prompt \in BOOLEAN /\ job.open \in Seq(Seq(Nat))
      /\ t \in Transcript
  BY <1>1 DEF Job, PollerInv, WorldInv
<1>3. t.session \in Nat /\ t.lines \in Seq(Nat) /\ job.session <= t.session
  BY <1>1, <1>2 DEF Transcript, Sound
<1>4. Content \in Seq(Nat) /\ (Same(t, job.session) => Content = t.lines)
  BY <1>1, <1>2, <1>3 DEF Content
<1>5. line \in Nat /\ job.offset + 1 \in 1 .. Len(Content)
  <2>1. Len(Content) \in Nat
    BY <1>4
  <2>2. job.offset + 1 \in 1 .. Len(Content)
    BY <1>2, <2>1
  <2> QED BY <1>4, <2>2
<1>6. x \in Files \X Nat \X Nat /\ x[1] = job.path /\ x[2] = job.session /\ x[3] = line
  BY <1>2, <1>5
<1>7. CASE ~Same(t, job.session)
  BY <1>3, <1>6, <1>7 DEF Known, Right
<1>8. CASE Same(t, job.session)
  <2>1. /\ Content = t.lines /\ DOMAIN t.lines = 1 .. Len(t.lines) /\ Len(t.lines) \in Nat
        /\ job.offset + 1 \in 1 .. Len(t.lines) /\ t.lines[job.offset + 1] = line
    BY <1>3, <1>4, <1>5, <1>8
  <2>2. line \in Turns(t.lines)
    BY <2>1 DEF Turns
  <2>3. CASE \E i \in 1 .. job.offset : t.lines[i] = line
    <3>1. PICK i \in 1 .. job.offset : t.lines[i] = line
      BY <2>3
    <3>2. job.offset > 0
      BY <1>2, <3>1
    <3>3. x \in Held \cup seen
      BY <1>1, <1>8, <3>1, <3>2 DEF Sound
    <3> QED BY <1>3, <1>6, <2>2, <3>3 DEF Known
  <2>4. CASE ~\E i \in 1 .. job.offset : t.lines[i] = line
    <3>1. Starts(t.lines, line) <=> (job.offset > 0 /\ t.lines[job.offset] = Prompt)
      <4>1. ASSUME NEW i \in DOMAIN t.lines, t.lines[i] = line,
                   \A j \in 1 .. i - 1 : t.lines[j] # line
            PROVE  i = job.offset + 1
        <5> HIDE DEF t, line
        <5>1. i \in 1 .. Len(t.lines) /\ i \notin 1 .. job.offset
          BY <2>1, <2>4, <4>1
        <5>2. job.offset + 1 \notin 1 .. i - 1
          BY <2>1, <4>1
        <5> QED BY <1>2, <2>1, <5>1, <5>2
      <4>2. \A j \in 1 .. (job.offset + 1) - 1 : t.lines[j] # line
        BY <1>2, <2>4
      <4>3. (job.offset + 1) - 1 = job.offset /\ (job.offset + 1 > 1 <=> job.offset > 0)
        BY <1>2
      <4> HIDE DEF t, line
      <4> QED BY <2>1, <4>1, <4>2, <4>3 DEF Starts
    <3>2. job.prompt <=> (job.offset > 0 /\ t.lines[job.offset] = Prompt)
      BY <1>1, <1>2, <1>8 DEF Sound
    <3>3. job.prompt = Starts(t.lines, line)
      BY <1>2, <3>1, <3>2 DEF Starts
    <3> QED BY <1>3, <1>6, <2>2, <3>3 DEF Known, Right
  <2> QED BY <2>3, <2>4
<1> QED BY <1>7, <1>8

\* So does the reading of a line.
LEMMA ReadLineStep == PollerInv /\ ReadLine => PollerInv'
PROOF
<1> SUFFICES ASSUME PollerInv, ReadLine PROVE PollerInv'
  OBVIOUS
<1> USE DEF PollerInv
<1> DEFINE t    == file[job.path]
           line == Content[job.offset + 1]
           x    == <<job.path, job.session, line>>
           row  == [id |-> x, starts |-> job.prompt, at |-> now]
<1>1. /\ UNCHANGED <<file, now, daemon, cancelled, known, cursors, todo, live, stored, disk>>
      /\ daemon = "read" /\ job.offset < Len(Content)
  BY DEF ReadLine, world, process
<1>2. /\ job \in Job
      /\ job.open = << >> <=> Same(t, job.session)
      /\ Sound(job.path, t, job, Held \cup seen)
  BY <1>1 DEF JobInv
<1>3. /\ job.path \in Files /\ job.session \in Nat /\ job.offset \in Nat
      /\ job.prompt \in BOOLEAN /\ job.open \in Seq(Seq(Nat))
      /\ t \in Transcript /\ now \in Nat /\ bus \in Seq(Row)
  BY <1>2 DEF Job, WorldInv, RowInv
<1>4. Content \in Seq(Nat) /\ (Same(t, job.session) => Content = t.lines)
  <2>1. t.lines \in Seq(Nat)
    BY <1>3 DEF Transcript
  <2> QED BY <1>2, <1>3, <2>1 DEF Content
<1>5. line \in Nat
  BY <1>1, <1>3, <1>4
<1>6. row \in Row /\ row.id = x /\ row.starts = job.prompt /\ row.at = now
  BY <1>3, <1>5 DEF Row
<1>7. /\ StoredIds' = StoredIds
      /\ job' = [job EXCEPT !.offset = @ + 1, !.prompt = (line = Prompt)]
      /\ \/ bus' = bus
         \/ line # Prompt /\ x \notin seen /\ bus' = Append(bus, row)
      /\ \/ seen' = seen /\ (line = Prompt \/ x \in seen)
         \/ seen' = seen \cup {x} /\ (cancelled \/ x \in known \/ bus' = Append(bus, row))
  BY <1>1 DEF ReadLine, Visit, Publish, StoredIds
<1> HIDE DEF t, line, x, row
<1>8. \A s : HeldBy(stored, bus, s) \subseteq HeldBy(stored', bus', s)
  BY <1>1, <1>3, <1>6, <1>7, BusLonger
<1>9. Held \subseteq Held'
  BY <1>1, <1>8 DEF Held
<1>10. PlaceInv' /\ PendingInv'
  BY <1>1, <1>3, <1>7, <1>8, <1>9, PlacesStep
<1>11. SeenInv'
  <2>1. bus' = Append(bus, row) => x \in Held'
    <3>1. now <= now
      BY <1>3
    <3> QED BY <1>1, <1>3, <1>6, <3>1, BusLonger DEF Held
  <2>2. x \in known => x \in Held'
    BY <1>9 DEF SeenInv, Held, HeldBy, StoredIds
  <2> QED BY <1>1, <1>7, <1>9, <2>1, <2>2 DEF SeenInv
<1>12. WorldInv'
  BY <1>1 DEF WorldInv
<1>13. TimeInv'
  <2>1. CASE bus' = bus
    BY <1>1, <2>1 DEF TimeInv
  <2>2. CASE bus' = Append(bus, row)
    <3> SUFFICES ASSUME NEW i \in DOMAIN bus'
                 PROVE  bus'[i].at <= now /\ now - bus'[i].at < Lag
      BY <1>1 DEF TimeInv
    <3>1. (i \in DOMAIN bus /\ bus'[i] = bus[i]) \/ bus'[i] = row
      BY <1>3, <1>6, <2>2
    <3> QED BY <1>3, <1>6, <3>1, BoundsAssumption DEF TimeInv
  <2> QED BY <1>7, <2>1, <2>2
<1>14. RowInv'
  <2>1. CASE bus' = bus
    BY <1>1, <1>7, <2>1 DEF RowInv
  <2>2. CASE line # Prompt /\ x \notin seen /\ bus' = Append(bus, row)
    <3>1. Known(file, x) /\ (x \in Held \/ Right(file, x, job.prompt))
      BY <1>1, <2>2, FirstIsRight DEF x, line
    <3>2. /\ bus' \in Seq(Row) /\ Len(bus') = Len(bus) + 1 /\ Len(bus) \in Nat
          /\ DOMAIN bus = 1 .. Len(bus) /\ DOMAIN bus' = 1 .. Len(bus')
          /\ \A i \in 1 .. Len(bus) : bus'[i] = bus[i]
          /\ bus'[Len(bus) + 1] = row
      BY <1>3, <1>6, <2>2
    <3>3. ASSUME NEW i \in DOMAIN bus'
          PROVE  /\ Known(file, bus'[i].id)
                 /\ \/ bus'[i].id \in StoredIds
                    \/ \E j \in 1 .. i - 1 : bus'[j].id = bus'[i].id
                    \/ Right(file, bus'[i].id, bus'[i].starts)
      <4>1. CASE i \in DOMAIN bus
        <5>1. bus'[i] = bus[i] /\ \A j \in 1 .. i - 1 : bus'[j] = bus[j]
          BY <3>2, <4>1
        <5> QED BY <4>1, <5>1 DEF RowInv
      <4>2. CASE i \notin DOMAIN bus
        <5>1. i = Len(bus) + 1 /\ bus'[i] = row /\ i - 1 = Len(bus)
          BY <3>2, <4>2
        <5>2. CASE x \in Held
          <6>1. x \in StoredIds \/ \E j \in DOMAIN bus : bus[j].id = x
            BY <5>2 DEF Held, HeldBy, StoredIds
          <6> QED BY <1>6, <3>1, <3>2, <5>1, <6>1
        <5>3. CASE Right(file, x, job.prompt)
          BY <1>6, <3>1, <5>1, <5>3
        <5> QED BY <3>1, <5>2, <5>3
      <4> QED BY <4>1, <4>2
    <3> QED BY <1>1, <1>7, <3>2, <3>3 DEF RowInv
  <2> QED BY <1>7, <2>1, <2>2
<1>15. JobInv'
  <2>1. /\ job'.path = job.path /\ job'.session = job.session /\ job'.open = job.open
        /\ job'.offset = job.offset + 1 /\ job'.prompt = (line = Prompt)
    BY <1>2, <1>7 DEF Job
  <2>2. job' \in Job
    <3>1. job.offset + 1 \in Nat
      BY <1>3
    <3> QED BY <1>2, <1>7, <3>1 DEF Job
  <2>3. Sound(job.path, t, job', Held' \cup seen')
    <3>1. job.session <= t.session /\ job'.offset # 0
      BY <1>2, <1>3, <2>1 DEF Sound
    <3>2. ASSUME Same(t, job.session)
          PROVE  /\ job.offset + 1 <= Len(t.lines)
                 /\ job'.prompt <=> t.lines[job.offset + 1] = Prompt
                 /\ \A i \in 1 .. job.offset + 1 :
                      t.lines[i] # Prompt
                        => <<job.path, job.session, t.lines[i]>> \in Held' \cup seen'
      <4>1. Content = t.lines /\ line = t.lines[job.offset + 1] /\ Len(t.lines) \in Nat
        BY <1>4, <3>2 DEF line
      <4>2. ASSUME NEW i \in 1 .. job.offset + 1, t.lines[i] # Prompt
            PROVE  <<job.path, job.session, t.lines[i]>> \in Held' \cup seen'
        <5>1. CASE i = job.offset + 1
          <6>1. x \in seen'
            BY <1>7, <4>1, <4>2, <5>1
          <6> QED BY <4>1, <5>1, <6>1 DEF x
        <5>2. CASE i # job.offset + 1
          <6>1. i \in 1 .. job.offset /\ job.offset > 0
            BY <1>3, <5>2
          <6>2. <<job.path, job.session, t.lines[i]>> \in Held \cup seen
            BY <1>2, <3>2, <4>2, <6>1 DEF Sound
          <6> QED BY <1>7, <1>9, <6>2
        <5> QED BY <5>1, <5>2
      <4>3. job.offset + 1 <= Len(t.lines)
        BY <1>1, <1>3, <4>1
      <4>4. job'.prompt <=> t.lines[job.offset + 1] = Prompt
        BY <2>1, <4>1
      <4> QED BY <4>2, <4>3, <4>4
    <3> QED BY <2>1, <3>1, <3>2 DEF Sound
  <2> QED BY <1>1, <1>2, <2>1, <2>2, <2>3 DEF JobInv, Same, t
<1> QED BY <1>10, <1>11, <1>12, <1>13, <1>14, <1>15

-----------------------------------------------------------------------------
(***************************************************************************)
(* The theorems.                                                           *)
(***************************************************************************)

\* Every step keeps the invariant, one lemma per group of actions.
LEMMA PollerStep == BusInTime /\ PollerInv /\ [Next]_vars => PollerInv'
PROOF
<1> SUFFICES ASSUME BusInTime, PollerInv, [Next]_vars PROVE PollerInv'
  OBVIOUS
<1>1. CASE Writer
  BY <1>1, WriterStep DEF Writer
<1>2. CASE Tick \/ Commit \/ Start
  BY <1>2, TickStep, CommitStep, StartStep
<1>3. CASE Crash \/ Exit
  BY <1>3, DieStep DEF Crash, Exit
<1>4. CASE Cancel \/ Stop \/ ScanStart
  BY <1>4, IdleStep
<1>5. CASE ReadLine \/ ScanDone
  BY <1>5, ReadLineStep, ScanDoneStep
<1>6. ASSUME NEW f \in Files, Gone(f) \/ Unread(f) \/ Open(f) PROVE PollerInv'
  BY <1>6, UnreadStep, OpenStep
<1>7. ASSUME NEW again \in BOOLEAN, ReadEnd(again) PROVE PollerInv'
  BY <1>7, ReadEndStep
<1>8. CASE UNCHANGED vars
  <2>1. Held' = Held /\ StoredIds' = StoredIds
    BY <1>8 DEF vars, Held, StoredIds
  <2>2. WorldInv' /\ JobInv' /\ SeenInv' /\ TimeInv' /\ PlaceInv'
    BY <1>8, <2>1 DEF vars, PollerInv, WorldInv, JobInv, SeenInv, TimeInv, PlaceInv
  <2>3. RowInv' /\ PendingInv'
    BY <1>8, <2>1 DEF vars, PollerInv, RowInv, PendingInv
  <2> QED BY <2>2, <2>3 DEF PollerInv
<1> QED
  BY <1>1, <1>2, <1>3, <1>4, <1>5, <1>6, <1>7, <1>8 DEF Next, Poller

\* A sound place is past no turn but those.
LEMMA PassedSound ==
  ASSUME WorldInv
  PROVE  \A f \in Files, cur \in Place : \A ids :
           Sound(f, file[f], cur, ids) => Passed(f, cur) \subseteq ids
PROOF
<1> SUFFICES ASSUME NEW f \in Files, NEW cur \in Place, NEW ids,
                    Sound(f, file[f], cur, ids), NEW x \in Passed(f, cur)
             PROVE  x \in ids
  OBVIOUS
<1> DEFINE lines == file[f].lines
           read  == SubSeq(lines, 1, cur.offset)
<1>1. /\ file[f].there /\ file[f].session = cur.session
      /\ cur.offset \in 1 .. Len(lines)
      /\ \E k \in Turns(read) : x = <<f, cur.session, k>>
  BY DEF Passed
<1>2. PICK k \in Turns(read) : x = <<f, cur.session, k>>
  BY <1>1
<1>3. lines \in Seq(Nat)
  BY DEF WorldInv, Transcript
<1>4. DOMAIN read = 1 .. cur.offset /\ \A i \in 1 .. cur.offset : read[i] = lines[i]
  BY <1>1, <1>3
<1> HIDE DEF read
<1>5. PICK i \in 1 .. cur.offset : lines[i] = k /\ k # Prompt
  BY <1>2, <1>4 DEF Turns
<1>6. cur.offset > 0
  BY <1>1
<1> QED BY <1>1, <1>2, <1>5, <1>6 DEF Sound, Same

\* jsonltail.Checkpointer: "saving cursors past events not yet stored would
\* skip them for good". As long as the bus stores what it holds within Lag, no
\* checkpoint file is ever past a turn that is not in the store, whatever is
\* replaced, fails to be read, crashes or is shut down.
THEOREM CheckpointSafe == BusInTime => (Spec => []CheckpointBehindStore)
PROOF
<1>1. PollerInv => CheckpointBehindStore
  <2> SUFFICES ASSUME PollerInv, NEW f \in DOMAIN saved
               PROVE  Passed(f, saved[f]) \subseteq StoredIds
    BY DEF CheckpointBehindStore
  <2>1. f \in Files /\ saved[f] \in Place /\ Sound(f, file[f], saved[f], StoredIds)
    BY DEF PollerInv, PlaceInv, SoundAll, Positions
  <2> QED BY <2>1, PassedSound DEF PollerInv
<1>2. SUFFICES ASSUME BusInTime PROVE Spec => []CheckpointBehindStore
  OBVIOUS
<1>3. PollerInv /\ [Next]_vars => PollerInv'
  BY <1>2, PollerStep
<1> QED BY <1>1, <1>3, PollerInit, PTL DEF Spec

\* Poller.scan, Tail.Scan: a running scanner's cursors are never past a turn
\* whose row is neither stored nor on the bus, although a shutdown may have the
\* bus refuse rows in the middle of a scan and a restart starts from what the
\* checkpoint held.
THEOREM CursorsSafe == BusInTime => (Spec => []CursorBehindBus)
PROOF
<1>1. PollerInv => CursorBehindBus
  <2> SUFFICES ASSUME PollerInv, NEW f \in DOMAIN cursors
               PROVE  Passed(f, cursors[f])
                        \subseteq StoredIds \cup {bus[i].id : i \in DOMAIN bus}
    BY DEF CursorBehindBus
  <2>1. f \in Files /\ cursors[f] \in Place /\ Sound(f, file[f], cursors[f], Held)
    BY DEF PollerInv, PlaceInv, SoundAll, Positions
  <2>2. Held \subseteq StoredIds \cup {bus[i].id : i \in DOMAIN bus}
    BY DEF Held, HeldBy, StoredIds
  <2>3. Passed(f, cursors[f]) \subseteq Held
    BY <2>1, PassedSound DEF PollerInv
  <2> QED BY <2>2, <2>3
<1>2. SUFFICES ASSUME BusInTime PROVE Spec => []CursorBehindBus
  OBVIOUS
<1>3. PollerInv /\ [Next]_vars => PollerInv'
  BY <1>2, PollerStep
<1> QED BY <1>1, <1>3, PollerInit, PTL DEF Spec

\* claudecodejsonl: "starts_user_message" of a stored row is what reading its
\* transcript in one go gives, however scans, restarts and evictions from seen
\* have cut the reading up: the state a cursor carries and the store's leaving
\* alone of an id it has agree.
THEOREM StoredFaithful == BusInTime => (Spec => []StoredAsWritten)
PROOF
<1>1. PollerInv => StoredAsWritten
  BY DEF PollerInv, RowInv, StoredAsWritten, Right, Same
<1>2. SUFFICES ASSUME BusInTime PROVE Spec => []StoredAsWritten
  OBVIOUS
<1>3. PollerInv /\ [Next]_vars => PollerInv'
  BY <1>2, PollerStep
<1> QED BY <1>1, <1>3, PollerInit, PTL DEF Spec
=============================================================================
