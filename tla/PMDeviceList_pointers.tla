----------------------- MODULE PMDeviceList_pointers -----------------------
(***************************************************************************)
(* While additions and removals of devices do not overlap, no thread uses  *)
(* a device whose memory was freed, a name is on its list once, and a rest *)
(* leaves nothing behind: for every number of blocks, names, classes and   *)
(* threads, and relationships of any depth.                                *)
(*                                                                         *)
(* The invariant, Tidy, needs an age of every device: a list has the       *)
(* younger before the older, and a child is younger than its parent.  So   *)
(* what is removed below a walk over the children of a device is younger   *)
(* than the device that the walk remembers.  No variable holds the age; it *)
(* is enough that there is one.  A step keeps the ages, except that a new  *)
(* block becomes the youngest.                                             *)
(***************************************************************************)
EXTENDS PMDeviceList_proofs

Changer == Pnp \cup Client
OneBusy == \A t, u \in Changer : stack[t] # <<>> /\ stack[u] # <<>> => t = u

(* What a frame removes, and what it has yet to take off its list. *)
Removal == {"remove", "unlink", "orphan", "walk", "drop", "destroy"}
Targets(f, b) ==
    \/ f.pc = "remove" /\ b \in Listed /\ name[b] = f.name
    \/ f.pc \in {"unlink", "orphan", "walk"} /\ f.dev = b
Removing(f, b) == f.pc \in {"remove", "unlink"} /\ Targets(f, b)

(* A walk has not come to a device yet. *)
ToCome(w, b, age) ==
    \/ \E k \in DOMAIN Class : k > w.class /\ Class[k] = ClassOf[name[b]]
    \/ w.cur # NoBlock /\ ClassOf[name[b]] = Class[w.class] /\ age[b] <= age[w.cur]

(* A frame by itself. *)
Settled(f) ==
    /\ f.pc # "walk" => f.cur = NoBlock
    /\ f.pc = "registered" => f.dev = NoBlock
    /\ f.pc \in {"remove", "unlink", "orphan"} => f.class = 0
    /\ f.pc \in {"register", "parent"} => f.of \in ParentNames
    /\ f.pc = "walk" /\ f.cur # NoBlock =>
         /\ f.cur \in Listed /\ f.class \in DOMAIN Class
         /\ ClassOf[name[f.cur]] = Class[f.class]

(* A frame above a walk removes what is younger than the walk's next device. *)
Above(f, w, age) ==
    w.pc = "walk" =>
        /\ f.pc \in Removal
        /\ w.cur # NoBlock => \A b \in Block : Targets(f, b) => age[b] > age[w.cur]

(* The children that a walk looks for are still to come, or one is being   *)
(* removed by the frame that the walk has called.                          *)
Reaches(f, w, age) ==
    w.pc = "walk" =>
        \A c \in Listed : parent[c] = w.dev => ToCome(w, c, age) \/ Removing(f, c)

(* The running frame. *)
Running(f, age) ==
    /\ f.pc \in {"probe", "discard", "unlink", "release"} => f.dev \in Listed
    /\ f.pc \in {"probe", "discard"} => \A c \in alive : parent[c] # f.dev
    /\ f.pc = "add" /\ f.parent # NoBlock => f.parent \in Listed /\ name[f.parent] \in ParentNames
    /\ f.pc = "insert" =>
         /\ parent[f.dev] \in Listed \cup {NoBlock}
         /\ \A c \in Listed : name[c] # name[f.dev] /\ age[c] < age[f.dev]
    /\ f.pc = "walk" => \A c \in Listed : parent[c] = f.dev => ToCome(f, c, age)

Frames(s, age) ==
    /\ \A i \in DOMAIN s : Settled(s[i])
    /\ \A i, j \in DOMAIN s : i < j => Above(s[i], s[j], age)
    /\ \A i \in DOMAIN s : i > 1 => Reaches(s[i - 1], s[i], age)
StackGood(s, age) == Frames(s, age) /\ (s # <<>> => Running(Head(s), age))

(* A child whose parent left its list is going to be removed. *)
Cleans(s, b) == \E i \in DOMAIN s : s[i].pc \in {"orphan", "walk"} /\ s[i].dev = b
NoOrphan ==
    \A c \in Listed : \/ parent[c] \in Listed \cup {NoBlock}
                      \/ \E t \in Changer : Cleans(stack[t], parent[c])

Family(age) ==
    /\ \A c \in Classes : \A i, j \in DOMAIN list[c] : i < j => age[list[c][i]] > age[list[c][j]]
    /\ \A c \in alive : parent[c] # NoBlock =>
         age[parent[c]] < age[c] /\ name[parent[c]] \in ParentNames
    /\ \A b, c \in Listed : name[b] = name[c] => b = c

Orderly(age) == Family(age) /\ NoOrphan /\ \A t \in Changer : StackGood(stack[t], age)

(* Readers neither add nor remove. *)
Plain ==
    \A t \in Reader : \A i \in DOMAIN stack[t] :
        /\ stack[t][i].cur = NoBlock
        /\ stack[t][i].pc \in {"class", "update", "driver", "drop", "destroy"}

InTurn == ~ overlap => OneBusy /\ \E n \in Nat : \E age \in [Block -> 0 .. n] : Orderly(age)
Tidy == Core /\ Plain /\ InTurn

-----------------------------------------------------------------------------
(***************************************************************************)
(* Stacks of frames of a thread that changes the lists.                    *)
(***************************************************************************)
Joins(f, q, age) ==
    /\ Settled(f)
    /\ \A j \in DOMAIN q : Above(f, q[j], age)
    /\ q # <<>> => Reaches(f, q[1], age)

LEMMA FramesSplit ==
    ASSUME NEW f \in FrameType, NEW q \in Seq(FrameType), NEW age, Frames(<<f>> \o q, age)
    PROVE  Joins(f, q, age) /\ Frames(q, age)
<1> DEFINE s == <<f>> \o q
<1>1. /\ s[1] = f /\ DOMAIN s = 1 .. Len(q) + 1 /\ DOMAIN q = 1 .. Len(q) /\ Len(q) \in Nat
      /\ \A i \in 1 .. Len(q) : s[i + 1] = q[i] /\ i + 1 \in DOMAIN s
  <2>1. /\ s \in Seq(FrameType) /\ Len(s) = Len(q) + 1 /\ s[1] = f
        /\ \A i \in 1 .. Len(q) : s[i + 1] = q[i]
    BY PushedAt
  <2>2. DOMAIN s = 1 .. Len(s) /\ DOMAIN q = 1 .. Len(q) /\ Len(q) \in Nat
    BY <2>1, LenProperties
  <2> HIDE DEF s
  <2> QED BY <2>1, <2>2
<1>2. /\ \A i \in DOMAIN s : Settled(s[i])
      /\ \A i, j \in DOMAIN s : i < j => Above(s[i], s[j], age)
      /\ \A i \in DOMAIN s : i > 1 => Reaches(s[i - 1], s[i], age)
  BY DEF Frames
<1> HIDE DEF s
<1>3. Settled(f) /\ \A i \in DOMAIN q : Settled(q[i])
  <2>1. 1 \in DOMAIN s
    BY <1>1
  <2> QED BY <1>1, <1>2, <2>1
<1>4. \A j \in DOMAIN q : Above(f, q[j], age)
  <2> SUFFICES ASSUME NEW j \in DOMAIN q PROVE Above(f, q[j], age)
    OBVIOUS
  <2>1. 1 \in DOMAIN s /\ j + 1 \in DOMAIN s /\ 1 < j + 1 /\ s[j + 1] = q[j]
    BY <1>1
  <2>2. Above(s[1], s[j + 1], age)
    BY <1>2, <2>1
  <2> QED BY <1>1, <2>1, <2>2
<1>5. \A i, j \in DOMAIN q : i < j => Above(q[i], q[j], age)
  <2> SUFFICES ASSUME NEW i \in DOMAIN q, NEW j \in DOMAIN q, i < j PROVE Above(q[i], q[j], age)
    OBVIOUS
  <2>1. i + 1 \in DOMAIN s /\ j + 1 \in DOMAIN s /\ i + 1 < j + 1
        /\ s[i + 1] = q[i] /\ s[j + 1] = q[j]
    BY <1>1
  <2>2. Above(s[i + 1], s[j + 1], age)
    BY <1>2, <2>1
  <2> QED BY <2>1, <2>2
<1>6. \A i \in DOMAIN q : i > 1 => Reaches(q[i - 1], q[i], age)
  <2> SUFFICES ASSUME NEW i \in DOMAIN q, i > 1 PROVE Reaches(q[i - 1], q[i], age)
    OBVIOUS
  <2>1. i - 1 \in 1 .. Len(q) /\ (i - 1) + 1 = i /\ i + 1 \in DOMAIN s /\ i + 1 > 1 /\ (i + 1) - 1 = i
    BY <1>1
  <2>2. s[i] = q[i - 1] /\ s[i + 1] = q[i]
    BY <1>1, <2>1
  <2>3. Reaches(s[(i + 1) - 1], s[i + 1], age)
    BY <1>2, <2>1
  <2> QED BY <2>1, <2>2, <2>3
<1>7. q # <<>> => Reaches(f, q[1], age)
  <2> SUFFICES ASSUME q # <<>> PROVE Reaches(f, q[1], age)
    OBVIOUS
  <2>1. 1 \in 1 .. Len(q)
    BY <1>1, EmptySeq
  <2>2. s[2] = q[1] /\ 2 \in DOMAIN s
    BY <1>1, <2>1
  <2>3. Reaches(s[2 - 1], s[2], age)
    BY <1>2, <2>2
  <2> QED BY <1>1, <2>2, <2>3
<1> QED BY <1>3, <1>4, <1>5, <1>6, <1>7 DEF Joins, Frames

LEMMA FramesJoin ==
    ASSUME NEW f \in FrameType, NEW q \in Seq(FrameType), NEW age,
           Joins(f, q, age)', Frames(q, age)'
    PROVE  Frames(<<f>> \o q, age)'
<1> DEFINE s == <<f>> \o q
<1>1. /\ s[1] = f /\ DOMAIN s = 1 .. Len(q) + 1 /\ DOMAIN q = 1 .. Len(q) /\ Len(q) \in Nat
      /\ \A i \in 2 .. Len(q) + 1 : s[i] = q[i - 1] /\ i - 1 \in DOMAIN q
  <2>1. /\ s \in Seq(FrameType) /\ Len(s) = Len(q) + 1 /\ s[1] = f
        /\ \A i \in 2 .. Len(q) + 1 : s[i] = q[i - 1]
    BY PushedAt
  <2>2. DOMAIN s = 1 .. Len(s) /\ DOMAIN q = 1 .. Len(q) /\ Len(q) \in Nat
    BY <2>1, LenProperties
  <2> HIDE DEF s
  <2> QED BY <2>1, <2>2
<1>2. /\ Settled(f)' /\ \A i \in DOMAIN q : Settled(q[i])'
      /\ \A j \in DOMAIN q : Above(f, q[j], age)'
      /\ \A i, j \in DOMAIN q : i < j => Above(q[i], q[j], age)'
      /\ q # <<>> => Reaches(f, q[1], age)'
      /\ \A i \in DOMAIN q : i > 1 => Reaches(q[i - 1], q[i], age)'
  BY DEF Frames, Joins
<1> HIDE DEF s
<1>3. ASSUME NEW i \in DOMAIN s PROVE Settled(s[i])'
  <2>1. CASE i = 1
    BY <1>1, <1>2, <2>1
  <2>2. CASE i # 1
    <3>1. s[i] = q[i - 1] /\ i - 1 \in DOMAIN q
      BY <1>1, <2>2
    <3> QED BY <1>2, <3>1
  <2> QED BY <2>1, <2>2
<1>4. ASSUME NEW i \in DOMAIN s, NEW j \in DOMAIN s, i < j PROVE Above(s[i], s[j], age)'
  <2>1. s[j] = q[j - 1] /\ j - 1 \in DOMAIN q
    BY <1>1, <1>4
  <2>2. CASE i = 1
    BY <1>1, <1>2, <2>1, <2>2
  <2>3. CASE i # 1
    <3>1. s[i] = q[i - 1] /\ i - 1 \in DOMAIN q /\ i - 1 < j - 1
      BY <1>1, <1>4, <2>3
    <3> QED BY <1>2, <2>1, <3>1
  <2> QED BY <2>2, <2>3
<1>5. ASSUME NEW i \in DOMAIN s, i > 1 PROVE Reaches(s[i - 1], s[i], age)'
  <2>1. s[i] = q[i - 1] /\ i - 1 \in DOMAIN q /\ i \in Nat
    BY <1>1, <1>5
  <2>2. CASE i = 2
    <3>1. i - 1 = 1 /\ q # <<>>
      BY <1>1, <2>1, <2>2, EmptySeq
    <3> QED BY <1>1, <1>2, <2>1, <3>1
  <2>3. CASE i # 2
    <3>1. i - 1 \in 2 .. Len(q) + 1 /\ i - 1 > 1
      BY <1>1, <1>5, <2>1, <2>3
    <3>2. s[i - 1] = q[(i - 1) - 1]
      BY <1>1, <3>1
    <3> QED BY <1>2, <2>1, <3>1, <3>2
  <2> QED BY <2>2, <2>3
<1>6. Frames(s, age)'
  BY <1>3, <1>4, <1>5 DEF Frames
<1> QED BY <1>6 DEF s

-----------------------------------------------------------------------------
(***************************************************************************)
(* Steps after which lists are no longer than before.                      *)
(***************************************************************************)
Cleaner(f, b) == f.pc \in {"orphan", "walk"} /\ f.dev = b

LEMMA CleansSplit ==
    ASSUME NEW f \in FrameType, NEW q \in Seq(FrameType), NEW b
    PROVE  Cleans(<<f>> \o q, b) <=> Cleaner(f, b) \/ Cleans(q, b)
<1> DEFINE s == <<f>> \o q
<1>1. /\ s[1] = f /\ DOMAIN s = 1 .. Len(q) + 1 /\ DOMAIN q = 1 .. Len(q) /\ Len(q) \in Nat
      /\ \A i \in 1 .. Len(q) : s[i + 1] = q[i] /\ i + 1 \in DOMAIN s
      /\ \A i \in 2 .. Len(q) + 1 : s[i] = q[i - 1] /\ i - 1 \in DOMAIN q
  <2>1. /\ s \in Seq(FrameType) /\ Len(s) = Len(q) + 1 /\ s[1] = f
        /\ \A i \in 1 .. Len(q) : s[i + 1] = q[i]
        /\ \A i \in 2 .. Len(q) + 1 : s[i] = q[i - 1]
    BY PushedAt
  <2>2. DOMAIN s = 1 .. Len(s) /\ DOMAIN q = 1 .. Len(q) /\ Len(q) \in Nat
    BY <2>1, LenProperties
  <2> HIDE DEF s
  <2> QED BY <2>1, <2>2
<1> HIDE DEF s
<1>2. ASSUME Cleans(s, b) PROVE Cleaner(f, b) \/ Cleans(q, b)
  <2>1. PICK i \in DOMAIN s : s[i].pc \in {"orphan", "walk"} /\ s[i].dev = b
    BY <1>2 DEF Cleans
  <2>2. CASE i = 1
    BY <1>1, <2>1, <2>2 DEF Cleaner
  <2>3. CASE i # 1
    <3>1. i \in 2 .. Len(q) + 1
      BY <1>1, <2>3
    <3> QED BY <1>1, <2>1, <3>1 DEF Cleans
  <2> QED BY <2>2, <2>3
<1>3. ASSUME Cleaner(f, b) PROVE Cleans(s, b)
  <2>1. 1 \in DOMAIN s
    BY <1>1
  <2> QED BY <1>1, <1>3, <2>1 DEF Cleaner, Cleans
<1>4. ASSUME Cleans(q, b) PROVE Cleans(s, b)
  <2>1. PICK i \in DOMAIN q : q[i].pc \in {"orphan", "walk"} /\ q[i].dev = b
    BY <1>4 DEF Cleans
  <2> QED BY <1>1, <2>1 DEF Cleans
<1>5. Cleans(s, b) <=> Cleaner(f, b) \/ Cleans(q, b)
  BY <1>2, <1>3, <1>4
<1> QED BY <1>5 DEF s

-----------------------------------------------------------------------------
(***************************************************************************)
(* Steps that add nothing: lists, allocated blocks and parents get fewer.  *)
(***************************************************************************)
Fewer ==
    /\ Listed' \subseteq Listed /\ alive' \subseteq alive /\ UNCHANGED name
    /\ \A c \in Block : parent'[c] \in {parent[c], NoBlock}

LEMMA FewerTargets ==
    ASSUME Fewer, NEW f, NEW b, Targets(f, b)'
    PROVE  Targets(f, b)
BY DEF Fewer, Targets

LEMMA FewerRemoving ==
    ASSUME Fewer, NEW f, NEW c \in Listed', Removing(f, c)
    PROVE  Removing(f, c)'
BY DEF Fewer, Targets, Removing

LEMMA FewerAbove ==
    ASSUME Fewer, NEW f, NEW w, NEW age, Above(f, w, age),
           NEW g, f.pc \in Removal => g.pc \in Removal,
           \A b \in Block : Targets(g, b)' => Targets(f, b)
    PROVE  Above(g, w, age)'
BY DEF Above

LEMMA FewerReaches ==
    ASSUME Fewer, TypeOK, NEW f, NEW w, w.pc = "walk" => w.dev \in Block,
           NEW age, Reaches(f, w, age),
           NEW g, \A c \in Listed' : Removing(f, c) => Removing(g, c)'
    PROVE  Reaches(g, w, age)'
<1> SUFFICES ASSUME w.pc = "walk", NEW c \in Listed', parent'[c] = w.dev
             PROVE  ToCome(w, c, age)' \/ Removing(g, c)'
  BY DEF Reaches
<1>1. c \in Listed /\ c \in Block /\ w.dev \in Block /\ w.dev # NoBlock
  BY ListedBlocks, BlockAssumption DEF Fewer
<1>2. parent[c] = w.dev
  BY <1>1 DEF Fewer
<1>3. ToCome(w, c, age) \/ Removing(f, c)
  BY <1>1, <1>2 DEF Reaches
<1>4. ToCome(w, c, age) => ToCome(w, c, age)'
  BY DEF ToCome, Fewer
<1> QED BY <1>3, <1>4

LEMMA FewerSettled ==
    ASSUME Fewer, NEW f, Settled(f), f.pc = "walk" /\ f.cur # NoBlock => f.cur \in Listed'
    PROVE  Settled(f)'
BY DEF Fewer, Settled

LEMMA WalkDev ==
    ASSUME NEW q, Sound(q), NEW i \in DOMAIN q, q[i].pc = "walk"
    PROVE  q[i].dev \in Block
BY DEF Sound, FrameOK

LEMMA FewerFrames ==
    ASSUME Fewer, TypeOK, NEW q, Sound(q), NEW age, Frames(q, age),
           \A j \in DOMAIN q : q[j].pc = "walk" /\ q[j].cur # NoBlock => q[j].cur \in Listed'
    PROVE  Frames(q, age)'
<1>1. \A i \in DOMAIN q : Settled(q[i])'
  BY FewerSettled DEF Frames
<1>2. ASSUME NEW i \in DOMAIN q, NEW j \in DOMAIN q, i < j PROVE Above(q[i], q[j], age)'
  <2>1. Above(q[i], q[j], age)
    BY <1>2 DEF Frames
  <2>2. \A b \in Block : Targets(q[i], b)' => Targets(q[i], b)
    BY FewerTargets
  <2> QED BY <2>1, <2>2, FewerAbove
<1>3. ASSUME NEW i \in DOMAIN q, i > 1 PROVE Reaches(q[i - 1], q[i], age)'
  <2>1. Reaches(q[i - 1], q[i], age)
    BY <1>3 DEF Frames
  <2>2. \A c \in Listed' : Removing(q[i - 1], c) => Removing(q[i - 1], c)'
    BY FewerRemoving
  <2>3. q[i].pc = "walk" => q[i].dev \in Block
    BY WalkDev
  <2> QED BY <2>1, <2>2, <2>3, FewerReaches
<1> QED BY <1>1, <1>2, <1>3 DEF Frames

LEMMA FewerJoins ==
    ASSUME Fewer, TypeOK, NEW q, Sound(q), NEW f, NEW age, Joins(f, q, age),
           NEW g, Settled(g)', f.pc \in Removal => g.pc \in Removal,
           \A b \in Block : Targets(g, b)' => Targets(f, b),
           \A c \in Listed' : Removing(f, c) => Removing(g, c)'
    PROVE  Joins(g, q, age)'
<1>1. \A j \in DOMAIN q : Above(g, q[j], age)'
  BY FewerAbove DEF Joins
<1>2. ASSUME q # <<>> PROVE Reaches(g, q[1], age)'
  <2>1. 1 \in DOMAIN q
    BY <1>2, EmptySeq, LenProperties DEF Sound
  <2>2. q[1].pc = "walk" => q[1].dev \in Block
    BY <2>1, WalkDev
  <2>3. Reaches(f, q[1], age)
    BY <1>2 DEF Joins
  <2> QED BY <2>2, <2>3, FewerReaches
<1> QED BY <1>1, <1>2 DEF Joins

(* When a frame returns, the one below it runs. *)
LEMMA FewerReturn ==
    ASSUME Fewer, TypeOK, NEW q, Sound(q), q # <<>>, NEW f, NEW age, Joins(f, q, age),
           \A c \in Listed' : ~ Removing(f, c)
    PROVE  Running(q[1], age)'
<1>1. 1 \in DOMAIN q
  BY EmptySeq, LenProperties DEF Sound
<1>2. q[1].pc \in Below /\ (q[1].pc = "walk" => q[1].dev \in Block)
  BY <1>1, WalkDev DEF Sound
<1>3. Reaches(f, q[1], age)'
  <2>1. Reaches(f, q[1], age)
    BY DEF Joins
  <2> QED BY <1>2, <2>1, FewerReaches
<1>4. ASSUME q[1].pc = "walk", NEW c \in Listed', parent'[c] = q[1].dev
      PROVE  ToCome(q[1], c, age)'
  <2>1. ToCome(q[1], c, age)' \/ Removing(f, c)'
    BY <1>3, <1>4 DEF Reaches
  <2>2. Removing(f, c)' => Removing(f, c)
    BY DEF Fewer, Removing, Targets
  <2> QED BY <2>1, <2>2
<1> QED BY <1>2, <1>4 DEF Running, Below

(* The frame that runs meanwhile in another thread. *)
LEMMA FewerRunning ==
    ASSUME Fewer, TypeOK, NEW f, FrameOK(f), NEW age, Running(f, age), Listed' = Listed
    PROVE  Running(f, age)'
<1>1. f.pc \in {"probe", "discard"} => \A c \in alive' : parent'[c] # f.dev
  <2> SUFFICES ASSUME f.pc \in {"probe", "discard"}, NEW c \in alive', parent'[c] = f.dev
               PROVE  FALSE
    OBVIOUS
  <2>1. f.dev \in Block /\ f.dev # NoBlock /\ c \in alive /\ c \in Block
    BY BlockAssumption DEF FrameOK, Fewer, TypeOK
  <2>2. parent[c] = f.dev
    BY <2>1 DEF Fewer
  <2> QED BY <2>1, <2>2 DEF Running
<1>2. f.pc = "insert" => parent'[f.dev] \in Listed' \cup {NoBlock}
  BY DEF FrameOK, Fewer, Running
<1>3. f.pc = "walk" => \A c \in Listed' : parent'[c] = f.dev => ToCome(f, c, age)'
  <2> SUFFICES ASSUME f.pc = "walk", NEW c \in Listed, parent'[c] = f.dev
               PROVE  ToCome(f, c, age)'
    OBVIOUS
  <2>1. f.dev \in Block /\ f.dev # NoBlock /\ c \in Block
    BY BlockAssumption, ListedBlocks DEF FrameOK
  <2>2. parent[c] = f.dev
    BY <2>1 DEF Fewer
  <2>3. ToCome(f, c, age)
    BY <2>2 DEF Running
  <2> QED BY <2>3 DEF ToCome, Fewer
<1> QED BY <1>1, <1>2, <1>3 DEF Running, Fewer

LEMMA FewerFamily ==
    ASSUME Fewer, TypeOK, NEW age, Family(age),
           \A c \in Classes : \A i, j \in DOMAIN list'[c] :
              i < j => age[list'[c][i]] > age[list'[c][j]]
    PROVE  Family(age)'
<1>1. \A c \in alive' : parent'[c] # NoBlock =>
        age[parent'[c]] < age[c] /\ name'[parent'[c]] \in ParentNames
  <2> SUFFICES ASSUME NEW c \in alive', parent'[c] # NoBlock
               PROVE  age[parent'[c]] < age[c] /\ name'[parent'[c]] \in ParentNames
    OBVIOUS
  <2>1. c \in alive /\ c \in Block
    BY DEF Fewer, TypeOK
  <2>2. parent'[c] = parent[c]
    BY <2>1 DEF Fewer
  <2> QED BY <2>1, <2>2 DEF Family, Fewer
<1> QED BY <1>1 DEF Family, Fewer

(***************************************************************************)
(* Stacks without a walk, whatever happens to the lists.                   *)
(***************************************************************************)
Lonely(q) == q \in Seq(FrameType) /\ \A i \in DOMAIN q : q[i].pc # "walk"

LEMMA LonelyUnder ==
    ASSUME NEW q \in Seq(FrameType), NEW f, f.pc \notin Removal, NEW age, Joins(f, q, age)
    PROVE  Lonely(q)
BY DEF Lonely, Joins, Above

LEMMA LonelyFrames ==
    ASSUME NEW q, Lonely(q), NEW age, Frames(q, age), NEW elder
    PROVE  Frames(q, elder)'
BY DEF Lonely, Frames, Settled, Above, Reaches

LEMMA LonelyJoins ==
    ASSUME NEW q, Lonely(q), NEW g, Settled(g)', NEW age
    PROVE  Joins(g, q, age)'
<1>1. q # <<>> => 1 \in DOMAIN q
  BY EmptySeq, LenProperties DEF Lonely
<1> QED BY <1>1 DEF Lonely, Joins, Above, Reaches

LEMMA JoinsOver ==
    ASSUME NEW h \in FrameType, NEW q \in Seq(FrameType), NEW g, NEW age,
           Joins(g, q, age)', Above(g, h, age)', Reaches(g, h, age)'
    PROVE  Joins(g, <<h>> \o q, age)'
<1> DEFINE s == <<h>> \o q
<1>1. /\ s[1] = h /\ DOMAIN s = 1 .. Len(q) + 1 /\ DOMAIN q = 1 .. Len(q) /\ Len(q) \in Nat
      /\ \A i \in 2 .. Len(q) + 1 : s[i] = q[i - 1] /\ i - 1 \in DOMAIN q
  <2>1. /\ s \in Seq(FrameType) /\ Len(s) = Len(q) + 1 /\ s[1] = h
        /\ \A i \in 2 .. Len(q) + 1 : s[i] = q[i - 1]
    BY PushedAt
  <2>2. DOMAIN s = 1 .. Len(s) /\ DOMAIN q = 1 .. Len(q) /\ Len(q) \in Nat
    BY <2>1, LenProperties
  <2> HIDE DEF s
  <2> QED BY <2>1, <2>2
<1> HIDE DEF s
<1>2. ASSUME NEW j \in DOMAIN s PROVE Above(g, s[j], age)'
  <2>1. CASE j = 1
    BY <1>1, <2>1
  <2>2. CASE j # 1
    <3>1. s[j] = q[j - 1] /\ j - 1 \in DOMAIN q
      BY <1>1, <2>2
    <3> QED BY <3>1 DEF Joins
  <2> QED BY <2>1, <2>2
<1>3. Joins(g, s, age)'
  BY <1>1, <1>2 DEF Joins
<1> QED BY <1>3 DEF s

-----------------------------------------------------------------------------
(***************************************************************************)
(* Only one thread at a time changes the lists.                            *)
(***************************************************************************)
LEMMA Changers == Changer \subseteq Thread /\ Changer \cap Reader = {} /\ Thread \ Reader = Changer
BY ThreadAssumption DEF Changer, Thread

LEMMA Sole ==
    ASSUME NEW t \in Changer, OneBusy, stack[t] # <<>>, OthersStay(t)
    PROVE  \A u \in Changer \ {t} : stack[u] = <<>> /\ stack'[u] = <<>>
BY Changers DEF OneBusy, OthersStay

LEMMA Settle ==
    ASSUME NEW t \in Changer, \A u \in Changer \ {t} : stack'[u] = <<>>,
           NEW s, stack'[t] = s, NEW n \in Nat, NEW age \in [Block -> 0 .. n],
           Family(age)', NoOrphan', Frames(s, age)', s # <<>> => Running(Head(s), age)'
    PROVE  InTurn'
<1>1. OneBusy'
  BY DEF OneBusy
<1>3. ASSUME NEW u \in Changer PROVE StackGood(stack[u], age)'
  <2>1. CASE u = t
    BY <2>1 DEF StackGood, Frames
  <2>2. CASE u # t
    <3>1. stack'[u] = <<>>
      BY <2>2
    <3> QED BY <3>1 DEF StackGood, Frames
  <2> QED BY <2>1, <2>2
<1>4. Orderly(age)'
  BY <1>3 DEF Orderly
<1> QED BY <1>1, <1>4 DEF InTurn

-----------------------------------------------------------------------------
(***************************************************************************)
(* The order of the lists.                                                 *)
(***************************************************************************)
LEMMA FindNone ==
    ASSUME TypeOK, ListsOK, NEW n \in Name, Find(n) = NoBlock
    PROVE  \A b \in Listed : name[b] # n
<1> SUFFICES ASSUME NEW b \in Listed, name[b] = n PROVE FALSE
  OBVIOUS
<1> DEFINE s == list[ClassOf[n]]
           p == PlaceOf(b, s)
<1>1. p \in DOMAIN s /\ s[p] = b /\ ClassOf[n] \in Classes
  BY PlaceOnList
<1>2. p \in Named(n)
  BY <1>1 DEF Named
<1>3. Named(n) \in SUBSET Nat
  BY <1>1, ListType DEF Named
<1> HIDE DEF p
<1>4. Min(Named(n)) \in Named(n)
  BY <1>2, <1>3, LeastOf
<1>5. s[Min(Named(n))] \in Block
  BY <1>1, <1>4, ListType DEF Named
<1>6. Find(n) = s[Min(Named(n))]
  BY <1>2 DEF Find
<1> QED BY <1>5, <1>6, BlockAssumption

LEMMA MemberListed ==
    ASSUME TypeOK, ListsOK, NEW c \in Classes, NEW i \in DOMAIN list[c]
    PROVE  /\ list[c][i] \in Listed /\ list[c][i] \in Block
           /\ ClassOf[name[list[c][i]]] = c
BY ListType DEF ListsOK

LEMMA FirstAge ==
    ASSUME TypeOK, ListsOK, NEW n \in Nat, NEW age \in [Block -> 0 .. n], Family(age),
           NEW k \in DOMAIN Class, NEW c \in Listed, ClassOf[name[c]] = Class[k]
    PROVE  First(Members(k)) # NoBlock /\ age[c] <= age[First(Members(k))]
<1> DEFINE s == list[Class[k]]
           p == PlaceOf(c, s)
<1>1. p \in DOMAIN s /\ s[p] = c /\ Class[k] \in Classes
  BY PlaceOnList
<1>2. DOMAIN s = 1 .. Len(s) /\ Len(s) \in Nat /\ s \in Seq(Block)
  BY <1>1, ListType
<1> HIDE DEF p
<1>3. s # <<>> /\ 1 \in DOMAIN s
  BY <1>1, <1>2, EmptySeq
<1>4. First(Members(k)) = s[1]
  BY <1>3 DEF First, Members
<1>5. s[1] \in Block /\ c \in Block
  BY <1>1, <1>3, ListType
<1>6. p = 1 \/ 1 < p
  BY <1>1, <1>2
<1>7. 1 < p => age[s[1]] > age[s[p]]
  BY <1>1, <1>3 DEF Family
<1>8. age[s[1]] \in Nat /\ age[c] \in Nat
  BY <1>5
<1>9. age[c] <= age[s[1]]
  BY <1>1, <1>6, <1>7, <1>8
<1> QED BY <1>4, <1>5, <1>9, BlockAssumption

LEMMA FirstClass ==
    ASSUME TypeOK, ListsOK, NEW k \in DOMAIN Class, First(Members(k)) # NoBlock
    PROVE  /\ First(Members(k)) \in Listed
           /\ ClassOf[name[First(Members(k))]] = Class[k]
<1>1. Class[k] \in Classes
  BY ClassType
<1>2. list[Class[k]] # <<>> /\ First(Members(k)) = list[Class[k]][1]
  BY <1>1, FirstListed DEF Members
<1>3. 1 \in DOMAIN list[Class[k]]
  BY <1>1, <1>2, ListType, EmptySeq
<1> QED BY <1>1, <1>2, <1>3, MemberListed

LEMMA NextAge ==
    ASSUME TypeOK, ListsOK, NEW n \in Nat, NEW age \in [Block -> 0 .. n], Family(age),
           NEW c \in Listed
    PROVE  /\ NextOf(c) # NoBlock =>
                /\ NextOf(c) \in Listed /\ age[NextOf(c)] < age[c]
                /\ ClassOf[name[NextOf(c)]] = ClassOf[name[c]]
           /\ \A d \in Listed :
                ClassOf[name[d]] = ClassOf[name[c]] /\ age[d] <= age[c] /\ d # c =>
                    NextOf(c) # NoBlock /\ age[d] <= age[NextOf(c)]
<1> DEFINE k == ClassOf[name[c]]
           s == list[k]
           p == PlaceOf(c, s)
<1>1. p \in DOMAIN s /\ s[p] = c /\ k \in Classes
  BY PlaceOnList
<1>2. DOMAIN s = 1 .. Len(s) /\ Len(s) \in Nat
  BY <1>1, ListType
<1>3. NextOf(c) = IF p = Len(s) THEN NoBlock ELSE s[p + 1]
  BY DEF NextOf
<1> HIDE DEF p
<1>4. \A i \in DOMAIN s : s[i] \in Listed /\ s[i] \in Block /\ ClassOf[name[s[i]]] = k
  BY <1>1, MemberListed
<1>5. \A i, j \in DOMAIN s : i < j => age[s[i]] > age[s[j]]
  BY <1>1 DEF Family
<1>6. \A i \in DOMAIN s : age[s[i]] \in Nat
  BY <1>4
<1>7. NextOf(c) # NoBlock => p + 1 \in DOMAIN s /\ NextOf(c) = s[p + 1]
  BY <1>1, <1>2, <1>3
<1>8. ASSUME NEW d \in Listed, ClassOf[name[d]] = k, age[d] <= age[c], d # c
      PROVE  NextOf(c) # NoBlock /\ age[d] <= age[NextOf(c)]
  <2> DEFINE i == PlaceOf(d, s)
  <2>1. i \in DOMAIN s /\ s[i] = d
    BY <1>8, PlaceOnList
  <2> HIDE DEF i
  <2>2. i # p
    BY <1>1, <1>8, <2>1
  <2>3. ~ (i < p)
    <3>1. i < p => age[d] > age[c]
      BY <1>1, <1>5, <2>1
    <3>2. age[d] \in Nat /\ age[c] \in Nat
      BY <1>1, <1>6, <2>1
    <3> QED BY <1>8, <3>1, <3>2
  <2>4. p + 1 \in DOMAIN s /\ p # Len(s) /\ (p + 1 = i \/ p + 1 < i)
    BY <1>1, <1>2, <2>1, <2>2, <2>3
  <2>5. NextOf(c) = s[p + 1] /\ s[p + 1] \in Block
    BY <1>3, <1>4, <2>4
  <2>6. p + 1 < i => age[s[p + 1]] > age[s[i]]
    BY <1>5, <2>1, <2>4
  <2>7. age[s[p + 1]] \in Nat /\ age[s[i]] \in Nat
    BY <1>6, <2>1, <2>4
  <2>8. age[s[i]] <= age[s[p + 1]]
    BY <2>4, <2>6, <2>7
  <2> QED BY <2>1, <2>5, <2>8, BlockAssumption
<1>9. ASSUME NextOf(c) # NoBlock
      PROVE  /\ NextOf(c) \in Listed /\ age[NextOf(c)] < age[c]
             /\ ClassOf[name[NextOf(c)]] = k
  <2>1. p + 1 \in DOMAIN s /\ NextOf(c) = s[p + 1] /\ p < p + 1
    BY <1>1, <1>2, <1>7, <1>9
  <2>2. age[s[p]] > age[s[p + 1]] /\ age[s[p]] \in Nat /\ age[s[p + 1]] \in Nat
    BY <1>1, <1>5, <1>6, <2>1
  <2> QED BY <1>1, <1>4, <2>1, <2>2
<1> QED BY <1>8, <1>9

LEMMA ShorterOrder ==
    ASSUME TypeOK, ListsOK, NEW age, Family(age), NEW b \in Listed,
           list' = [list EXCEPT ![ClassOf[name[b]]] = RemoveAt(@, PlaceOf(b, @))]
    PROVE  \A c \in Classes : \A i, j \in DOMAIN list'[c] :
              i < j => age[list'[c][i]] > age[list'[c][j]]
<1> DEFINE k == ClassOf[name[b]]
           s == list[k]
           p == PlaceOf(b, s)
           u == RemoveAt(s, p)
<1>1. p \in DOMAIN s /\ s[p] = b /\ k \in Classes
  BY PlaceOnList
<1>2. s \in Seq(Block) /\ DOMAIN s = 1 .. Len(s) /\ Len(s) \in Nat
  BY <1>1, ListType
<1>3. u \in Seq(Block) /\ Len(u) = Len(s) - 1
      /\ \A i \in 1 .. Len(s) - 1 : u[i] = IF i < p THEN s[i] ELSE s[i + 1]
  BY <1>1, <1>2, TakenOut
<1>4. list'[k] = u /\ \A c \in Classes : c # k => list'[c] = list[c]
  BY <1>1 DEF TypeOK
<1> HIDE DEF u, p
<1>5. DOMAIN u = 1 .. Len(s) - 1
  BY <1>3, LenProperties
<1>6. \A i, j \in DOMAIN s : i < j => age[s[i]] > age[s[j]]
  BY <1>1 DEF Family
<1>7. ASSUME NEW i \in DOMAIN u, NEW j \in DOMAIN u, i < j PROVE age[u[i]] > age[u[j]]
  <2> DEFINE x == IF i < p THEN i ELSE i + 1
             y == IF j < p THEN j ELSE j + 1
  <2>1. x \in DOMAIN s /\ y \in DOMAIN s /\ x < y
    BY <1>1, <1>2, <1>5, <1>7
  <2>2. u[i] = s[x] /\ u[j] = s[y]
    BY <1>3, <1>5
  <2> HIDE DEF x, y
  <2> QED BY <1>6, <2>1, <2>2
<1>8. ASSUME NEW c \in Classes, NEW i \in DOMAIN list'[c], NEW j \in DOMAIN list'[c], i < j
      PROVE  age[list'[c][i]] > age[list'[c][j]]
  <2>1. CASE c = k
    BY <1>4, <1>7, <1>8, <2>1
  <2>2. CASE c # k
    BY <1>4, <1>8, <2>2 DEF Family
  <2> QED BY <2>1, <2>2
<1> QED BY <1>8

LEMMA LongerOrder ==
    ASSUME TypeOK, ListsOK, NEW age, Family(age), NEW b \in Block, \A c \in Listed : age[c] < age[b],
           list' = [list EXCEPT ![ClassOf[name[b]]] = <<b>> \o @]
    PROVE  \A c \in Classes : \A i, j \in DOMAIN list'[c] :
              i < j => age[list'[c][i]] > age[list'[c][j]]
<1> DEFINE k == ClassOf[name[b]]
           s == list[k]
           u == <<b>> \o s
<1>1. k \in Classes
  BY NameType DEF TypeOK
<1>2. s \in Seq(Block) /\ DOMAIN s = 1 .. Len(s) /\ Len(s) \in Nat
      /\ \A i \in DOMAIN s : s[i] \in Listed
  BY <1>1, ListType
<1>3. u \in Seq(Block) /\ Len(u) = Len(s) + 1 /\ u[1] = b
      /\ \A i \in 2 .. Len(s) + 1 : u[i] = s[i - 1]
  BY <1>2, PushedAt
<1>4. list'[k] = u /\ \A c \in Classes : c # k => list'[c] = list[c]
  BY <1>1 DEF TypeOK
<1> HIDE DEF u
<1>5. DOMAIN u = 1 .. Len(s) + 1
  BY <1>3, LenProperties
<1>6. \A i, j \in DOMAIN s : i < j => age[s[i]] > age[s[j]]
  BY <1>1 DEF Family
<1>7. ASSUME NEW i \in DOMAIN u, NEW j \in DOMAIN u, i < j PROVE age[u[i]] > age[u[j]]
  <2>1. j - 1 \in DOMAIN s /\ u[j] = s[j - 1]
    BY <1>2, <1>3, <1>5, <1>7
  <2>2. CASE i = 1
    <3>1. age[s[j - 1]] < age[b]
      BY <1>2, <2>1
    <3> QED BY <1>3, <2>1, <2>2, <3>1
  <2>3. CASE i # 1
    <3>1. i - 1 \in DOMAIN s /\ u[i] = s[i - 1] /\ i - 1 < j - 1
      BY <1>2, <1>3, <1>5, <1>7, <2>3
    <3> QED BY <1>6, <2>1, <3>1
  <2> QED BY <2>2, <2>3
<1>8. ASSUME NEW c \in Classes, NEW i \in DOMAIN list'[c], NEW j \in DOMAIN list'[c], i < j
      PROVE  age[list'[c][i]] > age[list'[c][j]]
  <2>1. CASE c = k
    BY <1>4, <1>7, <1>8, <2>1
  <2>2. CASE c # k
    BY <1>4, <1>8, <2>2 DEF Family
  <2> QED BY <2>1, <2>2
<1> QED BY <1>8

-----------------------------------------------------------------------------
(***************************************************************************)
(* A thread that changes the lists, about to take a step: its running      *)
(* frame f, the frames q below it, and an age of the devices.              *)
(***************************************************************************)
Facing(t, f, q, age) ==
    /\ f = Me(t) /\ q = Rest(t) /\ f \in FrameType /\ FrameOK(f)
    /\ q \in Seq(FrameType) /\ Sound(q) /\ stack[t] = <<f>> \o q
    /\ Joins(f, q, age) /\ Frames(q, age) /\ Running(f, age) /\ Family(age) /\ NoOrphan
    /\ \A u \in Changer \ {t} : stack[u] = <<>> /\ stack'[u] = <<>>

LEMMA Face ==
    ASSUME Core, InTurn, ~ overlap, NEW t \in Changer, NEW pc, At(t, pc), OthersStay(t)
    PROVE  \E n \in Nat : \E age \in [Block -> 0 .. n] : \E f, q : Facing(t, f, q, age) /\ f.pc = pc
<1>1. PICK n \in Nat : \E age \in [Block -> 0 .. n] : Orderly(age)
  BY DEF InTurn
<1>2. PICK age \in [Block -> 0 .. n] : Orderly(age)
  BY <1>1
<1>3. t \in Thread
  BY Changers
<1>4. /\ stack[t] # <<>> /\ Me(t) \in FrameType /\ FrameOK(Me(t)) /\ Me(t).pc = pc
      /\ Sound(Rest(t)) /\ stack[t] \in Seq(FrameType)
  BY <1>3, MyFrame DEF Core, TypeOK
<1>5. stack[t] = <<Me(t)>> \o Rest(t) /\ Rest(t) \in Seq(FrameType)
  BY <1>4, HeadTailProperties DEF Me, Rest
<1>6. StackGood(stack[t], age) /\ Family(age) /\ NoOrphan
  BY <1>2 DEF Orderly
<1>7. Frames(<<Me(t)>> \o Rest(t), age) /\ Running(Me(t), age)
  BY <1>4, <1>5, <1>6 DEF StackGood, Me
<1>8. Joins(Me(t), Rest(t), age) /\ Frames(Rest(t), age)
  BY <1>4, <1>5, <1>7, FramesSplit
<1>9. \A u \in Changer \ {t} : stack[u] = <<>> /\ stack'[u] = <<>>
  BY <1>4, Sole DEF InTurn
<1>10. Facing(t, Me(t), Rest(t), age)
  BY <1>4, <1>5, <1>6, <1>7, <1>8, <1>9 DEF Facing
<1> QED BY <1>4, <1>10

LEMMA CursListed ==
    ASSUME NEW q, NEW age, Frames(q, age)
    PROVE  \A j \in DOMAIN q : q[j].pc = "walk" /\ q[j].cur # NoBlock => q[j].cur \in Listed
BY DEF Frames, Settled

LEMMA OrphanKeep ==
    ASSUME TypeOK, Fewer, Listed' = Listed, NEW t \in Changer, NEW f, NEW q, NEW age,
           Facing(t, f, q, age), NEW s, stack'[t] = s,
           \A b : Cleans(<<f>> \o q, b) => Cleans(s, b) \/ \A c \in Listed : parent'[c] # b
    PROVE  NoOrphan'
<1> SUFFICES ASSUME NEW c \in Listed, parent'[c] \notin Listed \cup {NoBlock}
             PROVE  \E u \in Changer : Cleans(stack'[u], parent'[c])
  BY DEF NoOrphan
<1>1. parent'[c] = parent[c]
  BY ListedBlocks DEF Fewer
<1>2. PICK u \in Changer : Cleans(stack[u], parent[c])
  BY <1>1 DEF Facing, NoOrphan
<1>3. u = t
  <2>1. u # t => stack[u] = <<>>
    BY DEF Facing
  <2> QED BY <1>2, <2>1 DEF Cleans
<1>4. Cleans(<<f>> \o q, parent[c])
  BY <1>2, <1>3 DEF Facing
<1>5. Cleans(s, parent[c])
  BY <1>1, <1>4
<1> QED BY <1>1, <1>5

(***************************************************************************)
(* Steps that leave the lists alone: the running frame goes on, calls or   *)
(* returns.                                                                *)
(***************************************************************************)
Same == list' = list /\ Fewer
Lets(f, g) == \A b : Cleaner(f, b) => Cleaner(g, b) \/ \A c \in Listed : parent'[c] # b

LEMMA SameParts ==
    ASSUME TypeOK, Same, NEW q, Sound(q), NEW age, Family(age), Frames(q, age)
    PROVE  Listed' = Listed /\ Family(age)' /\ Frames(q, age)'
<1>1. Listed' = Listed
  BY DEF Same, Listed
<1>2. Frames(q, age)'
  BY <1>1, CursListed, FewerFrames DEF Same
<1>3. \A c \in Classes : \A i, j \in DOMAIN list'[c] :
        i < j => age[list'[c][i]] > age[list'[c][j]]
  BY DEF Same, Family
<1>4. Family(age)'
  BY <1>3, FewerFamily DEF Same
<1> QED BY <1>1, <1>2, <1>4

LEMMA GoesOn ==
    ASSUME TypeOK, Same, NEW t \in Changer, NEW n \in Nat, NEW age \in [Block -> 0 .. n],
           NEW f, NEW q, Facing(t, f, q, age), NEW g \in FrameType, stack'[t] = <<g>> \o q,
           Joins(g, q, age)', Running(g, age)', Lets(f, g)
    PROVE  InTurn'
<1> DEFINE s == <<g>> \o q
<1>1. Listed' = Listed /\ Family(age)' /\ Frames(q, age)' /\ f \in FrameType /\ q \in Seq(FrameType)
  BY SameParts DEF Facing
<1>2. Frames(s, age)' /\ Head(s) = g
  BY <1>1, FramesJoin, PushedAt
<1>3. \A b : Cleans(<<f>> \o q, b) => Cleans(s, b) \/ \A c \in Listed : parent'[c] # b
  BY <1>1, CleansSplit DEF Lets
<1> HIDE DEF s
<1>4. stack'[t] = s
  BY DEF s
<1>5. NoOrphan'
  BY <1>1, <1>3, <1>4, OrphanKeep DEF Same
<1>6. \A u \in Changer \ {t} : stack'[u] = <<>>
  BY DEF Facing
<1>7. s # <<>> => Running(Head(s), age)'
  BY <1>2
<1> QED BY <1>1, <1>2, <1>4, <1>5, <1>6, <1>7, Settle

LEMMA Returns ==
    ASSUME TypeOK, Same, NEW t \in Changer, NEW n \in Nat, NEW age \in [Block -> 0 .. n],
           NEW f, NEW q, Facing(t, f, q, age), stack'[t] = q,
           \A c \in Listed : ~ Removing(f, c), f.pc \notin {"orphan", "walk"}
    PROVE  InTurn'
<1>1. /\ Listed' = Listed /\ Family(age)' /\ Frames(q, age)' /\ f \in FrameType
      /\ q \in Seq(FrameType) /\ Sound(q) /\ Joins(f, q, age)
  BY SameParts DEF Facing
<1>2. q # <<>> => Running(q[1], age)' /\ Head(q) = q[1]
  BY <1>1, FewerReturn, HeadTailProperties DEF Same
<1>3. \A b : Cleans(<<f>> \o q, b) => Cleans(q, b) \/ \A c \in Listed : parent'[c] # b
  BY <1>1, CleansSplit DEF Cleaner
<1>4. NoOrphan'
  BY <1>1, <1>3, OrphanKeep DEF Same
<1>5. \A u \in Changer \ {t} : stack'[u] = <<>>
  BY DEF Facing
<1>6. q # <<>> => Running(Head(q), age)'
  BY <1>2
<1> QED BY <1>1, <1>4, <1>5, <1>6, Settle

LEMMA Calls ==
    ASSUME TypeOK, Same, NEW t \in Changer, NEW n \in Nat, NEW age \in [Block -> 0 .. n],
           NEW f, NEW q, Facing(t, f, q, age), NEW g \in FrameType, NEW h \in FrameType,
           stack'[t] = <<g>> \o (<<h>> \o q), Joins(h, q, age)', Joins(g, <<h>> \o q, age)',
           Running(g, age)', Lets(f, h)
    PROVE  InTurn'
<1> DEFINE r == <<h>> \o q
           s == <<g>> \o r
<1>1. Listed' = Listed /\ Family(age)' /\ Frames(q, age)' /\ f \in FrameType /\ q \in Seq(FrameType)
  BY SameParts DEF Facing
<1>2. Frames(r, age)' /\ r \in Seq(FrameType)
  BY <1>1, FramesJoin, PushedAt
<1>3. \A b : Cleans(<<f>> \o q, b) => Cleans(r, b) \/ \A c \in Listed : parent'[c] # b
  BY <1>1, CleansSplit DEF Lets
<1> HIDE DEF r
<1>4. Frames(s, age)' /\ Head(s) = g
  <2>1. Joins(g, r, age)'
    BY DEF r
  <2> QED BY <1>2, <2>1, FramesJoin, PushedAt
<1>5. \A b : Cleans(<<f>> \o q, b) => Cleans(s, b) \/ \A c \in Listed : parent'[c] # b
  <2>1. \A b : Cleans(r, b) => Cleans(s, b)
    BY <1>2, CleansSplit
  <2> QED BY <1>3, <2>1
<1> HIDE DEF s
<1>6. stack'[t] = s
  BY DEF s, r
<1>7. NoOrphan'
  BY <1>1, <1>5, <1>6, OrphanKeep DEF Same
<1>8. \A u \in Changer \ {t} : stack'[u] = <<>>
  BY DEF Facing
<1>9. s # <<>> => Running(Head(s), age)'
  BY <1>4
<1> QED BY <1>1, <1>4, <1>6, <1>7, <1>8, <1>9, Settle

-----------------------------------------------------------------------------
(***************************************************************************)
(* The steps of RemoveDevice, and of frames that return.                   *)
(***************************************************************************)
LEMMA SameAll ==
    ASSUME UNCHANGED <<list, alive, name, parent>>
    PROVE  Same
BY DEF Same, Fewer, Listed

LEMMA NewFrame ==
    ASSUME NEW pc \in Pc, NEW m \in Name
    PROVE  /\ Frame(pc, m) \in FrameType /\ Frame(pc, m).pc = pc /\ Frame(pc, m).name = m
           /\ Frame(pc, m).of = m /\ Frame(pc, m).cur = NoBlock /\ Frame(pc, m).class = 0
           /\ Frame(pc, m).dev = NoBlock /\ Frame(pc, m).parent = NoBlock
BY DEF Frame, FrameType, Pointer

LEMMA NotWalking ==
    ASSUME NEW t, NEW f, NEW q, NEW age, Facing(t, f, q, age), f.pc # "walk"
    PROVE  f.cur = NoBlock
BY DEF Facing, Joins, Settled

LEMMA LonelyTop ==
    ASSUME NEW t, NEW f, NEW q, NEW age, Facing(t, f, q, age), f.pc \notin Removal
    PROVE  Lonely(q)
BY LonelyUnder DEF Facing

(* A frame that ends its function. *)
LEMMA EndJoins ==
    ASSUME TypeOK, Same, NEW t, NEW f, NEW q, NEW age, Facing(t, f, q, age),
           \A c \in Listed : ~ Removing(f, c),
           NEW g, g.pc \in {"drop", "destroy"}, g.cur = NoBlock
    PROVE  Joins(g, q, age)' /\ Running(g, age)'
<1>1. Settled(g)' /\ Running(g, age)'
  BY DEF Settled, Running
<1>2. \A b \in Block : ~ Targets(g, b)'
  BY DEF Targets
<1>3. Listed' = Listed
  BY DEF Same, Listed
<1>4. g.pc \in Removal
  BY DEF Removal
<1>5. Sound(q) /\ Joins(f, q, age) /\ Fewer
  BY DEF Facing, Same
<1>6. Joins(g, q, age)'
  BY <1>1, <1>2, <1>3, <1>4, <1>5, FewerJoins
<1> QED BY <1>1, <1>6

LEMMA Ends ==
    ASSUME TypeOK, Same, NEW t \in Changer, NEW n \in Nat, NEW age \in [Block -> 0 .. n],
           NEW f, NEW q, Facing(t, f, q, age), \A c \in Listed : ~ Removing(f, c),
           f.pc \notin {"orphan", "walk"},
           NEW g \in FrameType, g.pc \in {"drop", "destroy"}, g.cur = NoBlock,
           stack'[t] = <<g>> \o q
    PROVE  InTurn'
<1>1. Joins(g, q, age)' /\ Running(g, age)'
  BY EndJoins
<1>2. Lets(f, g)
  BY DEF Lets, Cleaner
<1> QED BY <1>1, <1>2, GoesOn

LEMMA DestroyFrame ==
    ASSUME TypeOK, NEW x \in Block
    PROVE  LET d == [Frame("destroy", name[x]) EXCEPT !.dev = x]
           IN d \in FrameType /\ d.pc = "destroy" /\ d.cur = NoBlock
<1>1. name[x] \in Name /\ "destroy" \in Pc
  BY DEF TypeOK, Pc
<1> QED BY <1>1 DEF Frame, FrameType, Pointer

LEMMA RemovesNone ==
    ASSUME NEW f, f.pc \notin {"remove", "unlink"}
    PROVE  \A c \in Listed : ~ Removing(f, c)
BY DEF Removing

(* The last reference is dropped, or not, and the frame is done. *)
LEMMA LetsGo ==
    ASSUME TypeOK, Same, NEW t \in Changer, NEW n \in Nat, NEW age \in [Block -> 0 .. n],
           NEW f, NEW q, Facing(t, f, q, age), f.pc \in {"drop", "destroy"},
           NEW x, stack'[t] = Destroying(x) \o q
    PROVE  InTurn'
<1>1. \A c \in Listed : ~ Removing(f, c)
  BY RemovesNone
<1>2. CASE x \in Block /\ ref[x] = 1
  <2> DEFINE e == [Frame("destroy", name[x]) EXCEPT !.dev = x]
  <2>1. PICK d : d = e
    OBVIOUS
  <2>2. e \in FrameType /\ e.pc = "destroy" /\ e.cur = NoBlock
    BY <1>2, DestroyFrame
  <2>3. Destroying(x) = <<e>>
    BY <1>2 DEF Destroying
  <2> HIDE DEF e
  <2>4. stack'[t] = <<d>> \o q /\ d \in FrameType /\ d.pc = "destroy" /\ d.cur = NoBlock
    BY <2>1, <2>2, <2>3
  <2> QED BY <1>1, <2>4, Ends
<1>3. CASE ~ (x \in Block /\ ref[x] = 1)
  <2>1. Destroying(x) = <<>>
    BY <1>3 DEF Destroying
  <2>2. q \in Seq(FrameType)
    BY DEF Facing
  <2>3. stack'[t] = q
    BY <2>1, <2>2, ConcatEmptySeq
  <2> QED BY <1>1, <2>3, Returns
<1> QED BY <1>2, <1>3

LEMMA DropTurn ==
    ASSUME Core, InTurn, ~ overlap, NEW t \in Changer, Drop(t)
    PROVE  InTurn'
<1>1. At(t, "drop") /\ TypeOK /\ t \in Thread
  BY Changers DEF Drop, Core
<1>2. Resume(t, Destroying(Me(t).dev) \o Rest(t)) /\ UNCHANGED <<list, alive, name, parent>>
  BY DEF Drop, DeviceStateDecRef
<1>3. stack'[t] = Destroying(Me(t).dev) \o Rest(t) /\ OthersStay(t)
  BY <1>1, <1>2, Resumed
<1>4. Same
  BY <1>2, SameAll
<1>5. PICK n \in Nat :
        \E age \in [Block -> 0 .. n] : \E f, q : Facing(t, f, q, age) /\ f.pc = "drop"
  BY <1>1, <1>3, Face
<1>age. PICK age \in [Block -> 0 .. n] : \E f, q : Facing(t, f, q, age) /\ f.pc = "drop"
  BY <1>5
<1>6. PICK f, q : Facing(t, f, q, age) /\ f.pc = "drop"
  BY <1>age
<1>7. PICK x : x = Me(t).dev
  OBVIOUS
<1>8. stack'[t] = Destroying(x) \o q
  BY <1>3, <1>6, <1>7 DEF Facing
<1> QED BY <1>1, <1>4, <1>6, <1>8, LetsGo

LEMMA DestroySame ==
    ASSUME TypeOK, NEW b \in Block, UNCHANGED <<list, name>>,
           alive' = alive \/ alive' = alive \ {b}, parent' = [parent EXCEPT ![b] = NoBlock]
    PROVE  Same
BY DEF Same, Fewer, Listed, TypeOK

LEMMA DeviceStateDestroyTurn ==
    ASSUME Core, InTurn, ~ overlap, NEW t \in Changer, DeviceStateDestroy(t)
    PROVE  InTurn'
<1>1. At(t, "destroy") /\ TypeOK /\ t \in Thread
  BY Changers DEF DeviceStateDestroy, Core
<1>2. /\ Resume(t, Destroying(parent[Me(t).dev]) \o Rest(t)) /\ UNCHANGED <<list, name>>
      /\ alive' = alive \ {Me(t).dev} /\ parent' = [parent EXCEPT ![Me(t).dev] = NoBlock]
  BY DEF DeviceStateDestroy, DeviceStateDecRef
<1>3. stack'[t] = Destroying(parent[Me(t).dev]) \o Rest(t) /\ OthersStay(t)
  BY <1>1, <1>2, Resumed
<1>4. PICK n \in Nat :
        \E age \in [Block -> 0 .. n] : \E f, q : Facing(t, f, q, age) /\ f.pc = "destroy"
  BY <1>1, <1>3, Face
<1>age. PICK age \in [Block -> 0 .. n] : \E f, q : Facing(t, f, q, age) /\ f.pc = "destroy"
  BY <1>4
<1>5. PICK f, q : Facing(t, f, q, age) /\ f.pc = "destroy"
  BY <1>age
<1>6. Me(t).dev \in Block
  BY <1>5 DEF Facing, FrameOK
<1>7. Same
  BY <1>1, <1>2, <1>6, DestroySame
<1>8. PICK x : x = parent[Me(t).dev]
  OBVIOUS
<1>9. stack'[t] = Destroying(x) \o q
  BY <1>3, <1>5, <1>8 DEF Facing
<1> QED BY <1>1, <1>5, <1>7, <1>9, LetsGo

LEMMA RemovesName ==
    ASSUME NEW f, f.pc = "remove", NEW c
    PROVE  Removing(f, c) <=> c \in Listed /\ name[c] = f.name
BY DEF Removing, Targets

LEMMA FindDeviceTurn ==
    ASSUME Core, InTurn, ~ overlap, NEW t \in Changer, FindDevice(t)
    PROVE  InTurn'
<1>1. At(t, "remove") /\ TypeOK /\ ListsOK /\ t \in Thread
  BY Changers DEF FindDevice, Core
<1>2. PICK b : b = Find(Me(t).name)
  OBVIOUS
<1>3. /\ Resume(t, IF b = NoBlock THEN Rest(t) ELSE Using(t, "unlink", b))
      /\ UNCHANGED <<list, alive, name, parent>>
  BY <1>2 DEF FindDevice
<1>4. stack'[t] = (IF b = NoBlock THEN Rest(t) ELSE Using(t, "unlink", b)) /\ OthersStay(t)
  BY <1>1, <1>3, Resumed
<1>5. Same /\ Fewer /\ Listed' = Listed
  BY <1>3, SameAll DEF Same, Listed
<1>6. PICK n \in Nat :
        \E age \in [Block -> 0 .. n] : \E f, q : Facing(t, f, q, age) /\ f.pc = "remove"
  BY <1>1, <1>4, Face
<1>age. PICK age \in [Block -> 0 .. n] : \E f, q : Facing(t, f, q, age) /\ f.pc = "remove"
  BY <1>6
<1>7. PICK f, q : Facing(t, f, q, age) /\ f.pc = "remove"
  BY <1>age
<1>8. /\ f = Me(t) /\ q = Rest(t) /\ f \in FrameType /\ f.name \in Name /\ Sound(q)
      /\ Joins(f, q, age) /\ Family(age) /\ f.cur = NoBlock /\ f.class = 0
  BY <1>7, NotWalking DEF Facing, FrameType, Joins, Settled
<1>9. CASE b = NoBlock
  <2>1. stack'[t] = q
    BY <1>4, <1>8, <1>9
  <2>2. \A c \in Listed : ~ Removing(f, c)
    BY <1>1, <1>2, <1>7, <1>8, <1>9, FindNone, RemovesName
  <2> QED BY <1>1, <1>5, <1>7, <2>1, <2>2, Returns
<1>10. CASE b # NoBlock
  <2>1. b \in Listed /\ b \in Block /\ name[b] = f.name
    BY <1>1, <1>2, <1>8, <1>10, FindListed, ListedBlocks
  <2>2. \A c \in Listed : name[c] = f.name => c = b
    BY <1>8, <2>1 DEF Family
  <2>3. PICK g : g = [f EXCEPT !.pc = "unlink", !.dev = b]
    OBVIOUS
  <2>4. b \in Pointer /\ "unlink" \in Pc
    BY <2>1 DEF Pointer, Pc
  <2>5. /\ g \in FrameType /\ g.pc = "unlink" /\ g.dev = b /\ g.cur = NoBlock /\ g.class = 0
    <3>1. f \in FrameType /\ f.cur = NoBlock /\ f.class = 0
      BY <1>8
    <3>2. g \in FrameType /\ g.pc = "unlink" /\ g.dev = b /\ g.class = f.class
      BY <2>3, <2>4, <3>1 DEF FrameType
    <3>3. g.cur = f.cur
      BY <2>3, <3>1 DEF FrameType
    <3> QED BY <3>1, <3>2, <3>3
  <2>6. stack'[t] = <<g>> \o q
    BY <1>4, <1>8, <1>10, <2>3 DEF Using
  <2>7. Settled(g)' /\ Running(g, age)'
    BY <1>5, <2>1, <2>5 DEF Settled, Running
  <2>8. \A d \in Block : Targets(g, d)' => Targets(f, d)
    BY <1>7, <2>1, <2>5 DEF Targets
  <2>9. \A c \in Listed' : Removing(f, c) => Removing(g, c)'
    BY <1>5, <1>7, <2>1, <2>2, <2>5, RemovesName DEF Removing, Targets
  <2>10. g.pc \in Removal
    BY <2>5 DEF Removal
  <2>11. Joins(g, q, age)'
    BY <1>1, <1>5, <1>8, <2>7, <2>8, <2>9, <2>10, FewerJoins
  <2>12. Lets(f, g)
    BY <1>7 DEF Lets, Cleaner
  <2> QED BY <1>1, <1>5, <1>7, <2>5, <2>6, <2>7, <2>11, <2>12, GoesOn
<1> QED BY <1>9, <1>10

LEMMA NextClassTurn ==
    ASSUME Core, InTurn, ~ overlap, NEW t \in Changer, NextClass(t)
    PROVE  InTurn'
<1>1. At(t, "walk") /\ TypeOK /\ ListsOK /\ t \in Thread /\ Me(t).cur = NoBlock
  BY Changers DEF NextClass, Core
<1>2. PICK k : k = Me(t).class + 1
  OBVIOUS
<1>3. PICK x : x = First(Members(k))
  OBVIOUS
<1>4. /\ Resume(t, IF k > Len(Class) THEN Goto(t, "drop")
                   ELSE <<[Me(t) EXCEPT !.class = k, !.cur = x]>> \o Rest(t))
      /\ UNCHANGED <<list, alive, name, parent>>
  BY <1>2, <1>3 DEF NextClass, blockVars
<1>5. /\ stack'[t] = (IF k > Len(Class) THEN Goto(t, "drop")
                      ELSE <<[Me(t) EXCEPT !.class = k, !.cur = x]>> \o Rest(t))
      /\ OthersStay(t)
  BY <1>1, <1>4, Resumed
<1>6. Same /\ Fewer /\ Listed' = Listed
  BY <1>4, SameAll DEF Same, Listed
<1>7. PICK n \in Nat :
        \E age \in [Block -> 0 .. n] : \E f, q : Facing(t, f, q, age) /\ f.pc = "walk"
  BY <1>1, <1>5, Face
<1>age. PICK age \in [Block -> 0 .. n] : \E f, q : Facing(t, f, q, age) /\ f.pc = "walk"
  BY <1>7
<1>8. PICK f, q : Facing(t, f, q, age) /\ f.pc = "walk"
  BY <1>age
<1>9. /\ f = Me(t) /\ q = Rest(t) /\ f \in FrameType /\ f.class \in Nat /\ Sound(q) /\ f.dev \in Block
      /\ Joins(f, q, age) /\ Family(age) /\ f.cur = NoBlock /\ Running(f, age)
  BY <1>1, <1>8 DEF Facing, FrameType, FrameOK
<1>10. \A c \in Listed : ~ Removing(f, c)
  BY <1>8, RemovesNone
<1>11. \A c \in Listed : parent[c] = f.dev =>
         \E i \in DOMAIN Class : i > f.class /\ Class[i] = ClassOf[name[c]]
  BY <1>8, <1>9 DEF Running, ToCome
<1>12. k \in Nat /\ DOMAIN Class = 1 .. Len(Class) /\ Len(Class) \in Nat
  BY <1>2, <1>9, ClassType
<1>13. CASE k > Len(Class)
  <2>1. PICK g : g = [f EXCEPT !.pc = "drop"]
    OBVIOUS
  <2>2. "drop" \in Pc
    BY DEF Pc
  <2>3. g \in FrameType /\ g.pc = "drop" /\ g.cur = NoBlock
    BY <1>9, <2>1, <2>2 DEF FrameType
  <2>4. stack'[t] = <<g>> \o q
    BY <1>5, <1>9, <1>13, <2>1 DEF Goto
  <2>5. Joins(g, q, age)' /\ Running(g, age)'
    BY <1>1, <1>6, <1>8, <1>10, <2>3, EndJoins
  <2>6. \A c \in Listed : parent[c] # f.dev
    BY <1>2, <1>9, <1>11, <1>12, <1>13
  <2>7. Lets(f, g)
    BY <1>4, <2>6 DEF Lets, Cleaner
  <2> QED BY <1>1, <1>6, <1>8, <2>3, <2>4, <2>5, <2>7, GoesOn
<1>14. CASE ~ (k > Len(Class))
  <2>1. PICK g : g = [f EXCEPT !.class = k, !.cur = x]
    OBVIOUS
  <2>2. k \in DOMAIN Class
    BY <1>2, <1>9, <1>12, <1>14
  <2>3. x # NoBlock => x \in Listed /\ x \in Block /\ ClassOf[name[x]] = Class[k]
    BY <1>1, <1>3, <2>2, FirstClass, ListedBlocks
  <2>4. g \in FrameType /\ g.pc = "walk" /\ g.cur = x /\ g.class = k /\ g.dev = f.dev
    BY <1>8, <1>9, <1>12, <2>1, <2>3 DEF FrameType, Pointer
  <2>5. stack'[t] = <<g>> \o q
    BY <1>5, <1>9, <1>14, <2>1
  <2>6. Settled(g)'
    BY <1>4, <1>6, <2>2, <2>3, <2>4 DEF Settled
  <2>7. \A b \in Block : Targets(g, b)' => Targets(f, b)
    BY <1>8, <2>4 DEF Targets
  <2>8. Joins(g, q, age)'
    <3>1. \A c \in Listed' : Removing(f, c) => Removing(g, c)'
      BY <1>6, <1>10
    <3>2. g.pc \in Removal
      BY <2>4 DEF Removal
    <3> QED BY <1>1, <1>6, <1>9, <2>6, <2>7, <3>1, <3>2, FewerJoins
  <2>9. ASSUME NEW c \in Listed, parent[c] = f.dev PROVE ToCome(g, c, age)'
    <3>1. PICK i \in DOMAIN Class : i > f.class /\ Class[i] = ClassOf[name[c]]
      BY <1>11, <2>9
    <3>2. CASE i > k
      BY <1>4, <2>4, <3>1, <3>2 DEF ToCome
    <3>3. CASE ~ (i > k)
      <4>1. i = k
        BY <1>2, <1>9, <1>12, <3>1, <3>3
      <4>2. x # NoBlock /\ age[c] <= age[x]
        BY <1>1, <1>3, <1>9, <2>2, <3>1, <4>1, FirstAge
      <4> QED BY <1>4, <2>4, <3>1, <4>1, <4>2 DEF ToCome
    <3> QED BY <3>2, <3>3
  <2>10. Running(g, age)'
    BY <1>4, <1>6, <2>4, <2>9 DEF Running
  <2>11. Lets(f, g)
    BY <1>8, <2>4 DEF Lets, Cleaner
  <2> QED BY <1>1, <1>6, <1>8, <2>4, <2>5, <2>8, <2>10, <2>11, GoesOn
<1> QED BY <1>13, <1>14

(* A walk goes on to the next device of the list. *)
LEMMA StepsOn ==
    ASSUME TypeOK, ListsOK, NEW n \in Nat, NEW age \in [Block -> 0 .. n], Family(age),
           NEW f, Settled(f), f.pc = "walk", f.cur # NoBlock, UNCHANGED name,
           NEW g, g.pc = "walk", g.cur = NextOf(f.cur), g.class = f.class,
           NEW d \in Listed, d # f.cur, ToCome(f, d, age)
    PROVE  ToCome(g, d, age)'
<1>1. f.cur \in Listed /\ ClassOf[name[f.cur]] = Class[f.class]
  BY DEF Settled
<1>2. CASE \E k \in DOMAIN Class : k > f.class /\ Class[k] = ClassOf[name[d]]
  BY <1>2 DEF ToCome
<1>3. CASE ClassOf[name[d]] = Class[f.class] /\ age[d] <= age[f.cur]
  <2>1. NextOf(f.cur) # NoBlock /\ age[d] <= age[NextOf(f.cur)]
    BY <1>1, <1>3, NextAge
  <2> QED BY <1>3, <2>1 DEF ToCome
<1> QED BY <1>2, <1>3 DEF ToCome

LEMMA VisitDeviceTurn ==
    ASSUME Core, InTurn, ~ overlap, NEW t \in Changer, VisitDevice(t)
    PROVE  InTurn'
<1>1. At(t, "walk") /\ TypeOK /\ ListsOK /\ t \in Thread /\ Me(t).cur \in alive
  BY Changers DEF VisitDevice, Core
<1>2. PICK c : c = Me(t).cur
  OBVIOUS
<1>3. PICK g : g = [Me(t) EXCEPT !.cur = NextOf(c)]
  OBVIOUS
<1>4. PICK r : r = Frame("remove", name[c])
  OBVIOUS
<1>5. /\ Resume(t, IF parent[c] = Me(t).dev THEN <<r>> \o (<<g>> \o Rest(t)) ELSE <<g>> \o Rest(t))
      /\ UNCHANGED <<list, alive, name, parent>>
  BY <1>2, <1>3, <1>4 DEF VisitDevice, blockVars
<1>6. /\ stack'[t] = (IF parent[c] = Me(t).dev THEN <<r>> \o (<<g>> \o Rest(t)) ELSE <<g>> \o Rest(t))
      /\ OthersStay(t)
  BY <1>1, <1>5, Resumed
<1>7. Same /\ Fewer /\ Listed' = Listed
  BY <1>5, SameAll DEF Same, Listed
<1>8. PICK n \in Nat :
        \E age \in [Block -> 0 .. n] : \E f, q : Facing(t, f, q, age) /\ f.pc = "walk"
  BY <1>1, <1>6, Face
<1>age. PICK age \in [Block -> 0 .. n] : \E f, q : Facing(t, f, q, age) /\ f.pc = "walk"
  BY <1>8
<1>9. PICK f, q : Facing(t, f, q, age) /\ f.pc = "walk"
  BY <1>age
<1>10. /\ f = Me(t) /\ q = Rest(t) /\ f \in FrameType /\ f.class \in Nat /\ Sound(q) /\ f.dev \in Block
       /\ Joins(f, q, age) /\ Family(age) /\ Settled(f) /\ Running(f, age) /\ q \in Seq(FrameType)
  BY <1>9 DEF Facing, FrameType, FrameOK, Joins
<1>11. c \in Block /\ c # NoBlock /\ f.cur = c
  BY <1>1, <1>2, <1>10, BlockAssumption DEF TypeOK
<1>12. c \in Listed /\ f.class \in DOMAIN Class /\ ClassOf[name[c]] = Class[f.class]
  BY <1>9, <1>10, <1>11 DEF Settled
<1>13. NextOf(c) # NoBlock =>
         /\ NextOf(c) \in Listed /\ NextOf(c) \in Block /\ age[NextOf(c)] < age[c]
         /\ ClassOf[name[NextOf(c)]] = Class[f.class]
  BY <1>1, <1>10, <1>12, NextAge, ListedBlocks
<1>14. g \in FrameType /\ g.pc = "walk" /\ g.cur = NextOf(c) /\ g.class = f.class /\ g.dev = f.dev
  BY <1>3, <1>9, <1>10, <1>13 DEF FrameType, Pointer
<1>15. \A d \in Listed : ~ Removing(f, d)
  BY <1>9, RemovesNone
<1>16. Settled(g)'
  <2>1. g.cur # NoBlock => g.cur \in Listed' /\ g.class \in DOMAIN Class
                           /\ ClassOf[name'[g.cur]] = Class[g.class]
    BY <1>5, <1>7, <1>12, <1>13, <1>14
  <2> QED BY <1>14, <2>1 DEF Settled
<1>17. Joins(g, q, age)'
  <2>1. \A b \in Block : Targets(g, b)' => Targets(f, b)
    BY <1>9, <1>14 DEF Targets
  <2>2. \A d \in Listed' : Removing(f, d) => Removing(g, d)'
    BY <1>7, <1>15
  <2>3. g.pc \in Removal
    BY <1>14 DEF Removal
  <2> QED BY <1>1, <1>7, <1>10, <1>16, <2>1, <2>2, <2>3, FewerJoins
<1>18. ASSUME NEW d \in Listed, d # c, parent[d] = f.dev PROVE ToCome(g, d, age)'
  <2>1. ToCome(f, d, age)
    BY <1>9, <1>10, <1>18 DEF Running
  <2>2. UNCHANGED name
    BY <1>5
  <2> QED BY <1>1, <1>9, <1>10, <1>11, <1>14, <1>18, <2>1, <2>2, StepsOn
<1>19. Lets(f, g)
  BY <1>9, <1>14 DEF Lets, Cleaner
<1>20. CASE parent[c] # f.dev
  <2>1. stack'[t] = <<g>> \o q
    BY <1>6, <1>10, <1>20
  <2>2. Running(g, age)'
    <3>1. \A d \in Listed' : parent'[d] = g.dev => ToCome(g, d, age)'
      BY <1>5, <1>7, <1>14, <1>18, <1>20
    <3> QED BY <1>14, <3>1 DEF Running
  <2> QED BY <1>1, <1>7, <1>9, <1>14, <1>17, <1>19, <2>1, <2>2, GoesOn
<1>21. CASE parent[c] = f.dev
  <2>1. stack'[t] = <<r>> \o (<<g>> \o q)
    BY <1>6, <1>10, <1>21
  <2>2. name[c] \in Name /\ "remove" \in Pc
    BY <1>1, <1>11 DEF TypeOK, Pc
  <2>3. r \in FrameType /\ r.pc = "remove" /\ r.name = name[c] /\ r.cur = NoBlock /\ r.class = 0
    BY <1>4, <2>2, NewFrame
  <2>4. \A b \in Block : Targets(r, b)' => b = c
    BY <1>5, <1>7, <1>10, <1>12, <2>3 DEF Targets, Family
  <2>5. Settled(r)' /\ Running(r, age)' /\ r.pc \in Removal
    BY <2>3 DEF Settled, Running, Removal
  <2>6. age[f.dev] < age[c]
    <3>1. c \in alive /\ parent[c] # NoBlock
      BY <1>1, <1>2, <1>10, <1>21, BlockAssumption
    <3> QED BY <1>10, <1>21, <3>1 DEF Family
  <2>7. \A j \in DOMAIN q : Above(r, q[j], age)'
    <3> SUFFICES ASSUME NEW j \in DOMAIN q, q[j].pc = "walk", q[j].cur # NoBlock
                 PROVE  age[c] > age[q[j].cur]
      BY <2>4, <2>5 DEF Above
    <3>1. Above(f, q[j], age)
      BY <1>10 DEF Joins
    <3>2. Targets(f, f.dev)
      BY <1>9 DEF Targets
    <3>3. age[f.dev] > age[q[j].cur]
      BY <1>10, <3>1, <3>2 DEF Above
    <3>4. q[j].cur \in Block
      <4>1. q[j] \in FrameType
        BY <1>10, ElementOfSeq, LenProperties
      <4> QED BY <4>1 DEF FrameType, Pointer
    <3>5. age[c] \in Nat /\ age[f.dev] \in Nat /\ age[q[j].cur] \in Nat
      BY <1>10, <1>11, <3>4
    <3> QED BY <2>6, <3>3, <3>5
  <2>8. q # <<>> => Reaches(r, q[1], age)'
    <3> SUFFICES ASSUME q # <<>> PROVE Reaches(r, q[1], age)'
      OBVIOUS
    <3>1. Reaches(f, q[1], age)
      BY <1>10 DEF Joins
    <3>2. \A d \in Listed' : Removing(f, d) => Removing(r, d)'
      BY <1>7, <1>15
    <3>3. 1 \in DOMAIN q
      BY <1>10, EmptySeq, LenProperties
    <3>4. q[1].pc = "walk" => q[1].dev \in Block
      BY <1>10, <3>3, WalkDev
    <3> QED BY <1>1, <1>7, <3>1, <3>2, <3>4, FewerReaches
  <2>9. Joins(r, q, age)'
    BY <2>5, <2>7, <2>8 DEF Joins
  <2>10. Above(r, g, age)'
    <3>1. g.cur # NoBlock => \A b \in Block : Targets(r, b)' => age[b] > age[g.cur]
      <4> SUFFICES ASSUME NextOf(c) # NoBlock PROVE age[c] > age[NextOf(c)]
        BY <1>14, <2>4
      <4>1. age[c] \in Nat /\ age[NextOf(c)] \in Nat /\ age[NextOf(c)] < age[c]
        BY <1>11, <1>13
      <4> QED BY <4>1
    <3> QED BY <2>5, <3>1 DEF Above
  <2>11. Reaches(r, g, age)'
    <3> SUFFICES ASSUME NEW d \in Listed, parent[d] = f.dev
                 PROVE  ToCome(g, d, age)' \/ Removing(r, d)'
      BY <1>5, <1>7, <1>14 DEF Reaches
    <3>1. d = c => Removing(r, d)'
      BY <1>5, <1>7, <1>12, <2>3 DEF Removing, Targets
    <3> QED BY <1>18, <3>1
  <2>12. Joins(r, <<g>> \o q, age)'
    BY <1>10, <1>14, <2>9, <2>10, <2>11, JoinsOver
  <2> QED BY <1>1, <1>7, <1>9, <1>14, <1>17, <1>19, <2>1, <2>3, <2>5, <2>12, Calls
<1> QED BY <1>20, <1>21

-----------------------------------------------------------------------------
(***************************************************************************)
(* The steps of AddDevice and of the calls for relationships.              *)
(***************************************************************************)
(* Steps of frames that are above no walk. *)
LEMMA LonelyGoes ==
    ASSUME TypeOK, Same, NEW t \in Changer, NEW n \in Nat, NEW age \in [Block -> 0 .. n],
           NEW f, NEW q, Facing(t, f, q, age), f.pc \notin Removal,
           NEW g \in FrameType, stack'[t] = <<g>> \o q, Settled(g)', Running(g, age)'
    PROVE  InTurn'
<1>1. Joins(g, q, age)'
  BY LonelyTop, LonelyJoins
<1>2. Lets(f, g)
  BY DEF Lets, Cleaner, Removal
<1> QED BY <1>1, <1>2, GoesOn

LEMMA LonelyCalls ==
    ASSUME TypeOK, Same, NEW t \in Changer, NEW n \in Nat, NEW age \in [Block -> 0 .. n],
           NEW f, NEW q, Facing(t, f, q, age), f.pc \notin Removal,
           NEW g \in FrameType, NEW h \in FrameType, stack'[t] = <<g>> \o (<<h>> \o q),
           Settled(g)', Settled(h)', h.pc # "walk", Running(g, age)'
    PROVE  InTurn'
<1>1. Lonely(q)
  BY LonelyTop
<1>2. PICK r : r = <<h>> \o q
  OBVIOUS
<1>3. Lonely(r)
  <2>1. q \in Seq(FrameType) /\ \A i \in DOMAIN q : q[i].pc # "walk"
    BY <1>1 DEF Lonely
  <2>2. /\ r \in Seq(FrameType) /\ Len(r) = Len(q) + 1 /\ r[1] = h
        /\ \A i \in 2 .. Len(q) + 1 : r[i] = q[i - 1]
    BY <1>2, <2>1, PushedAt
  <2>3. \A i \in DOMAIN r : r[i].pc # "walk"
    <3> SUFFICES ASSUME NEW i \in DOMAIN r PROVE r[i].pc # "walk"
      OBVIOUS
    <3>1. DOMAIN q = 1 .. Len(q) /\ DOMAIN r = 1 .. Len(r) /\ Len(q) \in Nat
      BY <2>1, <2>2, LenProperties
    <3>2. CASE i = 1
      BY <2>2, <3>2
    <3>3. CASE i # 1
      <4>1. i \in 2 .. Len(q) + 1 /\ i - 1 \in DOMAIN q
        BY <2>2, <3>1, <3>3
      <4> QED BY <2>1, <2>2, <4>1
    <3> QED BY <3>2, <3>3
  <2> QED BY <2>2, <2>3 DEF Lonely
<1>4. Joins(h, q, age)'
  BY <1>1, LonelyJoins
<1>5. Joins(g, r, age)'
  BY <1>3, LonelyJoins
<1>6. Lets(f, h)
  BY DEF Lets, Cleaner, Removal
<1>7. Joins(g, <<h>> \o q, age)'
  BY <1>2, <1>5
<1> QED BY <1>4, <1>6, <1>7, Calls

LEMMA LonelyEnds ==
    ASSUME TypeOK, Same, NEW t \in Changer, NEW n \in Nat, NEW age \in [Block -> 0 .. n],
           NEW f, NEW q, Facing(t, f, q, age), f.pc \notin Removal,
           NEW g \in FrameType, stack'[t] = <<g>> \o q, g.pc = "drop", g.cur = NoBlock
    PROVE  InTurn'
<1>1. Settled(g)' /\ Running(g, age)'
  BY DEF Settled, Running
<1> QED BY <1>1, LonelyGoes

LEMMA ProbeDeviceTurn ==
    ASSUME Core, InTurn, ~ overlap, NEW t \in Changer, ProbeDevice(t)
    PROVE  InTurn'
<1>1. At(t, "probe") /\ TypeOK /\ t \in Thread
  BY Changers DEF ProbeDevice, Core
<1>2. /\ UNCHANGED <<list, alive, name, parent>>
      /\ \/ Resume(t, Goto(t, "discard"))
         \/ Resume(t, Goto(t, "drop"))
         \/ Me(t).name \in ParentNames /\ \E m \in Name \ {Me(t).name} :
               Resume(t, <<Registration(m, Me(t).name)>> \o Goto(t, "drop"))
  BY DEF ProbeDevice, blockVars
<1>3. PICK s : Resume(t, s)
  BY <1>2
<1>4. OthersStay(t) /\ \A r : Resume(t, r) => stack'[t] = r
  BY <1>1, <1>3, Resumed
<1>5. Same /\ Listed' = Listed
  BY <1>2, SameAll DEF Same, Listed
<1>6. PICK n \in Nat :
        \E age \in [Block -> 0 .. n] : \E f, q : Facing(t, f, q, age) /\ f.pc = "probe"
  BY <1>1, <1>4, Face
<1>age. PICK age \in [Block -> 0 .. n] : \E f, q : Facing(t, f, q, age) /\ f.pc = "probe"
  BY <1>6
<1>7. PICK f, q : Facing(t, f, q, age) /\ f.pc = "probe"
  BY <1>age
<1>8. /\ f = Me(t) /\ q = Rest(t) /\ f \in FrameType /\ f.cur = NoBlock /\ f.pc \notin Removal
      /\ f.name \in Name
  BY <1>7, NotWalking DEF Facing, Removal, FrameType
<1>9. "drop" \in Pc /\ "discard" \in Pc /\ "register" \in Pc
  BY DEF Pc
<1>10. CASE Resume(t, Goto(t, "discard"))
  <2>1. PICK g : g = [f EXCEPT !.pc = "discard"]
    OBVIOUS
  <2>2. g \in FrameType /\ g.pc = "discard" /\ g.dev = f.dev /\ g.cur = NoBlock
    BY <1>8, <1>9, <2>1 DEF FrameType
  <2>3. stack'[t] = <<g>> \o q
    BY <1>4, <1>8, <1>10, <2>1 DEF Goto
  <2>4. Running(f, age)
    BY <1>7 DEF Facing
  <2>5. Settled(g)' /\ Running(g, age)'
    BY <1>2, <1>5, <1>7, <2>2, <2>4 DEF Settled, Running
  <2> QED BY <1>1, <1>5, <1>7, <1>8, <2>2, <2>3, <2>5, LonelyGoes
<1>11. PICK h : h = [f EXCEPT !.pc = "drop"]
  OBVIOUS
<1>12. h \in FrameType /\ h.pc = "drop" /\ h.cur = NoBlock /\ Goto(t, "drop") = <<h>> \o q
  BY <1>8, <1>9, <1>11 DEF FrameType, Goto
<1>13. CASE Resume(t, Goto(t, "drop"))
  BY <1>1, <1>4, <1>5, <1>7, <1>8, <1>12, <1>13, LonelyEnds
<1>14. CASE Me(t).name \in ParentNames /\ \E m \in Name \ {Me(t).name} :
               Resume(t, <<Registration(m, Me(t).name)>> \o Goto(t, "drop"))
  <2>1. PICK m \in Name : Resume(t, <<Registration(m, Me(t).name)>> \o Goto(t, "drop"))
    BY <1>14
  <2>2. PICK g : g = Registration(m, f.name)
    OBVIOUS
  <2>3. g \in FrameType /\ g.pc = "register" /\ g.of = f.name /\ g.cur = NoBlock
    BY <1>8, <1>9, <2>2 DEF Registration, Frame, FrameType, Pointer
  <2>4. stack'[t] = <<g>> \o (<<h>> \o q)
    BY <1>4, <1>8, <1>12, <2>1, <2>2
  <2>5. Settled(g)' /\ Settled(h)' /\ Running(g, age)' /\ h.pc # "walk"
    BY <1>8, <1>12, <1>14, <2>3 DEF Settled, Running
  <2> QED BY <1>1, <1>5, <1>7, <1>8, <1>12, <2>3, <2>4, <2>5, LonelyCalls
<1> QED BY <1>2, <1>10, <1>13, <1>14

LEMMA CheckChildTurn ==
    ASSUME Core, InTurn, ~ overlap, NEW t \in Changer, CheckChild(t)
    PROVE  InTurn'
<1>1. At(t, "register") /\ TypeOK /\ t \in Thread
  BY Changers DEF CheckChild, Core
<1>2. PICK b : b = Find(Me(t).name)
  OBVIOUS
<1>3. UNCHANGED <<list, alive, name, parent>> /\
      Resume(t, IF b = NoBlock THEN Goto(t, "parent") ELSE Using(t, "drop", b))
  BY <1>2 DEF CheckChild
<1>4. /\ stack'[t] = (IF b = NoBlock THEN Goto(t, "parent") ELSE Using(t, "drop", b))
      /\ OthersStay(t)
  BY <1>1, <1>3, Resumed
<1>5. Same
  BY <1>3, SameAll
<1>6. PICK n \in Nat :
        \E age \in [Block -> 0 .. n] : \E f, q : Facing(t, f, q, age) /\ f.pc = "register"
  BY <1>1, <1>4, Face
<1>age. PICK age \in [Block -> 0 .. n] : \E f, q : Facing(t, f, q, age) /\ f.pc = "register"
  BY <1>6
<1>7. PICK f, q : Facing(t, f, q, age) /\ f.pc = "register"
  BY <1>age
<1>8. /\ f = Me(t) /\ q = Rest(t) /\ f \in FrameType /\ f.cur = NoBlock /\ f.pc \notin Removal
      /\ f.name \in Name /\ f.of \in ParentNames
  BY <1>7, NotWalking DEF Facing, Removal, FrameType, Joins, Settled
<1>9. "drop" \in Pc /\ "parent" \in Pc /\ b \in Pointer
  BY <1>1, <1>2, <1>8, FindListed, ListedBlocks DEF Pc, Pointer
<1>10. CASE b = NoBlock
  <2>1. PICK g : g = [f EXCEPT !.pc = "parent"]
    OBVIOUS
  <2>2. g \in FrameType /\ g.pc = "parent" /\ g.of = f.of /\ g.cur = NoBlock
    BY <1>8, <1>9, <2>1 DEF FrameType
  <2>3. stack'[t] = <<g>> \o q
    BY <1>4, <1>8, <1>10, <2>1 DEF Goto
  <2>4. Settled(g)' /\ Running(g, age)'
    BY <1>8, <2>2 DEF Settled, Running
  <2> QED BY <1>1, <1>5, <1>7, <1>8, <2>2, <2>3, <2>4, LonelyGoes
<1>11. CASE b # NoBlock
  <2>1. PICK g : g = [f EXCEPT !.pc = "drop", !.dev = b]
    OBVIOUS
  <2>2. g \in FrameType /\ g.pc = "drop" /\ g.cur = NoBlock
    BY <1>8, <1>9, <2>1 DEF FrameType
  <2>3. stack'[t] = <<g>> \o q
    BY <1>4, <1>8, <1>11, <2>1 DEF Using
  <2> QED BY <1>1, <1>5, <1>7, <1>8, <2>2, <2>3, LonelyEnds
<1> QED BY <1>10, <1>11

LEMMA FindParentTurn ==
    ASSUME Core, InTurn, ~ overlap, NEW t \in Changer, FindParent(t)
    PROVE  InTurn'
<1>1. At(t, "parent") /\ TypeOK /\ ListsOK /\ t \in Thread
  BY Changers DEF FindParent, Core
<1>2. PICK p : p = Find(Me(t).of)
  OBVIOUS
<1>3. PICK g : g = [Frame("add", Me(t).name) EXCEPT !.parent = p]
  OBVIOUS
<1>4. PICK h : h = [Me(t) EXCEPT !.pc = "registered", !.parent = p]
  OBVIOUS
<1>5. UNCHANGED <<list, alive, name, parent>> /\
      Resume(t, IF p = NoBlock THEN Rest(t) ELSE <<g, h>> \o Rest(t))
  BY <1>2, <1>3, <1>4 DEF FindParent
<1>6. stack'[t] = (IF p = NoBlock THEN Rest(t) ELSE <<g, h>> \o Rest(t)) /\ OthersStay(t)
  BY <1>1, <1>5, Resumed
<1>7. Same /\ Listed' = Listed
  BY <1>5, SameAll DEF Same, Listed
<1>8. PICK n \in Nat :
        \E age \in [Block -> 0 .. n] : \E f, q : Facing(t, f, q, age) /\ f.pc = "parent"
  BY <1>1, <1>6, Face
<1>age. PICK age \in [Block -> 0 .. n] : \E f, q : Facing(t, f, q, age) /\ f.pc = "parent"
  BY <1>8
<1>9. PICK f, q : Facing(t, f, q, age) /\ f.pc = "parent"
  BY <1>age
<1>10. /\ f = Me(t) /\ q = Rest(t) /\ f \in FrameType /\ f.cur = NoBlock /\ f.pc \notin Removal
       /\ f.name \in Name /\ f.of \in Name /\ f.of \in ParentNames /\ q \in Seq(FrameType)
       /\ f.dev = NoBlock
  BY <1>9, NotWalking DEF Facing, Removal, FrameType, Joins, Settled, FrameOK
<1>11. "add" \in Pc /\ "registered" \in Pc /\ p \in Pointer
  BY <1>1, <1>2, <1>10, FindListed, ListedBlocks DEF Pc, Pointer
<1>12. CASE p = NoBlock
  <2>1. stack'[t] = q
    BY <1>6, <1>10, <1>12
  <2>2. \A c \in Listed : ~ Removing(f, c)
    BY <1>9, RemovesNone
  <2> QED BY <1>1, <1>7, <1>9, <2>1, <2>2, Returns
<1>13. CASE p # NoBlock
  <2>1. g \in FrameType /\ g.pc = "add" /\ g.parent = p /\ g.cur = NoBlock
    BY <1>3, <1>10, <1>11 DEF Frame, FrameType, Pointer
  <2>2. h \in FrameType /\ h.pc = "registered" /\ h.dev = NoBlock /\ h.cur = NoBlock
    BY <1>4, <1>10, <1>11 DEF FrameType, Pointer
  <2>3. stack'[t] = <<g>> \o (<<h>> \o q)
    BY <1>6, <1>10, <1>13, <2>1, <2>2, TwoOnTop
  <2>4. p \in Listed /\ name[p] = f.of
    BY <1>1, <1>2, <1>10, <1>13, FindListed
  <2>5. Settled(g)' /\ Settled(h)' /\ Running(g, age)' /\ h.pc # "walk"
    BY <1>5, <1>7, <1>10, <2>1, <2>2, <2>4 DEF Settled, Running
  <2> QED BY <1>1, <1>7, <1>9, <1>10, <2>1, <2>2, <2>3, <2>5, LonelyCalls
<1> QED BY <1>12, <1>13

LEMMA FindChildTurn ==
    ASSUME Core, InTurn, ~ overlap, NEW t \in Changer, FindChild(t)
    PROVE  InTurn'
<1>1. At(t, "registered") /\ TypeOK /\ t \in Thread
  BY Changers DEF FindChild, Core
<1>2. PICK b : b = Find(Me(t).name)
  OBVIOUS
<1>3. PICK g : g = [Me(t) EXCEPT !.pc = "drop", !.dev = b]
  OBVIOUS
<1>4. UNCHANGED <<list, alive, name, parent>> /\
      Resume(t, IF b = NoBlock THEN Using(t, "drop", Me(t).parent)
                ELSE <<g>> \o Using(t, "drop", Me(t).parent))
  BY <1>2, <1>3 DEF FindChild
<1>5. /\ stack'[t] = (IF b = NoBlock THEN Using(t, "drop", Me(t).parent)
                      ELSE <<g>> \o Using(t, "drop", Me(t).parent))
      /\ OthersStay(t)
  BY <1>1, <1>4, Resumed
<1>6. Same
  BY <1>4, SameAll
<1>7. PICK n \in Nat :
        \E age \in [Block -> 0 .. n] : \E f, q : Facing(t, f, q, age) /\ f.pc = "registered"
  BY <1>1, <1>5, Face
<1>age. PICK age \in [Block -> 0 .. n] : \E f, q : Facing(t, f, q, age) /\ f.pc = "registered"
  BY <1>7
<1>8. PICK f, q : Facing(t, f, q, age) /\ f.pc = "registered"
  BY <1>age
<1>9. /\ f = Me(t) /\ q = Rest(t) /\ f \in FrameType /\ f.cur = NoBlock /\ f.pc \notin Removal
      /\ f.name \in Name /\ f.parent \in Pointer
  BY <1>8, NotWalking DEF Facing, Removal, FrameType
<1>10. "drop" \in Pc /\ b \in Pointer
  BY <1>1, <1>2, <1>9, FindListed, ListedBlocks DEF Pc, Pointer
<1>11. PICK h : h = [f EXCEPT !.pc = "drop", !.dev = f.parent]
  OBVIOUS
<1>12. h \in FrameType /\ h.pc = "drop" /\ h.cur = NoBlock /\ h.pc # "walk"
  BY <1>9, <1>10, <1>11 DEF FrameType
<1>13. Using(t, "drop", Me(t).parent) = <<h>> \o q
  BY <1>9, <1>11 DEF Using
<1>14. CASE b = NoBlock
  <2>1. stack'[t] = <<h>> \o q
    BY <1>5, <1>13, <1>14
  <2> QED BY <1>1, <1>6, <1>8, <1>9, <1>12, <2>1, LonelyEnds
<1>15. CASE b # NoBlock
  <2>1. g \in FrameType /\ g.pc = "drop" /\ g.cur = NoBlock
    BY <1>3, <1>9, <1>10 DEF FrameType
  <2>2. stack'[t] = <<g>> \o (<<h>> \o q)
    BY <1>5, <1>13, <1>15
  <2>3. Settled(g)' /\ Settled(h)' /\ Running(g, age)'
    BY <1>12, <2>1 DEF Settled, Running
  <2> QED BY <1>1, <1>6, <1>8, <1>9, <1>12, <2>1, <2>2, <2>3, LonelyCalls
<1> QED BY <1>14, <1>15

LEMMA ReleaseDeviceTurn ==
    ASSUME Core, InTurn, ~ overlap, NEW t \in Changer, ReleaseDevice(t)
    PROVE  InTurn'
<1>1. At(t, "release") /\ TypeOK /\ t \in Thread
  BY Changers DEF ReleaseDevice, Core
<1>2. PICK g : g = Frame("remove", name[Me(t).dev])
  OBVIOUS
<1>3. UNCHANGED <<list, alive, name, parent>> /\ Resume(t, <<g>> \o Goto(t, "drop"))
      /\ Me(t).dev \in Listed
  BY <1>2 DEF ReleaseDevice, blockVars
<1>4. stack'[t] = <<g>> \o Goto(t, "drop") /\ OthersStay(t)
  BY <1>1, <1>3, Resumed
<1>5. Same
  BY <1>3, SameAll
<1>6. PICK n \in Nat :
        \E age \in [Block -> 0 .. n] : \E f, q : Facing(t, f, q, age) /\ f.pc = "release"
  BY <1>1, <1>4, Face
<1>age. PICK age \in [Block -> 0 .. n] : \E f, q : Facing(t, f, q, age) /\ f.pc = "release"
  BY <1>6
<1>7. PICK f, q : Facing(t, f, q, age) /\ f.pc = "release"
  BY <1>age
<1>8. /\ f = Me(t) /\ q = Rest(t) /\ f \in FrameType /\ f.cur = NoBlock /\ f.pc \notin Removal
  BY <1>7, NotWalking DEF Facing, Removal
<1>9. "drop" \in Pc /\ "remove" \in Pc /\ name[Me(t).dev] \in Name
  BY <1>1, <1>3, ListedBlocks DEF Pc, TypeOK
<1>10. PICK h : h = [f EXCEPT !.pc = "drop"]
  OBVIOUS
<1>11. h \in FrameType /\ h.pc = "drop" /\ h.cur = NoBlock /\ Goto(t, "drop") = <<h>> \o q
  BY <1>8, <1>9, <1>10 DEF FrameType, Goto
<1>12. g \in FrameType /\ g.pc = "remove" /\ g.cur = NoBlock /\ g.class = 0
  BY <1>2, <1>9 DEF Frame, FrameType, Pointer
<1>13. stack'[t] = <<g>> \o (<<h>> \o q)
  BY <1>4, <1>11
<1>14. Settled(g)' /\ Settled(h)' /\ Running(g, age)' /\ h.pc # "walk"
  BY <1>11, <1>12 DEF Settled, Running
<1> QED BY <1>1, <1>5, <1>7, <1>8, <1>11, <1>12, <1>13, <1>14, LonelyCalls

LEMMA FindDuplicateFoundTurn ==
    ASSUME Core, InTurn, ~ overlap, NEW t \in Changer, FindDuplicate(t), Find(Me(t).name) # NoBlock
    PROVE  InTurn'
<1>1. At(t, "add") /\ TypeOK /\ t \in Thread
  BY Changers DEF FindDuplicate, Core
<1>2. PICK b : b = Find(Me(t).name)
  OBVIOUS
<1>3. UNCHANGED <<list, alive, name, parent>> /\ Resume(t, Using(t, "drop", b))
  BY <1>2 DEF FindDuplicate, blockVars
<1>4. stack'[t] = Using(t, "drop", b) /\ OthersStay(t)
  BY <1>1, <1>3, Resumed
<1>5. Same
  BY <1>3, SameAll
<1>6. PICK n \in Nat :
        \E age \in [Block -> 0 .. n] : \E f, q : Facing(t, f, q, age) /\ f.pc = "add"
  BY <1>1, <1>4, Face
<1>age. PICK age \in [Block -> 0 .. n] : \E f, q : Facing(t, f, q, age) /\ f.pc = "add"
  BY <1>6
<1>7. PICK f, q : Facing(t, f, q, age) /\ f.pc = "add"
  BY <1>age
<1>8. /\ f = Me(t) /\ q = Rest(t) /\ f \in FrameType /\ f.cur = NoBlock /\ f.pc \notin Removal
      /\ f.name \in Name
  BY <1>7, NotWalking DEF Facing, Removal, FrameType
<1>9. "drop" \in Pc /\ b \in Pointer
  BY <1>1, <1>2, <1>8, FindListed, ListedBlocks DEF Pc, Pointer
<1>10. PICK g : g = [f EXCEPT !.pc = "drop", !.dev = b]
  OBVIOUS
<1>11. g \in FrameType /\ g.pc = "drop" /\ g.cur = NoBlock
  BY <1>8, <1>9, <1>10 DEF FrameType
<1>12. stack'[t] = <<g>> \o q
  BY <1>4, <1>8, <1>10 DEF Using
<1> QED BY <1>1, <1>5, <1>7, <1>8, <1>11, <1>12, LonelyEnds

LEMMA FindDuplicateNoMemoryTurn ==
    ASSUME Core, InTurn, ~ overlap, NEW t \in Changer, At(t, "add"), Resume(t, Rest(t)),
           UNCHANGED <<list, alive, name, parent>>
    PROVE  InTurn'
<1>1. TypeOK /\ t \in Thread
  BY Changers DEF Core
<1>2. stack'[t] = Rest(t) /\ OthersStay(t)
  BY <1>1, Resumed
<1>3. Same
  BY SameAll
<1>4. PICK n \in Nat :
        \E age \in [Block -> 0 .. n] : \E f, q : Facing(t, f, q, age) /\ f.pc = "add"
  BY <1>2, Face
<1>age. PICK age \in [Block -> 0 .. n] : \E f, q : Facing(t, f, q, age) /\ f.pc = "add"
  BY <1>4
<1>5. PICK f, q : Facing(t, f, q, age) /\ f.pc = "add"
  BY <1>age
<1>6. stack'[t] = q /\ \A c \in Listed : ~ Removing(f, c)
  BY <1>2, <1>5, RemovesNone DEF Facing
<1> QED BY <1>1, <1>3, <1>5, <1>6, Returns

(* The frame goes on, over the destruction of a block if that was its last *)
(* reference.                                                              *)
LEMMA DestroysFirst ==
    ASSUME TypeOK, Same, NEW t \in Changer, NEW n \in Nat, NEW age \in [Block -> 0 .. n],
           NEW f, NEW q, Facing(t, f, q, age), f.pc \notin {"remove", "unlink"},
           NEW h \in FrameType, h.cur = NoBlock, Joins(h, q, age)', Running(h, age)', Lets(f, h),
           NEW x, stack'[t] = Destroying(x) \o (<<h>> \o q)
    PROVE  InTurn'
<1>1. q \in Seq(FrameType)
  BY DEF Facing
<1>2. PICK r : r = <<h>> \o q
  OBVIOUS
<1>3. r \in Seq(FrameType)
  BY <1>1, <1>2, PushedAt
<1>4. CASE x \in Block /\ ref[x] = 1
  <2> DEFINE e == [Frame("destroy", name[x]) EXCEPT !.dev = x]
  <2>1. PICK d : d = e
    OBVIOUS
  <2>2. e \in FrameType /\ e.pc = "destroy" /\ e.cur = NoBlock
    BY <1>4, DestroyFrame
  <2>3. Destroying(x) = <<e>>
    BY <1>4 DEF Destroying
  <2> HIDE DEF e
  <2>4. stack'[t] = <<d>> \o (<<h>> \o q) /\ d \in FrameType /\ d.pc = "destroy" /\ d.cur = NoBlock
    BY <2>1, <2>2, <2>3
  <2>5. \A c \in Listed : ~ Removing(f, c)
    BY RemovesNone
  <2>6. Joins(d, q, age)' /\ Running(d, age)'
    BY <2>4, <2>5, EndJoins
  <2>7. Above(d, h, age)'
    BY <2>4 DEF Above, Removal
  <2>8. Reaches(d, h, age)'
    BY DEF Reaches, Running
  <2>9. Joins(d, <<h>> \o q, age)'
    BY <1>1, <2>6, <2>7, <2>8, JoinsOver
  <2> QED BY <2>4, <2>6, <2>9, Calls
<1>5. CASE ~ (x \in Block /\ ref[x] = 1)
  <2>1. Destroying(x) = <<>>
    BY <1>5 DEF Destroying
  <2>2. stack'[t] = r
    BY <1>2, <1>3, <2>1, ConcatEmptySeq
  <2>3. stack'[t] = <<h>> \o q
    BY <1>2, <2>2
  <2> QED BY <2>3, GoesOn
<1> QED BY <1>4, <1>5

LEMMA SomeClass ==
    ASSUME NEW m \in Name
    PROVE  \E k \in DOMAIN Class : k > 0 /\ Class[k] = ClassOf[m]
<1>1. ClassOf[m] \in ToSet(Class)
  BY NameType DEF Classes
<1>2. \E k \in DOMAIN Class : Class[k] = ClassOf[m]
  BY <1>1 DEF ToSet
<1> QED BY <1>2, ClassType

LEMMA LeaveParentTurn ==
    ASSUME Core, InTurn, ~ overlap, NEW t \in Changer, LeaveParent(t)
    PROVE  InTurn'
<1>1. At(t, "orphan") /\ TypeOK /\ t \in Thread
  BY Changers DEF LeaveParent, Core
<1>2. PICK b : b = Me(t).dev
  OBVIOUS
<1>3. PICK x : x = parent[b]
  OBVIOUS
<1>4. PICK h : h = [Me(t) EXCEPT !.pc = AfterUnlink(b)]
  OBVIOUS
<1>5. /\ Resume(t, Destroying(x) \o (<<h>> \o Rest(t))) /\ UNCHANGED <<list, alive, name>>
      /\ parent' = [parent EXCEPT ![b] = NoBlock]
  BY <1>2, <1>3, <1>4 DEF LeaveParent, DeviceStateDecRef, Goto
<1>6. stack'[t] = Destroying(x) \o (<<h>> \o Rest(t)) /\ OthersStay(t)
  BY <1>1, <1>5, Resumed
<1>7. PICK n \in Nat :
        \E age \in [Block -> 0 .. n] : \E f, q : Facing(t, f, q, age) /\ f.pc = "orphan"
  BY <1>1, <1>6, Face
<1>age. PICK age \in [Block -> 0 .. n] : \E f, q : Facing(t, f, q, age) /\ f.pc = "orphan"
  BY <1>7
<1>8. PICK f, q : Facing(t, f, q, age) /\ f.pc = "orphan"
  BY <1>age
<1>9. /\ f = Me(t) /\ q = Rest(t) /\ f \in FrameType /\ f.cur = NoBlock /\ f.class = 0
      /\ b \in Block /\ f.dev = b /\ Sound(q) /\ Joins(f, q, age) /\ Family(age)
  BY <1>2, <1>8, NotWalking DEF Facing, FrameOK, Joins, Settled
<1>10. Same /\ Fewer /\ Listed' = Listed
  BY <1>1, <1>5, <1>9, DestroySame DEF Same, Listed
<1>11. \A c \in Listed : ~ Removing(f, c)
  BY <1>8, RemovesNone
<1>12. AfterUnlink(b) \in Pc /\ AfterUnlink(b) \in {"walk", "drop"}
  BY DEF AfterUnlink, Pc
<1>13. /\ h \in FrameType /\ h.pc = AfterUnlink(b) /\ h.dev = b /\ h.cur = NoBlock /\ h.class = 0
       /\ stack'[t] = Destroying(x) \o (<<h>> \o q)
  BY <1>4, <1>6, <1>9, <1>12 DEF FrameType
<1>14. CASE AfterUnlink(b) = "walk"
  <2>1. Settled(h)'
    BY <1>13, <1>14 DEF Settled
  <2>2. \A d \in Block : Targets(h, d)' => Targets(f, d)
    BY <1>8, <1>9, <1>13, <1>14 DEF Targets
  <2>3. \A c \in Listed' : Removing(f, c) => Removing(h, c)'
    BY <1>10, <1>11
  <2>4. h.pc \in Removal
    BY <1>13, <1>14 DEF Removal
  <2>5. Joins(h, q, age)'
    BY <1>1, <1>9, <1>10, <2>1, <2>2, <2>3, <2>4, FewerJoins
  <2>6. \A c \in Listed' : ToCome(h, c, age)'
    <3> SUFFICES ASSUME NEW c \in Listed PROVE ToCome(h, c, age)'
      BY <1>10
    <3>1. name[c] \in Name
      BY <1>1, ListedBlocks DEF TypeOK
    <3>2. \E k \in DOMAIN Class : k > 0 /\ Class[k] = ClassOf[name[c]]
      BY <3>1, SomeClass
    <3> QED BY <1>5, <1>13, <3>2 DEF ToCome
  <2>7. Running(h, age)'
    BY <1>13, <1>14, <2>6 DEF Running
  <2>8. Lets(f, h)
    BY <1>8, <1>9, <1>13, <1>14 DEF Lets, Cleaner
  <2> QED BY <1>1, <1>8, <1>10, <1>13, <2>5, <2>7, <2>8, DestroysFirst
<1>15. CASE AfterUnlink(b) = "drop"
  <2>1. name[b] \notin ParentNames
    BY <1>15 DEF AfterUnlink
  <2>2. ASSUME NEW c \in Listed PROVE parent'[c] # b
    <3>1. c \in alive /\ c \in Block
      BY <1>1, AllAllocated, ListedBlocks DEF HeldIsAllocated
    <3>2. b # NoBlock
      BY <1>9, BlockAssumption
    <3>3. parent[c] # b
      BY <1>9, <2>1, <3>1, <3>2 DEF Family
    <3> QED BY <1>10, <3>1, <3>2, <3>3 DEF Fewer
  <2>3. Lets(f, h)
    BY <1>9, <2>2 DEF Lets, Cleaner
  <2>4. Joins(h, q, age)' /\ Running(h, age)'
    BY <1>1, <1>8, <1>10, <1>11, <1>13, <1>15, EndJoins
  <2> QED BY <1>1, <1>8, <1>10, <1>13, <2>3, <2>4, DestroysFirst
<1> QED BY <1>12, <1>14, <1>15

LEMMA OthersEmpty ==
    ASSUME NEW t, NEW f, NEW q, NEW age, Facing(t, f, q, age)
    PROVE  \A u \in Changer \ {t} : stack'[u] = <<>>
BY DEF Facing

(* The new block is the youngest. *)
LEMMA FindDuplicateAllocTurn ==
    ASSUME Core, InTurn, ~ overlap, NEW t \in Changer, At(t, "add"), Find(Me(t).name) = NoBlock,
           NEW b \in Block \ alive, alive' = alive \cup {b},
           name' = [name EXCEPT ![b] = Me(t).name], parent' = [parent EXCEPT ![b] = Me(t).parent],
           Resume(t, Using(t, "insert", b)), UNCHANGED list
    PROVE  InTurn'
<1>1. TypeOK /\ ListsOK /\ t \in Thread
  BY Changers DEF Core
<1>2. stack'[t] = Using(t, "insert", b) /\ OthersStay(t)
  BY <1>1, Resumed
<1>3. PICK n \in Nat :
        \E age \in [Block -> 0 .. n] : \E f, q : Facing(t, f, q, age) /\ f.pc = "add"
  BY <1>2, Face
<1>age. PICK age \in [Block -> 0 .. n] : \E f, q : Facing(t, f, q, age) /\ f.pc = "add"
  BY <1>3
<1>4. PICK f, q : Facing(t, f, q, age) /\ f.pc = "add"
  BY <1>age
<1>5. /\ f = Me(t) /\ q = Rest(t) /\ f \in FrameType /\ f.cur = NoBlock /\ f.pc \notin Removal
      /\ f.name \in Name /\ f.parent \in Pointer /\ q \in Seq(FrameType) /\ Sound(q)
      /\ Joins(f, q, age) /\ Frames(q, age) /\ Family(age) /\ NoOrphan /\ Running(f, age)
  BY <1>4, NotWalking DEF Facing, Removal, FrameType
<1>6. PICK g : g = [f EXCEPT !.pc = "insert", !.dev = b]
  OBVIOUS
<1>7. "insert" \in Pc /\ b \in Pointer /\ b \in Block /\ b # NoBlock
  BY BlockAssumption DEF Pc, Pointer
<1>8. g \in FrameType /\ g.pc = "insert" /\ g.dev = b /\ g.cur = NoBlock
  BY <1>5, <1>6, <1>7 DEF FrameType
<1>9. PICK s : s = <<g>> \o q
  OBVIOUS
<1>10. stack'[t] = s
  BY <1>2, <1>5, <1>6, <1>9 DEF Using
<1>11. PICK elder : elder = [age EXCEPT ![b] = n + 1]
  OBVIOUS
<1>12. /\ n + 1 \in Nat /\ elder \in [Block -> 0 .. n + 1] /\ elder[b] = n + 1
       /\ \A c \in Block \ {b} : elder[c] = age[c] /\ elder[c] < n + 1
  BY <1>7, <1>11
<1>13. Listed \subseteq alive /\ \A c \in alive : parent[c] \in alive \cup {NoBlock}
  BY AllAllocated DEF HeldIsAllocated
<1>14. Listed' = Listed /\ Listed \subseteq Block /\ b \notin Listed /\ alive \subseteq Block
       /\ NoBlock \notin Listed
  BY <1>1, <1>13, ListedBlocks DEF Listed, TypeOK
<1>15. /\ name'[b] = f.name /\ parent'[b] = f.parent
       /\ \A c \in Block \ {b} : name'[c] = name[c] /\ parent'[c] = parent[c]
  BY <1>1, <1>5, <1>7 DEF TypeOK
<1>16. Family(elder)'
  <2>1. ASSUME NEW c \in Classes, NEW i \in DOMAIN list'[c], NEW j \in DOMAIN list'[c], i < j
        PROVE  elder[list'[c][i]] > elder[list'[c][j]]
    <3>1. i \in DOMAIN list[c] /\ j \in DOMAIN list[c] /\ list' = list
      BY <2>1
    <3>2. list[c][i] \in Block \ {b} /\ list[c][j] \in Block \ {b}
      BY <1>1, <1>14, <3>1, MemberListed
    <3>3. age[list[c][i]] > age[list[c][j]]
      BY <1>5, <2>1, <3>1 DEF Family
    <3> QED BY <1>12, <3>1, <3>2, <3>3
  <2>2. ASSUME NEW c \in alive', parent'[c] # NoBlock
        PROVE  elder[parent'[c]] < elder[c] /\ name'[parent'[c]] \in ParentNames
    <3>1. CASE c = b
      <4>1. f.parent \in Listed /\ name[f.parent] \in ParentNames
        BY <1>4, <1>5, <1>15, <2>2, <3>1 DEF Running
      <4>2. f.parent \in Block \ {b}
        BY <1>14, <4>1
      <4> QED BY <1>12, <1>15, <3>1, <4>1, <4>2
    <3>2. CASE c # b
      <4>1. c \in alive /\ c \in Block \ {b} /\ parent'[c] = parent[c]
        BY <1>14, <1>15, <2>2, <3>2
      <4>2. parent[c] \in alive /\ parent[c] \in Block \ {b}
        BY <1>13, <1>14, <2>2, <4>1
      <4>3. age[parent[c]] < age[c] /\ name[parent[c]] \in ParentNames
        BY <1>5, <2>2, <4>1 DEF Family
      <4> QED BY <1>12, <1>15, <4>1, <4>2, <4>3
    <3> QED BY <3>1, <3>2
  <2>3. ASSUME NEW c \in Listed', NEW d \in Listed', name'[c] = name'[d] PROVE c = d
    <3>1. c \in Listed /\ d \in Listed /\ name[c] = name[d]
      BY <1>14, <1>15, <2>3
    <3> QED BY <1>5, <3>1 DEF Family
  <2> QED BY <2>1, <2>2, <2>3 DEF Family
<1>18. NoOrphan'
  <2> SUFFICES ASSUME NEW c \in Listed, parent'[c] \notin Listed \cup {NoBlock}
               PROVE  \E u \in Changer : Cleans(stack'[u], parent'[c])
    BY <1>14 DEF NoOrphan
  <2>1. parent'[c] = parent[c]
    BY <1>14, <1>15
  <2>2. PICK u \in Changer : Cleans(stack[u], parent[c])
    BY <1>5, <2>1 DEF NoOrphan
  <2>3. u = t
    <3>1. u # t => stack[u] = <<>>
      BY <1>4 DEF Facing
    <3> QED BY <2>2, <3>1 DEF Cleans
  <2>4. Cleans(<<f>> \o q, parent[c])
    BY <1>4, <2>2, <2>3 DEF Facing
  <2>5. Cleans(q, parent[c])
    BY <1>4, <1>5, <2>4, CleansSplit DEF Cleaner
  <2>6. Cleans(s, parent[c])
    BY <1>5, <1>8, <1>9, <2>5, CleansSplit
  <2> QED BY <1>10, <2>1, <2>6
<1>19. Lonely(q)
  BY <1>4, <1>5, LonelyTop
<1>20. Frames(q, elder)'
  BY <1>5, <1>19, LonelyFrames
<1>21. Settled(g)'
  BY <1>8 DEF Settled
<1>22. Joins(g, q, elder)'
  BY <1>19, <1>21, LonelyJoins
<1>23. Frames(s, elder)' /\ Head(s) = g
  BY <1>5, <1>8, <1>9, <1>20, <1>22, FramesJoin, PushedAt
<1>24. Running(g, elder)'
  <2>1. parent'[b] \in Listed' \cup {NoBlock}
    BY <1>4, <1>5, <1>14, <1>15 DEF Running
  <2>2. ASSUME NEW c \in Listed' PROVE name'[c] # name'[b] /\ elder[c] < elder[b]
    <3>1. c \in Listed /\ c \in Block \ {b}
      BY <1>14
    <3>2. name[c] # f.name
      BY <1>1, <1>5, <3>1, FindNone
    <3> QED BY <1>12, <1>15, <3>1, <3>2
  <2> QED BY <1>8, <2>1, <2>2 DEF Running
<1>25. s # <<>> => Running(Head(s), elder)'
  BY <1>23, <1>24
<1>26. \A u \in Changer \ {t} : stack'[u] = <<>>
  BY <1>4, OthersEmpty
<1> QED BY <1>10, <1>12, <1>16, <1>18, <1>23, <1>25, <1>26, Settle

(* A frame that is no cleaner makes place for another. *)
LEMMA CleansOn ==
    ASSUME NEW t \in Changer, NEW f, NEW q, NEW age, Facing(t, f, q, age),
           f.pc \notin {"orphan", "walk"}, NEW g \in FrameType, stack'[t] = <<g>> \o q,
           NEW b, \E u \in Changer : Cleans(stack[u], b)
    PROVE  \E u \in Changer : Cleans(stack'[u], b)
<1>1. PICK u \in Changer : Cleans(stack[u], b)
  OBVIOUS
<1>2. u = t
  <2>1. u # t => stack[u] = <<>>
    BY DEF Facing
  <2> QED BY <1>1, <2>1 DEF Cleans
<1>3. Cleans(<<f>> \o q, b) /\ f \in FrameType /\ q \in Seq(FrameType)
  BY <1>1, <1>2 DEF Facing
<1>4. Cleans(q, b)
  BY <1>3, CleansSplit DEF Cleaner
<1>5. Cleans(<<g>> \o q, b)
  BY <1>3, <1>4, CleansSplit
<1> QED BY <1>5

LEMMA DeviceStateAddListTurn ==
    ASSUME Core, InTurn, ~ overlap, NEW t \in Changer, DeviceStateAddList(t)
    PROVE  InTurn'
<1>1. At(t, "insert") /\ TypeOK /\ ListsOK /\ t \in Thread
  BY Changers DEF DeviceStateAddList, Core
<1>2. PICK b : b = Me(t).dev
  OBVIOUS
<1>3. /\ list' = [list EXCEPT ![ClassOf[name[b]]] = <<b>> \o @]
      /\ Resume(t, Goto(t, "probe")) /\ UNCHANGED <<alive, name, parent>>
  BY <1>2 DEF DeviceStateAddList
<1>4. stack'[t] = Goto(t, "probe") /\ OthersStay(t)
  BY <1>1, <1>3, Resumed
<1>5. b \in Block /\ b \notin Listed /\ \A c \in alive : parent[c] # b
  BY <1>1, <1>2, InsertAlone
<1>6. Listed' = Listed \cup {b}
  BY <1>1, <1>3, <1>5, ListLonger
<1>7. PICK n \in Nat :
        \E age \in [Block -> 0 .. n] : \E f, q : Facing(t, f, q, age) /\ f.pc = "insert"
  BY <1>1, <1>4, Face
<1>age. PICK age \in [Block -> 0 .. n] : \E f, q : Facing(t, f, q, age) /\ f.pc = "insert"
  BY <1>7
<1>8. PICK f, q : Facing(t, f, q, age) /\ f.pc = "insert"
  BY <1>age
<1>9. /\ f = Me(t) /\ q = Rest(t) /\ f \in FrameType /\ f.cur = NoBlock /\ f.pc \notin Removal
      /\ f.dev = b /\ q \in Seq(FrameType) /\ Frames(q, age) /\ Family(age) /\ NoOrphan
      /\ Running(f, age)
  BY <1>2, <1>8, NotWalking DEF Facing, Removal
<1>10. /\ parent[b] \in Listed \cup {NoBlock}
       /\ \A c \in Listed : name[c] # name[b] /\ age[c] < age[b]
  BY <1>8, <1>9 DEF Running
<1>11. PICK g : g = [f EXCEPT !.pc = "probe"]
  OBVIOUS
<1>12. "probe" \in Pc
  BY DEF Pc
<1>13. g \in FrameType /\ g.pc = "probe" /\ g.dev = b /\ g.cur = NoBlock
  BY <1>9, <1>11, <1>12 DEF FrameType
<1>14. PICK s : s = <<g>> \o q
  OBVIOUS
<1>15. stack'[t] = s /\ stack'[t] = <<g>> \o q
  BY <1>4, <1>9, <1>11, <1>14 DEF Goto
<1>16. Family(age)'
  <2>1. \A c \in Classes : \A i, j \in DOMAIN list'[c] :
          i < j => age[list'[c][i]] > age[list'[c][j]]
    BY <1>1, <1>3, <1>5, <1>9, <1>10, LongerOrder
  <2>2. \A c \in alive' : parent'[c] # NoBlock =>
          age[parent'[c]] < age[c] /\ name'[parent'[c]] \in ParentNames
    BY <1>3, <1>9 DEF Family
  <2>3. \A c, d \in Listed' : name'[c] = name'[d] => c = d
    BY <1>3, <1>6, <1>9, <1>10 DEF Family
  <2> QED BY <2>1, <2>2, <2>3 DEF Family
<1>17. NoOrphan'
  <2> SUFFICES ASSUME NEW c \in Listed', parent'[c] \notin Listed' \cup {NoBlock}
               PROVE  \E u \in Changer : Cleans(stack'[u], parent'[c])
    BY DEF NoOrphan
  <2>1. c \in Listed /\ parent'[c] = parent[c] /\ parent[c] \notin Listed \cup {NoBlock}
    BY <1>3, <1>6, <1>10
  <2>2. \E u \in Changer : Cleans(stack[u], parent[c])
    BY <1>9, <2>1 DEF NoOrphan
  <2>3. \E u \in Changer : Cleans(stack'[u], parent[c])
    BY <1>8, <1>13, <1>15, <2>2, CleansOn
  <2> QED BY <2>1, <2>3
<1>18. Lonely(q)
  BY <1>8, <1>9, LonelyTop
<1>19. Settled(g)' /\ Running(g, age)'
  BY <1>3, <1>5, <1>6, <1>13 DEF Settled, Running
<1>20. Frames(q, age)' /\ Joins(g, q, age)'
  BY <1>9, <1>18, <1>19, LonelyFrames, LonelyJoins
<1>21. Frames(s, age)' /\ Head(s) = g
  BY <1>9, <1>13, <1>14, <1>20, FramesJoin, PushedAt
<1>22. s # <<>> => Running(Head(s), age)'
  BY <1>19, <1>21
<1>23. \A u \in Changer \ {t} : stack'[u] = <<>>
  BY <1>8, OthersEmpty
<1> QED BY <1>15, <1>16, <1>17, <1>21, <1>22, <1>23, Settle

(* A device left its list. *)
LEMMA OffTurn ==
    ASSUME TypeOK, ListsOK, NEW t \in Changer, NEW n \in Nat, NEW age \in [Block -> 0 .. n],
           NEW f, NEW q, Facing(t, f, q, age), f.pc \notin {"orphan", "walk"},
           NEW b \in Listed, Listed' = Listed \ {b},
           list' = [list EXCEPT ![ClassOf[name[b]]] = RemoveAt(@, PlaceOf(b, @))],
           UNCHANGED <<alive, name, parent>>,
           NEW g \in FrameType, stack'[t] = <<g>> \o q,
           Frames(q, age)', Joins(g, q, age)', Running(g, age)',
           \A c \in Listed : parent[c] = b => Cleaner(g, b)
    PROVE  InTurn'
<1>1. q \in Seq(FrameType) /\ Family(age) /\ NoOrphan
  BY DEF Facing
<1>2. PICK s : s = <<g>> \o q
  OBVIOUS
<1>3. Family(age)'
  <2>1. Fewer
    BY DEF Fewer
  <2>2. \A c \in Classes : \A i, j \in DOMAIN list'[c] :
          i < j => age[list'[c][i]] > age[list'[c][j]]
    BY <1>1, ShorterOrder
  <2> QED BY <1>1, <2>1, <2>2, FewerFamily
<1>4. NoOrphan'
  <2> SUFFICES ASSUME NEW c \in Listed', parent'[c] \notin Listed' \cup {NoBlock}
               PROVE  \E u \in Changer : Cleans(stack'[u], parent'[c])
    BY DEF NoOrphan
  <2>1. c \in Listed /\ parent'[c] = parent[c]
    OBVIOUS
  <2>2. CASE parent[c] = b
    <3>1. Cleans(<<g>> \o q, b)
      BY <1>1, <2>1, <2>2, CleansSplit
    <3> QED BY <2>1, <2>2, <3>1
  <2>3. CASE parent[c] # b
    <3>1. parent[c] \notin Listed \cup {NoBlock}
      BY <2>1, <2>3
    <3>2. \E u \in Changer : Cleans(stack[u], parent[c])
      BY <1>1, <2>1, <3>1 DEF NoOrphan
    <3>3. \E u \in Changer : Cleans(stack'[u], parent[c])
      BY <3>2, CleansOn
    <3> QED BY <2>1, <3>3
  <2> QED BY <2>2, <2>3
<1>5. Frames(s, age)' /\ Head(s) = g
  BY <1>1, <1>2, FramesJoin, PushedAt
<1>6. s # <<>> => Running(Head(s), age)'
  BY <1>5
<1>7. \A u \in Changer \ {t} : stack'[u] = <<>>
  BY OthersEmpty
<1>8. stack'[t] = s
  BY <1>2
<1> QED BY <1>3, <1>4, <1>5, <1>6, <1>7, <1>8, Settle

LEMMA DiscardTurn ==
    ASSUME Core, InTurn, ~ overlap, NEW t \in Changer, Discard(t)
    PROVE  InTurn'
<1>1. At(t, "discard") /\ TypeOK /\ ListsOK /\ t \in Thread
  BY Changers DEF Discard, Core
<1>2. PICK b : b = Me(t).dev
  OBVIOUS
<1>3. /\ list' = [list EXCEPT ![ClassOf[name[b]]] = RemoveAt(@, PlaceOf(b, @))] /\ b \in Listed
      /\ Resume(t, Goto(t, "drop")) /\ UNCHANGED <<alive, name, parent>>
  BY <1>2 DEF Discard, DeviceStateRemList
<1>4. stack'[t] = Goto(t, "drop") /\ OthersStay(t)
  BY <1>1, <1>3, Resumed
<1>5. Listed' = Listed \ {b}
  BY <1>1, <1>3, ListShorter
<1>6. PICK n \in Nat :
        \E age \in [Block -> 0 .. n] : \E f, q : Facing(t, f, q, age) /\ f.pc = "discard"
  BY <1>1, <1>4, Face
<1>age. PICK age \in [Block -> 0 .. n] : \E f, q : Facing(t, f, q, age) /\ f.pc = "discard"
  BY <1>6
<1>7. PICK f, q : Facing(t, f, q, age) /\ f.pc = "discard"
  BY <1>age
<1>8. /\ f = Me(t) /\ q = Rest(t) /\ f \in FrameType /\ f.cur = NoBlock /\ f.pc \notin Removal
      /\ f.dev = b /\ q \in Seq(FrameType) /\ Frames(q, age) /\ Running(f, age)
  BY <1>2, <1>7, NotWalking DEF Facing, Removal
<1>9. PICK g : g = [f EXCEPT !.pc = "drop"]
  OBVIOUS
<1>10. "drop" \in Pc
  BY DEF Pc
<1>11. g \in FrameType /\ g.pc = "drop" /\ g.cur = NoBlock
  BY <1>8, <1>9, <1>10 DEF FrameType
<1>12. stack'[t] = <<g>> \o q
  BY <1>4, <1>8, <1>9 DEF Goto
<1>13. Lonely(q)
  BY <1>7, <1>8, LonelyTop
<1>14. Settled(g)' /\ Running(g, age)'
  BY <1>11 DEF Settled, Running
<1>15. Frames(q, age)' /\ Joins(g, q, age)'
  BY <1>8, <1>13, <1>14, LonelyFrames, LonelyJoins
<1>16. \A c \in Listed : parent[c] # b
  BY <1>7, <1>8, AllAllocated DEF Running, HeldIsAllocated
<1>17. f.pc \notin {"orphan", "walk"}
  BY <1>7
<1> QED BY <1>1, <1>3, <1>5, <1>7, <1>11, <1>12, <1>14, <1>15, <1>16, <1>17, OffTurn

LEMMA UnlinkTurn ==
    ASSUME Core, InTurn, ~ overlap, NEW t \in Changer, Unlink(t)
    PROVE  InTurn'
<1>1. At(t, "unlink") /\ TypeOK /\ ListsOK /\ t \in Thread
  BY Changers DEF Unlink, Core
<1>2. PICK b : b = Me(t).dev
  OBVIOUS
<1>3. /\ list' = [list EXCEPT ![ClassOf[name[b]]] = RemoveAt(@, PlaceOf(b, @))] /\ b \in Listed
      /\ Resume(t, Goto(t, "orphan")) /\ UNCHANGED <<alive, name, parent>>
  BY <1>2 DEF Unlink, DeviceStateRemList
<1>4. stack'[t] = Goto(t, "orphan") /\ OthersStay(t)
  BY <1>1, <1>3, Resumed
<1>5. Listed' = Listed \ {b} /\ b \in Block
  BY <1>1, <1>3, ListShorter, ListedBlocks
<1>6. PICK n \in Nat :
        \E age \in [Block -> 0 .. n] : \E f, q : Facing(t, f, q, age) /\ f.pc = "unlink"
  BY <1>1, <1>4, Face
<1>age. PICK age \in [Block -> 0 .. n] : \E f, q : Facing(t, f, q, age) /\ f.pc = "unlink"
  BY <1>6
<1>7. PICK f, q : Facing(t, f, q, age) /\ f.pc = "unlink"
  BY <1>age
<1>8. /\ f = Me(t) /\ q = Rest(t) /\ f \in FrameType /\ f.cur = NoBlock /\ f.class = 0
      /\ f.dev = b /\ q \in Seq(FrameType) /\ Sound(q) /\ Frames(q, age) /\ Joins(f, q, age)
  BY <1>2, <1>7, NotWalking DEF Facing, Joins, Settled
<1>9. PICK g : g = [f EXCEPT !.pc = "orphan"]
  OBVIOUS
<1>10. "orphan" \in Pc
  BY DEF Pc
<1>11. g \in FrameType /\ g.pc = "orphan" /\ g.cur = NoBlock /\ g.class = 0 /\ g.dev = b
  BY <1>8, <1>9, <1>10 DEF FrameType
<1>12. stack'[t] = <<g>> \o q
  BY <1>4, <1>8, <1>9 DEF Goto
<1>13. Fewer
  BY <1>3, <1>5 DEF Fewer
<1>14. Frames(q, age)'
  <2>1. ASSUME NEW j \in DOMAIN q, q[j].pc = "walk", q[j].cur # NoBlock PROVE q[j].cur \in Listed'
    <3>1. q[j].cur \in Listed /\ q[j].cur \in Block
      BY <1>1, <1>8, <2>1, CursListed, ListedBlocks
    <3>2. Above(f, q[j], age) /\ Targets(f, b)
      BY <1>7, <1>8 DEF Joins, Targets
    <3>3. age[b] > age[q[j].cur]
      BY <1>5, <2>1, <3>2 DEF Above
    <3>4. q[j].cur # b
      <4>1. age[b] \in Nat
        BY <1>5
      <4> QED BY <3>3, <4>1
    <3> QED BY <1>5, <3>1, <3>4
  <2> QED BY <1>1, <1>8, <1>13, <2>1, FewerFrames
<1>15. Settled(g)' /\ Running(g, age)'
  BY <1>11 DEF Settled, Running
<1>16. Joins(g, q, age)'
  <2>1. \A d \in Block : Targets(g, d)' => Targets(f, d)
    BY <1>7, <1>8, <1>11 DEF Targets
  <2>2. \A c \in Listed' : Removing(f, c) => Removing(g, c)'
    BY <1>5, <1>7, <1>8 DEF Removing, Targets
  <2>3. g.pc \in Removal
    BY <1>11 DEF Removal
  <2> QED BY <1>1, <1>8, <1>13, <1>15, <2>1, <2>2, <2>3, FewerJoins
<1>17. Cleaner(g, b) /\ f.pc \notin {"orphan", "walk"}
  BY <1>7, <1>11 DEF Cleaner
<1> QED BY <1>1, <1>3, <1>5, <1>7, <1>11, <1>12, <1>14, <1>15, <1>16, <1>17, OffTurn

-----------------------------------------------------------------------------
(***************************************************************************)
(* A call begins.                                                          *)
(***************************************************************************)
Opens(f) ==
    /\ f \in FrameType /\ f.cur = NoBlock /\ f.class = 0
    /\ \/ f.pc = "remove"
       \/ f.pc = "add" /\ f.parent = NoBlock
       \/ f.pc = "register" /\ f.of \in ParentNames
       \/ f.pc = "release" /\ f.dev \in Listed

LEMMA CallTurn ==
    ASSUME Core, InTurn, NEW t \in Changer, NEW f, Opens(f), Begin(t, f),
           UNCHANGED <<list, alive, name, parent>>
    PROVE  InTurn'
<1> SUFFICES ASSUME ~ overlap' PROVE InTurn'
  BY DEF InTurn
<1>1. TypeOK /\ t \in Thread /\ t \notin Reader /\ stack[t] = <<>>
  BY Changers DEF Core, Begin
<1>2. ~ overlap /\ \A u \in Thread \ Reader : stack[u] = <<>>
  BY <1>1 DEF Begin
<1>3. stack'[t] = <<f>> /\ OthersStay(t)
  BY <1>1, Resumed DEF Begin
<1>4. \A u \in Changer : stack[u] = <<>>
  BY <1>2, Changers
<1>5. \A u \in Changer \ {t} : stack'[u] = <<>>
  BY <1>3, <1>4, Changers DEF OthersStay
<1>6. PICK n \in Nat : \E age \in [Block -> 0 .. n] : Orderly(age)
  BY <1>2 DEF InTurn
<1>7. PICK age \in [Block -> 0 .. n] : Orderly(age)
  BY <1>6
<1>8. Same /\ Listed' = Listed
  BY SameAll DEF Same, Listed
<1>9. PICK q : q = <<>>
  OBVIOUS
<1>10. q \in Seq(FrameType) /\ Sound(q) /\ DOMAIN q = {} /\ f \in FrameType /\ <<f>> \o q = <<f>>
  BY <1>9, EmptySeq, EmptySound, Alone DEF Opens
<1>11. Family(age) /\ NoOrphan
  BY <1>7 DEF Orderly
<1>12. Frames(q, age)
  BY <1>10 DEF Frames
<1>13. Family(age)' /\ Frames(q, age)'
  BY <1>1, <1>8, <1>10, <1>11, <1>12, SameParts
<1>14. Settled(f)' /\ Running(f, age)'
  BY <1>8 DEF Opens, Settled, Running
<1>15. Joins(f, q, age)'
  BY <1>9, <1>10, <1>14 DEF Joins
<1>16. PICK s : s = <<f>> \o q
  OBVIOUS
<1>17. Frames(s, age)' /\ Head(s) = f /\ stack'[t] = s
  <2>1. Frames(<<f>> \o q, age)'
    BY <1>10, <1>13, <1>15, FramesJoin
  <2>2. Head(<<f>> \o q) = f
    BY <1>10, PushedAt
  <2>3. stack'[t] = <<f>> \o q
    BY <1>3, <1>10
  <2> QED BY <1>16, <2>1, <2>2, <2>3
<1>18. NoOrphan'
  <2> SUFFICES ASSUME NEW c \in Listed PROVE parent[c] \in Listed \cup {NoBlock}
    BY <1>8 DEF NoOrphan
  <2>1. ~ \E u \in Changer : Cleans(stack[u], parent[c])
    BY <1>4 DEF Cleans
  <2> QED BY <1>11, <2>1 DEF NoOrphan
<1>19. s # <<>> => Running(Head(s), age)'
  BY <1>14, <1>17
<1> QED BY <1>5, <1>13, <1>17, <1>18, <1>19, Settle

LEMMA ProcessPnPMsgQueueTurn ==
    ASSUME Core, InTurn, NEW t \in Pnp, NEW n \in Name, ProcessPnPMsgQueue(t, n)
    PROVE  InTurn'
<1>1. t \in Changer
  BY DEF Changer
<1>2. PICK pc \in {"add", "remove"} : Begin(t, Frame(pc, n))
  BY DEF ProcessPnPMsgQueue
<1>3. pc \in Pc
  BY DEF Pc
<1>4. Opens(Frame(pc, n))
  BY <1>2, <1>3, NewFrame DEF Opens
<1>5. UNCHANGED <<list, alive, name, parent>>
  BY DEF ProcessPnPMsgQueue, blockVars
<1> QED BY <1>1, <1>2, <1>4, <1>5, CallTurn

LEMMA PmRegisterPowerRelationshipTurn ==
    ASSUME Core, InTurn, NEW t \in Client, NEW n \in Name, NEW p \in Name,
           PmRegisterPowerRelationship(t, n, p)
    PROVE  InTurn'
<1>1. t \in Changer
  BY DEF Changer
<1>2. Begin(t, Registration(n, p)) /\ p \in ParentNames /\ UNCHANGED <<list, alive, name, parent>>
  BY DEF PmRegisterPowerRelationship, blockVars
<1>3. Opens(Registration(n, p))
  BY <1>2 DEF Opens, Registration, Frame, FrameType, Pc, Pointer
<1> QED BY <1>1, <1>2, <1>3, CallTurn

(* Nothing happens to the threads that change the lists. *)
LEMMA ElseTurn ==
    ASSUME Core, InTurn, Same, overlap' = overlap, \A t \in Changer : stack'[t] = stack[t]
    PROVE  InTurn'
<1> SUFFICES ASSUME ~ overlap' PROVE InTurn'
  BY DEF InTurn
<1>1. OneBusy /\ TypeOK /\ ~ overlap
  BY DEF InTurn, Core
<1>2. OneBusy'
  BY <1>1 DEF OneBusy
<1>3. PICK n \in Nat : \E age \in [Block -> 0 .. n] : Orderly(age)
  BY <1>1 DEF InTurn
<1>4. PICK age \in [Block -> 0 .. n] : Orderly(age)
  BY <1>3
<1>5. Family(age) /\ NoOrphan /\ \A t \in Changer : StackGood(stack[t], age)
  BY <1>4 DEF Orderly
<1>6. Fewer /\ Listed' = Listed /\ Listed \subseteq Block
  BY <1>1, ListedBlocks DEF Same, Listed
<1>7. Family(age)'
  <2>1. \A c \in Classes : \A i, j \in DOMAIN list'[c] :
          i < j => age[list'[c][i]] > age[list'[c][j]]
    BY <1>5 DEF Same, Family
  <2> QED BY <1>1, <1>5, <1>6, <2>1, FewerFamily
<1>8. NoOrphan'
  <2> SUFFICES ASSUME NEW c \in Listed, parent'[c] \notin Listed \cup {NoBlock}
               PROVE  \E u \in Changer : Cleans(stack'[u], parent'[c])
    BY <1>6 DEF NoOrphan
  <2>1. parent'[c] = parent[c]
    BY <1>6 DEF Fewer
  <2>2. \E u \in Changer : Cleans(stack[u], parent[c])
    BY <1>5, <2>1 DEF NoOrphan
  <2> QED BY <2>1, <2>2
<1>9. ASSUME NEW t \in Changer, stack[t] # <<>> PROVE StackGood(stack[t], age)'
  <2>1. t \in Thread /\ stack[t] \in Seq(FrameType) /\ StackOK(t)
    BY <1>1, Changers DEF Core, TypeOK
  <2>2. PICK f : f = Me(t)
    OBVIOUS
  <2>3. PICK q : q = Rest(t)
    OBVIOUS
  <2>4. PICK s : s = stack[t]
    OBVIOUS
  <2>5. f \in FrameType /\ FrameOK(f) /\ Sound(q) /\ q \in Seq(FrameType)
    BY <1>1, <1>9, <2>1, <2>2, <2>3, CallStack DEF Sound
  <2>6. s = <<f>> \o q
    BY <1>9, <2>1, <2>2, <2>3, <2>4, HeadTailProperties DEF Me, Rest
  <2>7. Frames(<<f>> \o q, age) /\ Running(f, age)
    BY <1>5, <1>9, <2>2, <2>4, <2>6 DEF StackGood, Me
  <2>8. Joins(f, q, age) /\ Frames(q, age)
    BY <2>5, <2>7, FramesSplit
  <2>9. Frames(q, age)'
    BY <1>1, <1>6, <2>5, <2>8, CursListed, FewerFrames
  <2>10. Settled(f)'
    <3>1. Settled(f)
      BY <2>8 DEF Joins
    <3>2. f.pc = "walk" /\ f.cur # NoBlock => f.cur \in Listed'
      BY <1>6, <3>1 DEF Settled
    <3> QED BY <1>6, <3>1, <3>2, FewerSettled
  <2>11. Joins(f, q, age)'
    <3>1. \A d \in Block : Targets(f, d)' => Targets(f, d)
      BY <1>6, FewerTargets
    <3>2. \A c \in Listed' : Removing(f, c) => Removing(f, c)'
      BY <1>6, FewerRemoving
    <3> QED BY <1>1, <1>6, <2>5, <2>8, <2>10, <3>1, <3>2, FewerJoins
  <2>12. Frames(<<f>> \o q, age)'
    BY <2>5, <2>9, <2>11, FramesJoin
  <2>13. Running(f, age)'
    BY <1>1, <1>6, <2>5, <2>7, FewerRunning
  <2>14. Head(s) = f /\ Frames(s, age)'
    BY <2>5, <2>6, <2>12, PushedAt
  <2>15. StackGood(s, age)'
    BY <2>13, <2>14 DEF StackGood
  <2>16. stack'[t] = s /\ stack[t] = s
    BY <2>4
  <2> QED BY <2>15, <2>16
<1>10. ASSUME NEW t \in Changer PROVE StackGood(stack[t], age)'
  <2>1. CASE stack[t] = <<>>
    <3>1. stack'[t] = <<>>
      BY <2>1
    <3> QED BY <3>1 DEF StackGood, Frames
  <2>2. CASE stack[t] # <<>>
    BY <1>9, <2>2
  <2> QED BY <2>1, <2>2
<1>11. Orderly(age)'
  BY <1>7, <1>8, <1>10 DEF Orderly
<1> QED BY <1>2, <1>11 DEF InTurn

-----------------------------------------------------------------------------
(***************************************************************************)
(* Readers.                                                                *)
(***************************************************************************)
PlainFrame(f) == f.cur = NoBlock /\ f.pc \in {"class", "update", "driver", "drop", "destroy"}
PlainStack(s) == \A i \in DOMAIN s : PlainFrame(s[i])

LEMMA PlainIs == Plain <=> \A t \in Reader : PlainStack(stack[t])
BY DEF Plain, PlainStack, PlainFrame

LEMMA PlainPush ==
    ASSUME NEW f \in FrameType, PlainFrame(f), NEW q \in Seq(FrameType), PlainStack(q)
    PROVE  PlainStack(<<f>> \o q)
<1>1. PICK s : s = <<f>> \o q
  OBVIOUS
<1>2. /\ s \in Seq(FrameType) /\ Len(s) = Len(q) + 1 /\ s[1] = f
      /\ \A i \in 2 .. Len(q) + 1 : s[i] = q[i - 1]
  BY <1>1, PushedAt
<1>3. DOMAIN s = 1 .. Len(s) /\ DOMAIN q = 1 .. Len(q) /\ Len(q) \in Nat
  BY <1>2, LenProperties
<1>4. ASSUME NEW i \in DOMAIN s PROVE PlainFrame(s[i])
  <2>1. CASE i = 1
    BY <1>2, <2>1
  <2>2. CASE i # 1
    <3>1. i \in 2 .. Len(q) + 1 /\ i - 1 \in DOMAIN q
      BY <1>2, <1>3, <2>2
    <3> QED BY <1>2, <3>1 DEF PlainStack
  <2> QED BY <2>1, <2>2
<1> QED BY <1>1, <1>4 DEF PlainStack

LEMMA PlainTop ==
    ASSUME Core, NEW t \in Reader, PlainStack(stack[t]), NEW pc, At(t, pc)
    PROVE  /\ t \in Thread /\ Me(t) \in FrameType /\ FrameOK(Me(t)) /\ Me(t).cur = NoBlock
           /\ Rest(t) \in Seq(FrameType) /\ PlainStack(Rest(t))
<1>1. t \in Thread /\ TypeOK /\ StackOK(t)
  BY DEF Core, Thread
<1>2. /\ stack[t] # <<>> /\ Me(t) \in FrameType /\ FrameOK(Me(t)) /\ Sound(Rest(t))
      /\ 1 \in DOMAIN stack[t] /\ stack[t][1] = Me(t) /\ Len(stack[t]) = Len(Rest(t)) + 1
      /\ \A i \in 1 .. Len(Rest(t)) : Rest(t)[i] = stack[t][i + 1]
  BY <1>1, CallStack DEF At
<1>3. PICK q : q = Rest(t)
  OBVIOUS
<1>4. q \in Seq(FrameType) /\ DOMAIN q = 1 .. Len(q) /\ Len(q) \in Nat
  BY <1>2, <1>3, LenProperties DEF Sound
<1>5. DOMAIN stack[t] = 1 .. Len(q) + 1
  BY <1>1, <1>2, <1>3, LenProperties DEF TypeOK
<1>6. ASSUME NEW i \in DOMAIN q PROVE PlainFrame(q[i])
  <2>1. i \in 1 .. Len(q) /\ i + 1 \in DOMAIN stack[t]
    BY <1>4, <1>5
  <2>2. q[i] = stack[t][i + 1]
    BY <1>2, <1>3, <2>1
  <2> QED BY <2>1, <2>2 DEF PlainStack
<1>7. PlainFrame(Me(t))
  BY <1>2 DEF PlainStack
<1> QED BY <1>1, <1>2, <1>3, <1>4, <1>6, <1>7 DEF PlainStack, PlainFrame

LEMMA PlainDestroying ==
    ASSUME TypeOK, NEW x, NEW q \in Seq(FrameType), PlainStack(q)
    PROVE  PlainStack(Destroying(x) \o q)
<1>1. CASE x \in Block /\ ref[x] = 1
  <2> DEFINE e == [Frame("destroy", name[x]) EXCEPT !.dev = x]
  <2>1. e \in FrameType /\ e.pc = "destroy" /\ e.cur = NoBlock
    BY <1>1, DestroyFrame
  <2>2. Destroying(x) = <<e>>
    BY <1>1 DEF Destroying
  <2> HIDE DEF e
  <2>3. PlainFrame(e)
    BY <2>1 DEF PlainFrame
  <2> QED BY <2>1, <2>2, <2>3, PlainPush
<1>2. CASE ~ (x \in Block /\ ref[x] = 1)
  <2>1. Destroying(x) = <<>>
    BY <1>2 DEF Destroying
  <2>2. Destroying(x) \o q = q
    BY <2>1, ConcatEmptySeq
  <2> QED BY <2>2
<1> QED BY <1>1, <1>2

(* What a step of a reader leaves behind. *)
Reads(t) ==
    Same /\ overlap' = overlap /\ OthersStay(t) /\ PlainStack(stack'[t])

LEMMA StartClassReads ==
    ASSUME Core, NEW t \in Reader, PlainStack(stack[t]), StartClass(t)
    PROVE  Reads(t)
<1>1. At(t, "class") /\ TypeOK
  BY DEF StartClass, Core
<1>2. /\ t \in Thread /\ Me(t) \in FrameType /\ FrameOK(Me(t)) /\ Me(t).cur = NoBlock
      /\ Rest(t) \in Seq(FrameType) /\ PlainStack(Rest(t)) /\ Me(t).pc = "class"
  BY <1>1, PlainTop DEF At, Me
<1>3. PICK k : k = Me(t).class
  OBVIOUS
<1>4. PICK x : x = First(Members(k))
  OBVIOUS
<1>5. k \in Nat /\ k > 0
  BY <1>2, <1>3 DEF FrameOK, FrameType
<1>6. UNCHANGED <<list, alive, name, parent>> /\ overlap' = overlap
  BY DEF StartClass, callVars
<1>7. Same
  BY <1>6, SameAll
<1>8. CASE k > Len(Class)
  <2>1. Resume(t, Rest(t))
    BY <1>3, <1>8 DEF StartClass
  <2>2. stack'[t] = Rest(t) /\ OthersStay(t)
    BY <1>1, <1>2, <2>1, Resumed
  <2> QED BY <1>2, <1>6, <1>7, <2>2 DEF Reads
<1>9. CASE ~ (k > Len(Class)) /\ x = NoBlock
  <2>1. PICK h : h = [Me(t) EXCEPT !.class = k + 1]
    OBVIOUS
  <2>2. Resume(t, <<h>> \o Rest(t))
    BY <1>3, <1>4, <1>9, <2>1 DEF StartClass
  <2>3. stack'[t] = <<h>> \o Rest(t) /\ OthersStay(t)
    BY <1>1, <1>2, <2>2, Resumed
  <2>4. h \in FrameType /\ PlainFrame(h)
    BY <1>2, <1>5, <2>1 DEF FrameType, PlainFrame
  <2> QED BY <1>2, <1>6, <1>7, <2>3, <2>4, PlainPush DEF Reads
<1>10. CASE ~ (k > Len(Class)) /\ x # NoBlock
  <2>1. PICK h : h = [Me(t) EXCEPT !.pc = "update", !.dev = x]
    OBVIOUS
  <2>2. Resume(t, <<h>> \o Rest(t))
    BY <1>3, <1>4, <1>10, <2>1 DEF StartClass, Using
  <2>3. stack'[t] = <<h>> \o Rest(t) /\ OthersStay(t)
    BY <1>1, <1>2, <2>2, Resumed
  <2>4. k \in DOMAIN Class /\ Class[k] \in Classes
    BY <1>5, <1>10, ClassType
  <2>5. x \in Pointer /\ "update" \in Pc
    BY <1>1, <1>4, <2>4, FirstListed, ListedBlocks DEF Members, Pointer, Pc
  <2>6. h \in FrameType /\ PlainFrame(h)
    BY <1>2, <2>1, <2>5 DEF FrameType, PlainFrame
  <2> QED BY <1>2, <1>6, <1>7, <2>3, <2>6, PlainPush DEF Reads
<1> QED BY <1>8, <1>9, <1>10

LEMMA EnterUpdateReads ==
    ASSUME Core, NEW t \in Reader, PlainStack(stack[t]), EnterUpdate(t)
    PROVE  Reads(t)
<1>1. At(t, "update") /\ TypeOK
  BY DEF EnterUpdate, Core
<1>2. /\ t \in Thread /\ Me(t) \in FrameType /\ FrameOK(Me(t)) /\ Me(t).cur = NoBlock
      /\ Rest(t) \in Seq(FrameType) /\ PlainStack(Rest(t)) /\ Me(t).pc = "update"
  BY <1>1, PlainTop DEF At, Me
<1>3. PICK h : h = [Me(t) EXCEPT !.pc = "driver", !.parent = parent[Me(t).dev]]
  OBVIOUS
<1>4. UNCHANGED <<list, alive, name, parent>> /\ overlap' = overlap /\ Resume(t, <<h>> \o Rest(t))
  BY <1>3 DEF EnterUpdate, callVars, blockVars
<1>5. Same
  BY <1>4, SameAll
<1>6. stack'[t] = <<h>> \o Rest(t) /\ OthersStay(t)
  BY <1>1, <1>2, <1>4, Resumed
<1>7. parent[Me(t).dev] \in Pointer /\ "driver" \in Pc
  BY <1>1, <1>2 DEF TypeOK, FrameOK, Pc
<1>8. h \in FrameType /\ PlainFrame(h)
  BY <1>2, <1>3, <1>7 DEF FrameType, PlainFrame
<1> QED BY <1>2, <1>4, <1>5, <1>6, <1>8, PlainPush DEF Reads

LEMMA NextDeviceReads ==
    ASSUME Core, NEW t \in Reader, PlainStack(stack[t]), NextDevice(t)
    PROVE  Reads(t)
<1>1. At(t, "driver") /\ TypeOK /\ ListsOK
  BY DEF NextDevice, Core
<1>2. /\ t \in Thread /\ Me(t) \in FrameType /\ FrameOK(Me(t)) /\ Me(t).cur = NoBlock
      /\ Rest(t) \in Seq(FrameType) /\ PlainStack(Rest(t)) /\ Me(t).pc = "driver"
  BY <1>1, PlainTop DEF At, Me
<1>3. PICK x : x = Me(t).dev
  OBVIOUS
<1>4. PICK y : y = NextAfter(x, Me(t).class)
  OBVIOUS
<1>5. PICK g : g = [Me(t) EXCEPT !.pc = "class", !.class = @ + 1, !.dev = NoBlock, !.parent = NoBlock]
  OBVIOUS
<1>6. PICK h : h = [Me(t) EXCEPT !.pc = "update", !.dev = y, !.parent = NoBlock]
  OBVIOUS
<1>7. /\ UNCHANGED <<list, alive, name, parent>> /\ overlap' = overlap
      /\ Resume(t, Destroying(x) \o (IF y = NoBlock THEN <<g>> \o Rest(t) ELSE <<h>> \o Rest(t)))
  BY <1>3, <1>4, <1>5, <1>6 DEF NextDevice, callVars
<1>8. Same
  BY <1>7, SameAll
<1>9. /\ stack'[t] = Destroying(x) \o (IF y = NoBlock THEN <<g>> \o Rest(t) ELSE <<h>> \o Rest(t))
      /\ OthersStay(t)
  BY <1>1, <1>2, <1>7, Resumed
<1>10. x \in Block /\ Me(t).class \in DOMAIN Class /\ Class[Me(t).class] \in Classes
  BY <1>2, <1>3, ClassType DEF FrameOK
<1>11. y \in Pointer /\ "class" \in Pc /\ "update" \in Pc /\ NoBlock \in Pointer
  BY <1>1, <1>4, <1>10, NextListed, FirstListed, ListedBlocks DEF NextAfter, Members, Pointer, Pc
<1>12. g \in FrameType /\ PlainFrame(g)
  <2>1. PICK f : f = Me(t)
    OBVIOUS
  <2>2. f \in FrameType /\ f.cur = NoBlock
    BY <1>2, <2>1
  <2>3. PICK k : k = f.class + 1
    OBVIOUS
  <2>4. k \in Nat
    BY <2>2, <2>3 DEF FrameType
  <2>5. g = [f EXCEPT !.pc = "class", !.class = k, !.dev = NoBlock, !.parent = NoBlock]
    BY <1>5, <2>1, <2>2, <2>3 DEF FrameType
  <2> QED BY <1>11, <2>2, <2>4, <2>5 DEF FrameType, PlainFrame
<1>13. h \in FrameType /\ PlainFrame(h)
  BY <1>2, <1>6, <1>11 DEF FrameType, PlainFrame
<1>14. CASE y = NoBlock
  <2>1. <<g>> \o Rest(t) \in Seq(FrameType) /\ PlainStack(<<g>> \o Rest(t))
    BY <1>2, <1>12, PlainPush, PushedAt
  <2>2. PlainStack(Destroying(x) \o (<<g>> \o Rest(t)))
    BY <1>1, <2>1, PlainDestroying
  <2> QED BY <1>7, <1>8, <1>9, <1>14, <2>2 DEF Reads
<1>15. CASE y # NoBlock
  <2>1. <<h>> \o Rest(t) \in Seq(FrameType) /\ PlainStack(<<h>> \o Rest(t))
    BY <1>2, <1>13, PlainPush, PushedAt
  <2>2. PlainStack(Destroying(x) \o (<<h>> \o Rest(t)))
    BY <1>1, <2>1, PlainDestroying
  <2> QED BY <1>7, <1>8, <1>9, <1>15, <2>2 DEF Reads
<1> QED BY <1>14, <1>15

LEMMA DropReads ==
    ASSUME Core, NEW t \in Reader, PlainStack(stack[t]), Drop(t)
    PROVE  Reads(t)
<1>1. At(t, "drop") /\ TypeOK
  BY DEF Drop, Core
<1>2. t \in Thread /\ Rest(t) \in Seq(FrameType) /\ PlainStack(Rest(t))
  BY <1>1, PlainTop
<1>3. /\ UNCHANGED <<list, alive, name, parent>> /\ overlap' = overlap
      /\ Resume(t, Destroying(Me(t).dev) \o Rest(t))
  BY DEF Drop, DeviceStateDecRef, callVars
<1>4. Same
  BY <1>3, SameAll
<1>5. stack'[t] = Destroying(Me(t).dev) \o Rest(t) /\ OthersStay(t)
  BY <1>1, <1>2, <1>3, Resumed
<1>6. PlainStack(Destroying(Me(t).dev) \o Rest(t))
  BY <1>1, <1>2, PlainDestroying
<1> QED BY <1>3, <1>4, <1>5, <1>6 DEF Reads

LEMMA DeviceStateDestroyReads ==
    ASSUME Core, NEW t \in Reader, PlainStack(stack[t]), DeviceStateDestroy(t)
    PROVE  Reads(t)
<1>1. At(t, "destroy") /\ TypeOK
  BY DEF DeviceStateDestroy, Core
<1>2. /\ t \in Thread /\ FrameOK(Me(t)) /\ Rest(t) \in Seq(FrameType) /\ PlainStack(Rest(t))
      /\ Me(t).pc = "destroy"
  BY <1>1, PlainTop DEF At, Me
<1>3. PICK x : x = parent[Me(t).dev]
  OBVIOUS
<1>4. /\ UNCHANGED <<list, name>> /\ overlap' = overlap /\ alive' = alive \ {Me(t).dev}
      /\ parent' = [parent EXCEPT ![Me(t).dev] = NoBlock] /\ Resume(t, Destroying(x) \o Rest(t))
  BY <1>3 DEF DeviceStateDestroy, DeviceStateDecRef, callVars
<1>5. Me(t).dev \in Block
  BY <1>2 DEF FrameOK
<1>6. Same
  BY <1>1, <1>4, <1>5, DestroySame
<1>7. stack'[t] = Destroying(x) \o Rest(t) /\ OthersStay(t)
  BY <1>1, <1>2, <1>4, Resumed
<1>8. PlainStack(Destroying(x) \o Rest(t))
  BY <1>1, <1>2, PlainDestroying
<1> QED BY <1>4, <1>6, <1>7, <1>8 DEF Reads

LEMMA BeginReads ==
    ASSUME Core, NEW t \in Reader, NEW f \in FrameType, PlainFrame(f), Begin(t, f),
           UNCHANGED <<list, alive, name, parent>>
    PROVE  Reads(t)
<1>1. TypeOK /\ t \in Thread
  BY DEF Core, Thread
<1>2. stack'[t] = <<f>> /\ OthersStay(t) /\ overlap' = overlap
  BY <1>1, Resumed DEF Begin, TypeOK
<1>3. PlainStack(<<f>>)
  BY DEF PlainStack
<1> QED BY <1>2, <1>3, SameAll DEF Reads

LEMMA PmGetDevicePowerReads ==
    ASSUME Core, NEW t \in Reader, NEW m \in Name, PmGetDevicePower(t, m)
    PROVE  Reads(t)
<1>1. TypeOK
  BY DEF Core
<1>2. PICK g : g = [Frame("drop", m) EXCEPT !.dev = Find(m)]
  OBVIOUS
<1>3. Begin(t, g) /\ UNCHANGED <<list, alive, name, parent>>
  BY <1>2 DEF PmGetDevicePower
<1>4. Find(m) \in Pointer
  BY <1>1, FindListed, ListedBlocks DEF Pointer
<1>5. g \in FrameType /\ PlainFrame(g)
  BY <1>2, <1>4 DEF Frame, FrameType, Pc, Pointer, PlainFrame
<1> QED BY <1>3, <1>5, BeginReads

LEMMA UpdateAllDeviceStatesReads ==
    ASSUME Core, NEW t \in Reader, UpdateAllDeviceStates(t)
    PROVE  Reads(t)
<1>1. PICK g : g = [Frame("class", NoHandle.name) EXCEPT !.class = 1]
  OBVIOUS
<1>2. Begin(t, g) /\ UNCHANGED <<list, alive, name, parent>>
  BY <1>1 DEF UpdateAllDeviceStates, blockVars
<1>3. NoHandle.name \in Name
  BY NameOfNoHandle
<1>4. g \in FrameType /\ PlainFrame(g)
  BY <1>1, <1>3 DEF Frame, FrameType, Pc, Pointer, PlainFrame
<1> QED BY <1>2, <1>4, BeginReads

LEMMA ReadsTidy ==
    ASSUME Tidy, NEW t \in Reader, Reads(t)
    PROVE  Plain' /\ InTurn'
<1>1. \A u \in Reader : PlainStack(stack[u])
  BY PlainIs DEF Tidy
<1>2. \A u \in Reader : PlainStack(stack'[u])
  <2> SUFFICES ASSUME NEW u \in Reader PROVE PlainStack(stack'[u])
    OBVIOUS
  <2>1. u # t => stack'[u] = stack[u]
    BY DEF Reads, OthersStay, Thread
  <2> QED BY <1>1, <2>1 DEF Reads
<1>3. Plain'
  BY <1>2 DEF Plain, PlainStack, PlainFrame
<1>4. \A u \in Changer : stack'[u] = stack[u]
  BY Changers DEF Reads, OthersStay
<1>5. InTurn'
  BY <1>4, ElseTurn DEF Tidy, Reads
<1> QED BY <1>3, <1>5

-----------------------------------------------------------------------------
LEMMA PmReleasePowerRelationshipTurn ==
    ASSUME Core, InTurn, NEW t \in Client, PmReleasePowerRelationship(t)
    PROVE  InTurn'
<1>1. t \in Changer /\ TypeOK
  BY DEF Changer, Core
<1>2. PICK h : h = handle[t]
  OBVIOUS
<1>3. h.name \in Name /\ h.dev \in Pointer /\ UNCHANGED <<list, alive, name, parent>>
  BY <1>1, <1>2 DEF TypeOK, PmReleasePowerRelationship
<1>4. CASE h.dev \in Listed
  <2>1. PICK g : g = [Frame("release", h.name) EXCEPT !.dev = h.dev]
    OBVIOUS
  <2>2. Begin(t, g)
    BY <1>2, <1>4, <2>1 DEF PmReleasePowerRelationship
  <2>3. Opens(g)
    BY <1>3, <1>4, <2>1 DEF Opens, Frame, FrameType, Pc, Pointer
  <2> QED BY <1>1, <1>3, <2>2, <2>3, CallTurn
<1>5. CASE h.dev \notin Listed
  <2>1. UNCHANGED <<stack, callVars>>
    BY <1>2, <1>5 DEF PmReleasePowerRelationship
  <2>2. Same /\ overlap' = overlap /\ \A u \in Changer : stack'[u] = stack[u]
    BY <1>3, <2>1, SameAll DEF callVars
  <2> QED BY <2>2, ElseTurn
<1> QED BY <1>4, <1>5

LEMMA FindDuplicateTurn ==
    ASSUME Core, InTurn, ~ overlap, NEW t \in Changer, FindDuplicate(t)
    PROVE  InTurn'
<1>1. At(t, "add") /\ UNCHANGED list
  BY DEF FindDuplicate
<1>2. CASE Find(Me(t).name) # NoBlock
  BY <1>2, FindDuplicateFoundTurn
<1>3. CASE \E b \in Block \ alive :
             /\ Find(Me(t).name) = NoBlock
             /\ alive' = alive \cup {b} /\ name' = [name EXCEPT ![b] = Me(t).name]
             /\ parent' = [parent EXCEPT ![b] = Me(t).parent] /\ Resume(t, Using(t, "insert", b))
  BY <1>1, <1>3, FindDuplicateAllocTurn
<1>4. CASE Resume(t, Rest(t)) /\ UNCHANGED <<alive, name, parent>>
  BY <1>1, <1>4, FindDuplicateNoMemoryTurn
<1> QED BY <1>2, <1>3, <1>4 DEF FindDuplicate, blockVars

(* A step of a thread that changes the lists. *)
LEMMA WorkTurn ==
    ASSUME Core, InTurn, NEW t \in Changer, Change(t) \/ Drop(t) \/ DeviceStateDestroy(t)
    PROVE  InTurn'
<1>1. overlap' = overlap
  BY DEF Change, FindDuplicate, DeviceStateAddList, ProbeDevice, Discard, FindDevice, Unlink,
     LeaveParent, NextClass, VisitDevice, CheckChild, FindParent, FindChild, ReleaseDevice, Drop,
     DeviceStateDestroy, callVars
<1>2. CASE overlap
  BY <1>1, <1>2 DEF InTurn
<1>3. CASE ~ overlap
  <2>1. CASE Change(t)
    BY <1>3, <2>1, FindDuplicateTurn, DeviceStateAddListTurn, ProbeDeviceTurn, DiscardTurn,
       FindDeviceTurn, UnlinkTurn, LeaveParentTurn, NextClassTurn, VisitDeviceTurn, CheckChildTurn,
       FindParentTurn, FindChildTurn, ReleaseDeviceTurn DEF Change
  <2>2. CASE Drop(t) \/ DeviceStateDestroy(t)
    BY <1>3, <2>2, DropTurn, DeviceStateDestroyTurn
  <2> QED BY <2>1, <2>2
<1> QED BY <1>2, <1>3

LEMMA WorkPlain ==
    ASSUME Core, Plain, NEW t \in Changer, Change(t) \/ Drop(t) \/ DeviceStateDestroy(t)
    PROVE  Plain'
<1>1. TypeOK /\ t \in Thread /\ t \notin Reader /\ Reader \subseteq Thread
  BY Changers DEF Core, Thread
<1>2. ASSUME NEW u \in Reader PROVE stack'[u] = stack[u]
  <2>1. u \in Thread /\ u # t
    BY <1>1
  <2> QED BY <1>1, <2>1, ResumeOther DEF Change, FindDuplicate, DeviceStateAddList, ProbeDevice,
       Discard, FindDevice, Unlink, LeaveParent, DeviceStateDecRef, NextClass, VisitDevice, CheckChild,
       FindParent, FindChild, ReleaseDevice, Drop, DeviceStateDestroy
<1> QED BY <1>2 DEF Plain

LEMMA OpensPlain ==
    ASSUME Core, Plain, NEW t \in Changer, NEW f, Begin(t, f) \/ UNCHANGED stack
    PROVE  Plain'
<1>1. TypeOK /\ t \in Thread /\ t \notin Reader /\ Reader \subseteq Thread
  BY Changers DEF Core, Thread
<1>2. ASSUME NEW u \in Reader PROVE stack'[u] = stack[u]
  BY <1>1, ResumeOther DEF Begin
<1> QED BY <1>2 DEF Plain

LEMMA RunTidy ==
    ASSUME Tidy, NEW t \in Thread, Run(t)
    PROVE  Plain' /\ InTurn'
<1>1. Core /\ Plain /\ InTurn
  BY DEF Tidy
<1>2. CASE t \in Reader
  <2>1. ~ (t \in Pnp \cup Client) /\ PlainStack(stack[t])
    BY <1>1, <1>2, Changers, PlainIs DEF Changer
  <2>2. Reads(t)
    BY <1>1, <1>2, <2>1, StartClassReads, EnterUpdateReads, NextDeviceReads, DropReads,
       DeviceStateDestroyReads DEF Run
  <2> QED BY <1>2, <2>2, ReadsTidy
<1>3. CASE t \notin Reader
  <2>1. t \in Changer
    BY <1>3 DEF Changer, Thread
  <2>2. Change(t) \/ Drop(t) \/ DeviceStateDestroy(t)
    BY <1>3 DEF Run
  <2> QED BY <1>1, <2>1, <2>2, WorkTurn, WorkPlain
<1> QED BY <1>2, <1>3

LEMMA TidyStep == Tidy /\ [Next]_vars => Tidy'
<1> SUFFICES ASSUME Tidy, [Next]_vars PROVE Plain' /\ InTurn'
  BY CoreStep DEF Tidy
<1>1. Core /\ Plain /\ InTurn /\ Pnp \subseteq Changer /\ Client \subseteq Changer
  BY DEF Tidy, Changer
<1>2. CASE \E t \in Thread : Run(t)
  BY <1>2, RunTidy
<1>3. CASE \E t \in Pnp, n \in Name : ProcessPnPMsgQueue(t, n)
  <2>1. PICK t \in Pnp, n \in Name : ProcessPnPMsgQueue(t, n)
    BY <1>3
  <2>2. \E f : Begin(t, f)
    BY <2>1 DEF ProcessPnPMsgQueue
  <2> QED BY <1>1, <2>1, <2>2, ProcessPnPMsgQueueTurn, OpensPlain
<1>4. CASE \E t \in Client, n, p \in Name : PmRegisterPowerRelationship(t, n, p)
  <2>1. PICK t \in Client, n \in Name, p \in Name : PmRegisterPowerRelationship(t, n, p)
    BY <1>4
  <2>2. \E f : Begin(t, f)
    BY <2>1 DEF PmRegisterPowerRelationship
  <2> QED BY <1>1, <2>1, <2>2, PmRegisterPowerRelationshipTurn, OpensPlain
<1>5. CASE \E t \in Client : PmReleasePowerRelationship(t)
  <2>1. PICK t \in Client : PmReleasePowerRelationship(t)
    BY <1>5
  <2>2. (\E f : Begin(t, f)) \/ UNCHANGED stack
    BY <2>1 DEF PmReleasePowerRelationship
  <2> QED BY <1>1, <2>1, <2>2, PmReleasePowerRelationshipTurn, OpensPlain
<1>6. CASE \E t \in Reader, n \in Name : PmGetDevicePower(t, n)
  BY <1>1, <1>6, PmGetDevicePowerReads, ReadsTidy
<1>7. CASE \E t \in Reader : UpdateAllDeviceStates(t)
  BY <1>1, <1>7, UpdateAllDeviceStatesReads, ReadsTidy
<1>8. CASE UNCHANGED vars
  <2>1. UNCHANGED <<list, alive, name, parent, stack, overlap>>
    BY <1>8 DEF vars, blockVars, callVars
  <2>2. InTurn'
    BY <1>1, <2>1, SameAll, ElseTurn
  <2> QED BY <1>1, <2>1, <2>2 DEF Plain
<1> QED BY <1>2, <1>3, <1>4, <1>5, <1>6, <1>7, <1>8 DEF Next

LEMMA InitTidy == Init => Tidy
<1> SUFFICES ASSUME Init PROVE Plain /\ InTurn
  BY InitCore DEF Tidy
<1>1. \A t \in Thread : stack[t] = <<>> /\ stack[t] \in Seq(FrameType)
  BY EmptySeq DEF Init
<1>2. Plain
  BY <1>1 DEF Plain, Thread
<1>3. \A t \in Changer : stack[t] = <<>>
  BY <1>1, Changers
<1>4. OneBusy
  BY <1>3 DEF OneBusy
<1>5. alive = {} /\ \A c \in Classes : list[c] = <<>>
  BY DEF Init
<1>6. Listed = {}
  BY <1>5, ListedIs
<1>7. PICK age \in [Block -> 0 .. 0] : TRUE
  <2>1. [b \in Block |-> 0] \in [Block -> 0 .. 0]
    OBVIOUS
  <2> QED BY <2>1
<1>8. Family(age)
  BY <1>5, <1>6 DEF Family
<1>9. NoOrphan
  BY <1>6 DEF NoOrphan
<1>10. \A t \in Changer : StackGood(stack[t], age)
  BY <1>3 DEF StackGood, Frames
<1>11. Orderly(age)
  BY <1>8, <1>9, <1>10 DEF Orderly
<1> QED BY <1>2, <1>4, <1>11 DEF InTurn

LEMMA AreValid == ASSUME Tidy PROVE PointersValid
<1> SUFFICES ASSUME ~ overlap PROVE PointersValid
  BY DEF PointersValid
<1>1. Core /\ Plain /\ InTurn /\ TypeOK /\ LifeOK /\ HeldIsAllocated
  BY AllAllocated DEF Tidy, Core
<1>2. PICK n \in Nat : \E age \in [Block -> 0 .. n] : Orderly(age)
  BY <1>1 DEF InTurn
<1>3. PICK age \in [Block -> 0 .. n] : Orderly(age)
  BY <1>2
<1>4. Listed \cup {parent[b] : b \in alive} \subseteq alive \cup {NoBlock}
  BY <1>1 DEF HeldIsAllocated
<1>5. ASSUME NEW t \in Thread, stack[t] # <<>>
      PROVE  /\ {Me(t).dev, Me(t).cur} \subseteq alive \cup {NoBlock}
             /\ Me(t).pc \in {"unlink", "discard", "release"} => Me(t).dev \in Listed
  <2>1. StackOK(t) /\ stack[t] \in Seq(FrameType)
    BY <1>1 DEF Core, TypeOK
  <2>2. PICK f : f = Me(t)
    OBVIOUS
  <2>3. f \in FrameType /\ FrameOK(f) /\ 1 \in DOMAIN stack[t] /\ stack[t][1] = f
    BY <1>1, <1>5, <2>1, <2>2, CallStack
  <2>4. CASE t \in Reader
    <3>1. f.cur = NoBlock /\ f.pc \in {"class", "update", "driver", "drop", "destroy"}
      BY <1>1, <2>3, <2>4 DEF Plain
    <3>2. f.dev \in alive \cup {NoBlock}
      <4>1. CASE f.pc = "destroy"
        BY <1>1, <1>5, <2>2, <4>1 DEF LifeOK, At, Me
      <4>2. CASE f.pc # "destroy"
        <5>1. Holds(f, f.dev) /\ f.dev \in Block \cup {NoBlock}
          BY <2>3, <3>1, <4>2 DEF Holds, FrameType, Pointer
        <5> QED BY <1>1, <2>3, <5>1 DEF HeldIsAllocated
      <4> QED BY <4>1, <4>2
    <3> QED BY <2>2, <3>1, <3>2
  <2>5. CASE t \notin Reader
    <3>1. t \in Changer
      BY <2>5 DEF Changer, Thread
    <3>2. StackGood(stack[t], age)
      BY <1>3, <3>1 DEF Orderly
    <3>3. Settled(f) /\ Running(f, age)
      BY <1>5, <2>2, <2>3, <3>2 DEF StackGood, Frames, Me
    <3>4. f.cur \in alive \cup {NoBlock}
      BY <1>1, <3>3 DEF Settled, HeldIsAllocated
    <3>5. f.dev \in alive \cup {NoBlock}
      <4>1. CASE f.pc = "destroy"
        BY <1>1, <1>5, <2>2, <4>1 DEF LifeOK, At, Me
      <4>2. CASE f.pc = "registered"
        BY <3>3, <4>2 DEF Settled
      <4>3. CASE f.pc \notin {"destroy", "registered"}
        <5>1. Holds(f, f.dev) /\ f.dev \in Block \cup {NoBlock}
          BY <2>3, <4>3 DEF Holds, FrameType, Pointer
        <5> QED BY <1>1, <2>3, <5>1 DEF HeldIsAllocated
      <4> QED BY <4>1, <4>2, <4>3
    <3>6. f.pc \in {"unlink", "discard", "release"} => f.dev \in Listed
      BY <3>3 DEF Running
    <3> QED BY <2>2, <3>4, <3>5, <3>6
  <2> QED BY <2>4, <2>5
<1> QED BY <1>4, <1>5 DEF PointersValid

LEMMA LeavesNothing == ASSUME Tidy PROVE NothingLeft
<1> SUFFICES ASSUME AtRest, ~ overlap
             PROVE  alive = Listed /\ \A b \in Listed : parent[b] \in Listed \cup {NoBlock}
  BY DEF NothingLeft
<1>1. Core /\ InTurn /\ TypeOK /\ LifeOK /\ RefsExact /\ HeldIsAllocated
  BY AllAllocated DEF Tidy, Core
<1>2. PICK n \in Nat : \E age \in [Block -> 0 .. n] : Orderly(age)
  BY <1>1 DEF InTurn
<1>3. PICK age \in [Block -> 0 .. n] : Orderly(age)
  BY <1>2
<1>4. Family(age) /\ NoOrphan /\ alive \subseteq Block
  BY <1>1, <1>3 DEF Orderly, TypeOK
<1>5. \A t \in Thread : stack[t] = <<>>
  BY DEF AtRest
<1>6. \A b \in Listed : parent[b] \in Listed \cup {NoBlock}
  BY <1>4, <1>5, Changers DEF NoOrphan, Cleans
<1>7. ASSUME NEW b \in alive, b \notin Listed
      PROVE  \E c \in alive : c \notin Listed /\ age[c] > age[b]
  <2>1. b \in Block /\ b # NoBlock
    BY <1>4, BlockAssumption
  <2>2. ref[b] # 0
    BY <1>1, <1>5 DEF LifeOK, At
  <2>3. Holders(b) = {}
    BY <1>5 DEF Holders
  <2>4. Cardinality(Holders(b)) = 0
    BY <2>3, FS_EmptySet
  <2>5. Kids(b) \in Nat /\ (Kids(b) = 0 <=> Children(b) = {})
    BY <1>1, KidsFinite
  <2>6. ref[b] = Kids(b)
    <3>1. ref[b] = Cardinality(Holders(b)) + Kids(b) + 0
      BY <1>1, <1>7, <2>1 DEF RefsExact, Kids, Children
    <3> QED BY <2>4, <2>5, <3>1
  <2>7. PICK c \in alive : parent[c] = b
    BY <2>2, <2>5, <2>6 DEF Children
  <2>8. c \notin Listed
    BY <1>6, <1>7, <2>1, <2>7
  <2>9. age[b] < age[c]
    BY <1>4, <2>1, <2>7 DEF Family
  <2>10. age[b] \in Nat /\ age[c] \in Nat
    BY <1>4, <2>1
  <2> QED BY <2>8, <2>9, <2>10
<1>8. alive \subseteq Listed
  <2> SUFFICES ASSUME NEW d \in alive, d \notin Listed PROVE FALSE
    OBVIOUS
  <2> DEFINE U == {b \in alive : b \notin Listed}
             S == {n - age[b] : b \in U}
  <2>1. U \subseteq Block /\ U # {}
    BY <1>4
  <2>2. \A b \in U : n - age[b] \in Nat /\ age[b] \in 0 .. n
    BY <2>1
  <2>3. S \in SUBSET Nat /\ S # {}
    BY <2>1, <2>2
  <2>4. Min(S) \in S /\ \A y \in S : Min(S) <= y
    BY <2>3, LeastOf
  <2>5. PICK b \in U : Min(S) = n - age[b]
    BY <2>4
  <2>6. PICK c \in U : age[c] > age[b]
    BY <1>7, <2>5
  <2>7. n - age[b] <= n - age[c]
    BY <2>4, <2>5, <2>6
  <2>8. age[b] \in 0 .. n /\ age[c] \in 0 .. n
    BY <2>2
  <2> QED BY <2>6, <2>7, <2>8
<1> QED BY <1>1, <1>6, <1>8 DEF HeldIsAllocated

LEMMA OncePerName == ASSUME Tidy PROVE NamesUnique
BY DEF Tidy, InTurn, Orderly, Family, NamesUnique

(***************************************************************************)
(* As long as devices are added and removed one at a time, what a list, a  *)
(* child or a running frame points to is allocated, the next device that   *)
(* the walk of RemoveDevice remembers without a reference included, and a  *)
(* device that is about to be taken off its list is on it.                 *)
(***************************************************************************)
THEOREM PointersAreValid == Spec => []PointersValid
<1>1. Tidy => PointersValid
  BY AreValid
<1> QED BY <1>1, InitTidy, TidyStep, PTL DEF Spec

(***************************************************************************)
(* When nobody is busy with devices, and changes did not overlap, every    *)
(* block belongs to a listed device, and every parent is listed: removals  *)
(* take the children along, at every level, and no reference is lost.      *)
(***************************************************************************)
THEOREM NothingIsLeft == Spec => []NothingLeft
<1>1. Tidy => NothingLeft
  BY LeavesNothing
<1> QED BY <1>1, InitTidy, TidyStep, PTL DEF Spec

(***************************************************************************)
(* As long as changes do not overlap, AddDevice never puts a name on a     *)
(* list twice, though it looks for duplicates and adds the device in two   *)
(* critical sections.                                                      *)
(***************************************************************************)
THEOREM NamesAreUnique == Spec => []NamesUnique
<1>1. Tidy => NamesUnique
  BY OncePerName
<1> QED BY <1>1, InitTidy, TidyStep, PTL DEF Spec
=============================================================================
