---------------------- MODULE BasicAuthenticationProofs -----------------------
(* The list of revoked tokens, and what the strategy makes of it: for every   *)
(* set of strings, tokens and clients, files of any length, every expiration  *)
(* and every failure of the disk.                                             *)
EXTENDS BasicAuthentication, SequenceTheorems, TLAPS

(* The list on its own: memory and file, and that it implements DurableSet.   *)
Types ==
  /\ cache \subseteq Tokens /\ unmarked \subseteq Tokens
  /\ file \in Seq(Lines) /\ temp \in Seq(Lines)
  /\ exists \in BOOLEAN /\ torn \in BOOLEAN /\ tempOk \in BOOLEAN /\ damaged \in BOOLEAN
  /\ stage \in Stages
  /\ next \in Nat \ {0}
  /\ exists \/ file = <<>>

(* No string outside of X has two live lines: remove marks one of them only.  *)
Unique(f, X) ==
  \A m, n \in 1..Len(f) : (f[m].live /\ f[m].tok \notin X /\ f[m] = f[n]) => m = n

LEMMA LongerRange ==
  ASSUME NEW a \in Int, NEW b \in Int, a < b
  PROVE  1..(a - 1) \subseteq 1..(b - 1)
OBVIOUS

(* Reading the sequence that Append returns, element by element.              *)
LEMMA AppendedLine ==
  ASSUME NEW f \in Seq(Lines), NEW l \in Lines
  PROVE  /\ Append(f, l) \in Seq(Lines)
         /\ Len(Append(f, l)) = Len(f) + 1
         /\ \A n \in 1..Len(f) : Append(f, l)[n] = f[n]
         /\ Append(f, l)[Len(f) + 1] = l
         /\ Len(f) \in Nat
BY AppendProperties, LenProperties

LEMMA AppendedLive ==
  ASSUME NEW f \in Seq(Lines), NEW t \in Tokens, NEW X,
         Unique(f, X), t \notin LiveTokens(f) \/ t \in X
  PROVE  /\ Unique(Append(f, LiveLine(t)), X)
         /\ LiveTokens(Append(f, LiveLine(t))) = LiveTokens(f) \union {t}
<1> DEFINE g == Append(f, LiveLine(t))
<1>1. LiveLine(t) \in Lines
  BY DEF LiveLine, Lines
<1>2. /\ Len(g) = Len(f) + 1 /\ Len(f) \in Nat
      /\ \A n \in 1..Len(f) : g[n] = f[n]
      /\ g[Len(f) + 1] = LiveLine(t)
  BY <1>1, AppendedLine
<1>3. \A n \in 1..Len(f) : f[n] = LiveLine(t) => t \in X
  BY DEF LiveTokens
<1> HIDE DEF g
<1>4. Unique(g, X)
  <2>1. LiveLine(t).tok = t
    BY DEF LiveLine
  <2>. QED  BY <1>2, <1>3, <2>1 DEF Unique
<1>5. ASSUME NEW u \in Tokens PROVE u \in LiveTokens(g) <=> u \in LiveTokens(f) \union {t}
  <2>1. ASSUME NEW n \in 1..Len(g), g[n] = LiveLine(u)
        PROVE  u \in LiveTokens(f) \union {t}
    <3>1. n \in 1..Len(f) \/ n = Len(f) + 1
      BY <1>2
    <3>2. CASE n = Len(f) + 1
      BY <3>2, <2>1, <1>2 DEF LiveLine
    <3>. QED  BY <3>1, <3>2, <2>1, <1>2 DEF LiveTokens
  <2>2. ASSUME NEW n \in 1..Len(f), f[n] = LiveLine(u) PROVE u \in LiveTokens(g)
    BY <2>2, <1>2 DEF LiveTokens
  <2>3. t \in LiveTokens(g)
    BY <1>2 DEF LiveTokens
  <2>. QED  BY <2>1, <2>2, <2>3 DEF LiveTokens
<1>6. LiveTokens(g) = LiveTokens(f) \union {t}
  BY <1>5 DEF LiveTokens
<1>. QED  BY <1>4, <1>6 DEF g

(* Marking the first live line of a string that has no other takes it off the *)
(* list, and nothing else.                                                    *)
LEMMA MarkedLine ==
  ASSUME NEW f \in Seq(Lines), NEW t \in Tokens, NEW X, Unique(f, X)
  PROVE  /\ Mark(f, t) \in Seq(Lines) /\ Unique(Mark(f, t), X)
         /\ LiveTokens(Mark(f, t)) \subseteq LiveTokens(f)
         /\ LiveTokens(f) \ {t} \subseteq LiveTokens(Mark(f, t))
         /\ t \in LiveTokens(Mark(f, t)) => t \in X
<1> DEFINE g == Mark(f, t)
           dead == [tok |-> t, live |-> FALSE]
<1>1. Len(f) \in Nat /\ \A n \in 1..Len(f) : f[n] \in Lines
  BY LenProperties, ElementOfSeq
<1>2. \A n \in 1..Len(f) : g[n] = f[n] \/ (f[n] = LiveLine(t) /\ g[n] = dead)
  BY DEF Mark, IsFirst
<1>3. ASSUME t \notin X, NEW n \in 1..Len(f), f[n] = LiveLine(t) PROVE g[n] = dead
  <2>1. IsFirst(f, t, n)
    <3>1. f[n].live /\ f[n].tok = t
      BY <1>3 DEF LiveLine
    <3>. QED  BY <1>1, <1>3, <3>1 DEF IsFirst, Unique
  <2>. QED  BY <2>1 DEF Mark
<1>4. g \in [1..Len(f) -> Lines]
  BY <1>1 DEF Mark, Lines
<1>5. g \in Seq(Lines) /\ Len(g) = Len(f)
  <2>1. g \in Seq(Lines)
    BY <1>1, <1>4, SeqDef
  <2>2. Len(g) \in Nat /\ 1..Len(g) = 1..Len(f)
    BY <1>4, <2>1, LenProperties
  <2>. QED  BY <1>1, <2>1, <2>2
<1>6. ~dead.live /\ \A u \in Tokens : dead # LiveLine(u)
  BY DEF LiveLine
<1> HIDE DEF g, dead
<1>7. Unique(g, X)
  BY <1>2, <1>5, <1>6 DEF Unique
<1>8. \A u \in Tokens, n \in 1..Len(f) : g[n] = LiveLine(u) => f[n] = LiveLine(u)
  BY <1>2, <1>6
<1>9. \A u \in Tokens \ {t}, n \in 1..Len(f) : f[n] = LiveLine(u) => g[n] = LiveLine(u)
  <2>1. \A u \in Tokens \ {t} : LiveLine(u) # LiveLine(t)
    BY DEF LiveLine
  <2>. QED  BY <1>2, <2>1
<1>10. LiveTokens(g) \subseteq LiveTokens(f) /\ LiveTokens(f) \ {t} \subseteq LiveTokens(g)
  BY <1>5, <1>8, <1>9 DEF LiveTokens
<1>11. t \in LiveTokens(g) => t \in X
  BY <1>3, <1>5, <1>6, <1>8 DEF LiveTokens
<1>. QED  BY <1>5, <1>7, <1>10, <1>11 DEF g

-----------------------------------------------------------------------------
(* compactFile has copied the live lines before the next one, and nothing     *)
(* else; each of them as long as every read and write has succeeded.          *)
Copied ==
  stage = "copy" =>
    /\ exists /\ next <= Len(file) + 1
    /\ \A k \in 1..Len(temp) : temp[k].live /\ \E m \in 1..(next - 1) : temp[k] = file[m]
    /\ ~damaged =>
         \A m \in 1..(next - 1) : file[m].live => \E k \in 1..Len(temp) : temp[k] = file[m]

(* What the temporary file is when it is to be the file.                      *)
Renamed ==
  stage = "rename" =>
    /\ LiveTokens(temp) \subseteq cache \union unmarked
    /\ ~damaged => /\ cache \subseteq LiveTokens(temp)
                   /\ exists => cache \subseteq LiveTokens(file)

(* No start would find in the file what the list does not hold, save strings  *)
(* whose mark has failed.                                                     *)
NothingBack == stage # "down" => LiveTokens(file) \subseteq cache \union unmarked

Sound ==
  /\ Unique(file, unmarked)
  /\ stage \in {"copy", "rename"} => Unique(temp, unmarked)
  /\ ~damaged => tempOk
  /\ (stage \in {"idle", "copy"} /\ ~damaged) => cache \subseteq LiveTokens(file)
  /\ NothingBack /\ Copied /\ Renamed

ListInvariant == Types /\ Sound

LEMMA ListInvariantInit == Init => ListInvariant
<1> SUFFICES ASSUME Init PROVE ListInvariant
  OBVIOUS
<1>1. Types
  <2>1. <<>> \in Seq(Lines)
    BY EmptySeq
  <2>2. file \in Seq(Lines) /\ temp \in Seq(Lines)
    BY <2>1 DEF Init
  <2>3. exists \in BOOLEAN /\ torn \in BOOLEAN /\ tempOk \in BOOLEAN /\ damaged \in BOOLEAN
    BY DEF Init
  <2>4. next \in Nat \ {0} /\ stage \in Stages /\ file = <<>> /\ cache = {} /\ unmarked = {}
    BY DEF Init, Stages
  <2>. QED  BY <2>2, <2>3, <2>4 DEF Types
<1>2. Unique(file, unmarked)
  BY DEF Init, Unique
<1>3. Sound
  BY <1>2 DEF Init, Sound, NothingBack, Copied, Renamed
<1>. QED  BY <1>1, <1>3 DEF ListInvariant

LEMMA StartStep == ListInvariant /\ Start => unread' \/ ListInvariant'
BY DEF Start, fileVars, ListInvariant, Types, Sound, Stages, Unique, NothingBack, Copied,
       Renamed, LiveTokens

LEMMA CrashStep == ListInvariant /\ Crash => ListInvariant'
<1> SUFFICES ASSUME ListInvariant, Crash PROVE ListInvariant'
  OBVIOUS
<1> USE DEF fileVars
<1>1. Types'
  <2>3. exists' \in BOOLEAN /\ torn' \in BOOLEAN /\ tempOk' \in BOOLEAN /\ damaged' \in BOOLEAN
    BY DEF Crash, ListInvariant, Types
  <2>4. next' \in Nat \ {0} /\ stage' \in Stages
    BY DEF Crash, Stages
  <2>. QED  BY <2>3, <2>4 DEF Crash, ListInvariant, Types
<1>2. Unique(file, unmarked)'
  BY DEF Crash, ListInvariant, Sound, Unique
<1>3. Sound'
  BY <1>2 DEF Crash, Sound, NothingBack, Copied, Renamed
<1>. QED  BY <1>1, <1>3 DEF ListInvariant

LEMMA Stutters == ListInvariant /\ UNCHANGED listVars => ListInvariant'
BY DEF ListInvariant, Types, Sound, Unique, NothingBack, Copied, Renamed, listVars, fileVars,
       compactVars

LEMMA AddStep == ASSUME NEW t \in Tokens, ListInvariant, Add(t) PROVE ListInvariant'
<1> USE DEF ListInvariant, Types, Sound, Stages
<1>1. CASE UNCHANGED listVars
  BY <1>1, Stutters
<1>2. CASE /\ t \notin cache /\ cache' = cache \union {t} /\ exists' = TRUE
           /\ torn' \in BOOLEAN /\ stage = "idle" /\ UNCHANGED <<compactVars, unmarked>>
  <2>1. UNCHANGED <<temp, stage, next, tempOk, unmarked>>
    BY <1>2 DEF compactVars
  <2>2. CASE damaged' = TRUE /\ file' = file
    BY <1>2, <2>1, <2>2 DEF NothingBack, Copied, Renamed
  <2>3. CASE file' = Append(file, LiveLine(t)) /\ damaged' = damaged
    <3>1. t \notin LiveTokens(file) \/ t \in unmarked
      BY <1>2 DEF NothingBack
    <3>2. Unique(file', unmarked) /\ LiveTokens(file') = LiveTokens(file) \union {t}
      BY <2>3, <3>1, AppendedLive
    <3>3. file' \in Seq(Lines)
      BY <2>3, AppendedLine DEF LiveLine, Lines
    <3>. QED  BY <1>2, <2>1, <2>3, <3>2, <3>3 DEF NothingBack, Copied, Renamed
  <2>. QED  BY <1>1, <1>2, <2>2, <2>3 DEF Add
<1>. QED  BY <1>1, <1>2 DEF Add

(* A mark that fails lets the string into unmarked, and no other is touched.  *)
LEMMA RemoveStep == ASSUME NEW t \in Tokens, ListInvariant, Remove(t) PROVE ListInvariant'
<1> USE DEF ListInvariant, Types, Sound, Stages
<1>1. CASE UNCHANGED listVars
  BY <1>1, Stutters
<1>2. CASE /\ cache' = cache \ {t} /\ stage = "idle" /\ exists
           /\ UNCHANGED <<exists, torn, compactVars, damaged>>
  <2>1. UNCHANGED <<exists, torn, temp, stage, next, tempOk, damaged>>
    BY <1>2 DEF compactVars
  <2>2. CASE file' = Mark(file, t) /\ UNCHANGED unmarked
    <3>1. /\ file' \in Seq(Lines) /\ Unique(file', unmarked)
          /\ LiveTokens(file') \subseteq LiveTokens(file)
          /\ LiveTokens(file) \ {t} \subseteq LiveTokens(file')
          /\ t \in LiveTokens(file') => t \in unmarked
      BY <2>2, MarkedLine
    <3>. QED  BY <1>2, <2>1, <2>2, <3>1 DEF NothingBack, Copied, Renamed
  <2>3. CASE file' = file /\ unmarked' = unmarked \union {t}
    <3>1. Unique(file, unmarked)'
      BY <2>3 DEF Unique
    <3>. QED  BY <1>2, <2>1, <2>3, <3>1 DEF NothingBack, Copied, Renamed
  <2>. QED  BY <1>1, <2>2, <2>3 DEF Remove
<1>. QED  BY <1>1, <1>2 DEF Remove

LEMMA CompactBeginStep == ListInvariant /\ CompactBegin => ListInvariant'
<1> SUFFICES ASSUME ListInvariant, CompactBegin PROVE ListInvariant'
  OBVIOUS
<1> USE DEF ListInvariant, Types, Sound, Stages, fileVars
<1>1. CASE UNCHANGED listVars
  BY <1>1, Stutters
<1>2. CASE /\ stage = "idle" /\ exists /\ stage' = "copy" /\ next' = 1 /\ temp' = <<>>
           /\ tempOk' = TRUE /\ UNCHANGED <<cache, fileVars, damaged, unmarked>>
  <2>1. temp' \in Seq(Lines) /\ Len(temp') = 0 /\ Len(file) \in Nat
    BY <1>2, EmptySeq, LenProperties
  <2>2. Unique(temp, unmarked)'
    BY <2>1 DEF Unique
  <2>3. Copied'
    BY <1>2, <2>1 DEF Copied
  <2>. QED  BY <1>2, <2>1, <2>2, <2>3 DEF NothingBack, Renamed
<1>. QED  BY <1>1, <1>2 DEF CompactBegin

(* A live line that is copied was not copied before.                          *)
LEMMA CompactLineStep == ListInvariant /\ CompactLine => ListInvariant'
<1> SUFFICES ASSUME ListInvariant, CompactLine PROVE ListInvariant'
  OBVIOUS
<1> USE DEF ListInvariant, Types, Sound, Stages
<1>1. /\ stage = "copy" /\ exists /\ next \in 1..Len(file)
      /\ UNCHANGED <<cache, file, exists, torn, stage, unmarked>>
      /\ Len(file) \in Nat /\ Len(temp) \in Nat /\ file[next] \in Lines
  BY LenProperties, ElementOfSeq DEF CompactLine, Copied, fileVars
<1>2. ASSUME next' \in (next + 1)..(Len(file) + 1), temp' = temp,
             tempOk' \in BOOLEAN, damaged' \in BOOLEAN,
             ~damaged' => ~damaged /\ tempOk' /\ ~file[next].live /\ next' = next + 1
      PROVE  ListInvariant'
  <2>1. \A k \in 1..Len(temp) : temp[k].live /\ \E m \in 1..(next' - 1) : temp[k] = file[m]
    <3>1. 1..(next - 1) \subseteq 1..(next' - 1)
      <4>1. next \in Int /\ next' \in Int /\ next < next'
        BY <1>1, <1>2
      <4>. QED  BY <4>1, LongerRange
    <3>. QED  BY <1>1, <3>1 DEF Copied
  <2>2. ASSUME ~damaged', NEW m \in 1..(next' - 1), file[m].live
        PROVE  \E k \in 1..Len(temp) : temp[k] = file[m]
    <3>1. ~damaged /\ m # next /\ next' = next + 1
      BY <1>2, <2>2
    <3>2. m \in 1..(next - 1)
      BY <1>1, <3>1
    <3>. QED  BY <1>1, <2>2, <3>1, <3>2 DEF Copied
  <2>3. Copied'
    <3>1. next' <= Len(file) + 1
      BY <1>1, <1>2
    <3>. QED  BY <1>1, <1>2, <2>1, <2>2, <3>1 DEF Copied
  <2>. QED  BY <1>1, <1>2, <2>3 DEF NothingBack, Renamed
<1>3. ASSUME next' = next + 1, temp' = Append(temp, file[next]), file[next].live,
             UNCHANGED <<tempOk, damaged>>
      PROVE  ListInvariant'
  <2>1. /\ temp' \in Seq(Lines) /\ Len(temp') = Len(temp) + 1
        /\ \A k \in 1..Len(temp) : temp'[k] = temp[k]
        /\ temp'[Len(temp) + 1] = file[next]
    BY <1>1, <1>3, AppendedLine
  <2>2. \A k \in 1..Len(temp) : temp[k] = file[next] => file[next].tok \in unmarked
    BY <1>1, <1>3 DEF Copied, Unique
  <2>3. Unique(temp', unmarked)
    <3> SUFFICES ASSUME NEW m \in 1..Len(temp'), NEW n \in 1..Len(temp'),
                        temp'[m].live, temp'[m].tok \notin unmarked, temp'[m] = temp'[n]
                 PROVE  m = n
      BY DEF Unique
    <3>1. Unique(temp, unmarked)
      BY <1>1
    <3>2. \A k \in 1..Len(temp') : k \in 1..Len(temp) \/ k = Len(temp) + 1
      BY <1>1, <2>1
    <3>3. CASE m \in 1..Len(temp) /\ n \in 1..Len(temp)
      BY <2>1, <3>1, <3>3 DEF Unique
    <3>. QED  BY <2>1, <2>2, <3>2, <3>3
  <2>4. \A k \in 1..Len(temp') : temp'[k].live /\ \E m \in 1..(next' - 1) : temp'[k] = file[m]
    BY <1>1, <1>3, <2>1 DEF Copied
  <2>5. ASSUME ~damaged, NEW m \in 1..(next' - 1), file[m].live
        PROVE  \E k \in 1..Len(temp') : temp'[k] = file[m]
    <3>1. CASE m = next
      BY <1>1, <2>1, <3>1
    <3>2. CASE m \in 1..(next - 1)
      BY <1>1, <2>1, <2>5, <3>2 DEF Copied
    <3>. QED  BY <1>1, <1>3, <3>1, <3>2
  <2>6. Copied'
    <3>1. next' <= Len(file) + 1
      BY <1>1, <1>3
    <3>2. exists' = exists /\ file' = file /\ damaged' = damaged
      BY <1>1, <1>3
    <3>. QED  BY <1>1, <2>4, <2>5, <3>1, <3>2 DEF Copied
  <2>. QED  BY <1>1, <1>3, <2>1, <2>3, <2>6 DEF NothingBack, Renamed
<1>4. CASE /\ next' = next + 1 /\ UNCHANGED <<tempOk, damaged>>
           /\ temp' = (IF file[next].live /\ tempOk THEN Append(temp, file[next]) ELSE temp)
  BY <1>1, <1>2, <1>3, <1>4
<1>5. CASE next' = next + 1 /\ tempOk' = FALSE /\ damaged' = TRUE /\ temp' = temp
  <2>1. next' \in (next + 1)..(Len(file) + 1)
    BY <1>1, <1>5
  <2>. QED  BY <1>2, <1>5, <2>1
<1>6. CASE next' = Len(file) + 1 /\ damaged' = TRUE /\ UNCHANGED <<temp, tempOk>>
  <2>1. next' \in (next + 1)..(Len(file) + 1)
    BY <1>1, <1>6
  <2>. QED  BY <1>2, <1>6, <2>1
<1>. QED  BY <1>4, <1>5, <1>6 DEF CompactLine

(* When every line was looked at, the copy is the list.                       *)
LEMMA CompactUnlinkStep == ListInvariant /\ CompactUnlink => ListInvariant'
<1> SUFFICES ASSUME ListInvariant, CompactUnlink PROVE ListInvariant'
  OBVIOUS
<1> USE DEF ListInvariant, Types, Sound, Stages, fileVars
<1>1. /\ stage = "copy" /\ stage' = "rename" /\ next = Len(file) + 1 /\ exists
      /\ UNCHANGED <<cache, temp, next, tempOk, damaged, unmarked>> /\ Len(file) \in Nat
  BY LenProperties DEF CompactUnlink, Copied
<1>2. LiveTokens(temp) \subseteq LiveTokens(file)
  BY <1>1 DEF Copied, LiveTokens
<1>3. ASSUME ~damaged PROVE LiveTokens(file) \subseteq LiveTokens(temp)
  <2> SUFFICES ASSUME NEW t \in Tokens, NEW n \in 1..Len(file), file[n] = LiveLine(t)
               PROVE  \E k \in 1..Len(temp) : temp[k] = LiveLine(t)
    BY DEF LiveTokens
  <2>1. file[n].live
    BY DEF LiveLine
  <2>2. n \in 1..(next - 1)
    BY <1>1
  <2>. QED  BY <1>1, <1>3, <2>1, <2>2 DEF Copied
<1>4. CASE UNCHANGED fileVars
  BY <1>1, <1>2, <1>3, <1>4 DEF NothingBack, Copied, Renamed
<1>5. CASE file' = <<>> /\ exists' = FALSE /\ torn' = FALSE
  <2>1. file' \in Seq(Lines) /\ Unique(file', unmarked) /\ LiveTokens(file') = {}
    BY <1>5, EmptySeq DEF Unique, LiveTokens
  <2>. QED  BY <1>1, <1>2, <1>3, <1>5, <2>1 DEF NothingBack, Copied, Renamed
<1>. QED  BY <1>4, <1>5 DEF CompactUnlink

LEMMA CompactRenameStep == ListInvariant /\ CompactRename => ListInvariant'
<1> SUFFICES ASSUME ListInvariant, CompactRename PROVE ListInvariant'
  OBVIOUS
<1> USE DEF ListInvariant, Types, Sound, Stages, fileVars
<1>1. CASE exists' = TRUE /\ file' = temp /\ torn' \in BOOLEAN /\ temp' = <<>>
           /\ damaged' = damaged
  <2>1. temp' \in Seq(Lines)
    BY <1>1, EmptySeq
  <2>. QED  BY <1>1, <2>1 DEF CompactRename, NothingBack, Copied, Renamed
<1>2. CASE damaged' = TRUE /\ UNCHANGED <<fileVars, temp>>
  BY <1>2 DEF CompactRename, NothingBack, Copied, Renamed
<1>3. tempOk \in BOOLEAN
  OBVIOUS
<1>. QED  BY <1>1, <1>2, <1>3 DEF CompactRename

LEMMA ListInvariantStep == ListInvariant /\ [Next]_listVars => unread' \/ ListInvariant'
BY Stutters, StartStep, CrashStep, AddStep, RemoveStep, CompactBeginStep, CompactLineStep,
   CompactUnlinkStep, CompactRenameStep DEF Next

LEMMA UnreadStays == unread /\ [Next]_listVars => unread'
BY DEF listVars, Next, Start, Crash, Add, Remove, CompactBegin, CompactLine,
       CompactUnlink, CompactRename

(* Until a start has not read the file to its end.                            *)
ListInvariantUnlessUnread == unread \/ ListInvariant

LEMMA ListInvariantHolds == Spec => []ListInvariantUnlessUnread
<1>1. Init => ListInvariantUnlessUnread
  BY ListInvariantInit DEF ListInvariantUnlessUnread
<1>2. ListInvariantUnlessUnread /\ [Next]_listVars => ListInvariantUnlessUnread'
  BY ListInvariantStep, UnreadStays DEF ListInvariantUnlessUnread
<1>. QED  BY <1>1, <1>2, PTL DEF Spec

-----------------------------------------------------------------------------
(* Whenever the mutex is free, no line was lost and every start has read the  *)
(* file, the cache is what a restart would read, for each string whose        *)
(* removal was always marked.                                                 *)
THEOREM CacheAgreesWithFile == Spec => []Agreement
<1>1. ListInvariantUnlessUnread => Agreement
  BY DEF ListInvariantUnlessUnread, ListInvariant, Sound, NothingBack, Agreement, Clean
<1>. QED  BY <1>1, ListInvariantHolds, PTL

(* No restart brings a removed string back, save one whose mark in the file   *)
(* failed.                                                                    *)
THEOREM RemovedStaysRemoved == Spec => []NoResurrection
<1>1. ListInvariantUnlessUnread => NoResurrection
  BY DEF ListInvariantUnlessUnread, ListInvariant, Sound, NothingBack, NoResurrection
<1>. QED  BY <1>1, ListInvariantHolds, PTL

(* All through a compaction the list is on the disk.                          *)
THEOREM ListOnDisk == Spec => []Recoverable
<1>1. ASSUME ListInvariant, stage \in {"copy", "rename"}, ~damaged
      PROVE  Clean(cache) = Clean(IF exists THEN LiveTokens(file) ELSE LiveTokens(temp))
  <2>1. CASE exists
    BY <1>1, <2>1 DEF ListInvariant, Sound, NothingBack, Renamed, Clean
  <2>2. CASE ~exists
    BY <1>1, <2>2 DEF ListInvariant, Sound, Copied, Renamed, Clean
  <2>. QED  BY <2>1, <2>2
<1>2. ListInvariantUnlessUnread => Recoverable
  BY <1>1 DEF ListInvariantUnlessUnread, Recoverable
<1>. QED  BY <1>2, ListInvariantHolds, PTL

-----------------------------------------------------------------------------
(* The list implements DurableSet: every operation, every step of a           *)
(* compaction and every crash is a step of the set, or none of it.            *)
THEOREM ImplementsDurableSet == Spec => DurableSpec
<1>1. Init => Durable!Init
  BY DEF Init, Durable!Init, LiveTokens, Clean
<1>2. ListInvariantUnlessUnread /\ [Next]_listVars
        => [damaged \/ unread' \/ Durable!Next]_<<Durable!setVars>>
  <2> SUFFICES ASSUME ListInvariant, [Next]_listVars, ~damaged, ~unread'
               PROVE  Durable!Next \/ UNCHANGED Durable!setVars
    BY UnreadStays DEF ListInvariantUnlessUnread
  <2> USE DEF ListInvariant, Types, Sound, Stages, fileVars
  <2>0. ASSUME UNCHANGED <<cache, stage, file, unmarked>> PROVE UNCHANGED Durable!setVars
    BY <2>0 DEF Durable!setVars, LiveTokens, Clean
  <2>1. CASE Start
    <3>1. cache' = LiveTokens(file) /\ unmarked' = unmarked
      BY <2>1 DEF Start
    <3>2. Clean(LiveTokens(file)) = Clean(cache)'
      BY <3>1 DEF Clean
    <3>3. Durable!Open
      BY <2>1, <3>2 DEF Start, Durable!Open
    <3>. QED  BY <3>3 DEF Durable!Next
  <2>2. CASE Crash
    <3>1. Clean(LiveTokens(file)) = Clean(cache) \/ (stage = "rename" /\ LiveTokens(file) = {})
      <4>1. CASE stage = "rename" /\ ~exists
        BY <4>1, EmptySeq DEF LiveTokens
      <4>. QED  BY <2>2, <4>1 DEF Crash, Renamed, NothingBack, Clean
    <3>2. Clean(LiveTokens(file))' = Clean(LiveTokens(file))
      BY <2>2 DEF Crash, Clean, LiveTokens
    <3>3. Clean({}) = {}
      BY DEF Clean
    <3>4. stage # "down" /\ stage' = "down"
      BY <2>2 DEF Crash
    <3>5. Clean(IF stage = "down" THEN LiveTokens(file) ELSE cache)'
            = Clean(LiveTokens(file))
      BY <3>2, <3>4 DEF Clean
    <3>6. Clean(IF stage = "down" THEN LiveTokens(file) ELSE cache) = Clean(cache)
      BY <3>4 DEF Clean
    <3>7. Durable!Crash
      BY <3>1, <3>3, <3>4, <3>5, <3>6 DEF Durable!Crash
    <3>. QED  BY <3>7 DEF Durable!Next
  <2>3. ASSUME NEW t \in Tokens, Add(t)
        PROVE  Durable!Next \/ UNCHANGED Durable!setVars
    <3>1. CASE UNCHANGED listVars
      BY <2>0, <3>1 DEF listVars, compactVars
    <3>2. CASE cache' = cache \union {t} /\ stage = "idle" /\ UNCHANGED <<stage, unmarked>>
      <4>1. CASE t \in unmarked
        <5>1. Clean(cache)' = Clean(cache)
          BY <3>2, <4>1 DEF Clean
        <5>. QED  BY <3>2, <5>1 DEF Durable!setVars
      <4>2. CASE t \notin unmarked
        <5>1. Clean(cache)' = Clean(cache) \union {t}
          BY <3>2, <4>2 DEF Clean
        <5>2. Durable!Insert(t)
          BY <3>2, <5>1 DEF Durable!Insert
        <5>. QED  BY <5>2 DEF Durable!Next
      <4>. QED  BY <4>1, <4>2
    <3>. QED  BY <2>3, <3>1, <3>2 DEF Add, compactVars
  <2>4. ASSUME NEW t \in Tokens, Remove(t)
        PROVE  Durable!Next \/ UNCHANGED Durable!setVars
    <3>1. CASE UNCHANGED listVars
      BY <2>0, <3>1 DEF listVars, compactVars
    <3>2. CASE /\ cache' = cache \ {t} /\ stage = "idle" /\ stage' = stage
               /\ unmarked' \in {unmarked, unmarked \union {t}}
      <4>1. Clean(cache)' = Clean(cache) \ {t}
        BY <3>2 DEF Clean
      <4>2. Durable!Delete(t)
        BY <3>2, <4>1 DEF Durable!Delete
      <4>. QED  BY <4>2 DEF Durable!Next
    <3>. QED  BY <2>4, <3>1, <3>2 DEF Remove, compactVars
  <2>5. CASE CompactBegin
    <3>1. CASE UNCHANGED listVars
      BY <2>0, <3>1 DEF listVars, compactVars
    <3>2. CASE stage = "idle" /\ stage' = "copy" /\ UNCHANGED <<cache, unmarked>>
      <4>1. Clean(cache)' = Clean(cache)
        BY <3>2 DEF Clean
      <4>2. Durable!BeginCompaction
        BY <3>2, <4>1 DEF Durable!BeginCompaction
      <4>. QED  BY <4>2 DEF Durable!Next
    <3>. QED  BY <2>5, <3>1, <3>2 DEF CompactBegin
  <2>6. CASE CompactLine \/ CompactUnlink
    <3>1. /\ stage \in {"copy", "rename"} /\ stage' \in {"copy", "rename"}
          /\ UNCHANGED <<cache, unmarked>>
      BY <2>6 DEF CompactLine, CompactUnlink
    <3>2. Clean(cache)' = Clean(cache)
      BY <3>1 DEF Clean
    <3>. QED  BY <3>1, <3>2 DEF Durable!setVars
  <2>7. CASE CompactRename
    <3>1. Clean(cache)' = Clean(cache)
      BY <2>7 DEF CompactRename, Clean
    <3>2. Durable!EndCompaction
      BY <2>7, <3>1 DEF CompactRename, Durable!EndCompaction
    <3>. QED  BY <3>2 DEF Durable!Next
  <2>8. CASE UNCHANGED listVars
    BY <2>0, <2>8 DEF listVars, compactVars
  <2>. QED  BY <2>1, <2>2, <2>3, <2>4, <2>5, <2>6, <2>7, <2>8 DEF Next
<1>. QED  BY <1>1, <1>2, ListInvariantHolds, PTL DEF Spec, DurableSpec

-----------------------------------------------------------------------------
(* The strategy.                                                              *)
(* The list as a caller or a later start sees it.                             *)
Contents == IF stage = "down" THEN LiveTokens(file) ELSE cache

-----------------------------------------------------------------------------
(* What the operations of the list do to it.                                  *)
LEMMA AddContents ==
  ASSUME NEW t \in Tokens, Add(t)
  PROVE  /\ Contents \subseteq Contents' /\ Contents' \subseteq Contents \union {t}
         /\ t \in cache' => t \in Contents'
         /\ unmarked' = unmarked
BY DEF Add, Contents, listVars, fileVars, compactVars

LEMMA RemoveContents ==
  ASSUME NEW t \in Tokens, Remove(t)
  PROVE  /\ Contents' \subseteq Contents /\ Contents \ {t} \subseteq Contents'
         /\ unmarked' \subseteq unmarked \union {t}
BY DEF Remove, Contents, listVars, compactVars

LEMMA CompactContents ==
  ASSUME CompactBegin \/ CompactLine \/ CompactUnlink \/ CompactRename
  PROVE  Contents' = Contents /\ unmarked' = unmarked
<1>1. (stage # "down" /\ stage' # "down" /\ UNCHANGED cache) \/ UNCHANGED listVars
  BY DEF CompactBegin, CompactLine, CompactUnlink, CompactRename
<1>2. unmarked' = unmarked
  BY DEF CompactBegin, CompactLine, CompactUnlink, CompactRename, listVars
<1>. QED  BY <1>1, <1>2 DEF Contents, listVars, fileVars, compactVars

LEMMA StartContents == Start => unread' \/ (Contents' = Contents /\ unmarked' = unmarked)
BY DEF Start, Contents

LEMMA CrashContents ==
  ASSUME ListInvariant, Crash
  PROVE  /\ Contents' \subseteq Contents \union unmarked /\ unmarked' = unmarked
         /\ (damaged \/ (stage = "rename" /\ ~exists)) \/ Contents \subseteq Contents'
<1>1. Contents' = LiveTokens(file) /\ Contents = cache /\ unmarked' = unmarked
  BY DEF Crash, Contents, fileVars
<1>2. LiveTokens(file) \subseteq cache \union unmarked
  BY DEF ListInvariant, Sound, NothingBack, Crash
<1>3. ASSUME ~damaged, ~(stage = "rename" /\ ~exists) PROVE cache \subseteq LiveTokens(file)
  BY <1>3 DEF ListInvariant, Types, Sound, Stages, Renamed, Crash
<1>. QED  BY <1>1, <1>2, <1>3

(* Every step of the strategy is a step of the list or leaves it alone.       *)
LEMMA ListMoves == ListInvariant /\ [AuthNext]_vars => [Next]_listVars
<1> SUFFICES ASSUME ListInvariant, [AuthNext]_vars PROVE Next \/ UNCHANGED listVars
  OBVIOUS
<1>1. CASE Tick \/ Destroy \/ \E c \in Clients : Verify(c) \/ \E t \in Tokens : Find(c, t)
  BY <1>1 DEF Tick, Destroy, Verify, Find
<1>2. CASE Construct \/ DestroyReturns \/ ProcessDies
  BY <1>2 DEF Construct, DestroyReturns, ProcessDies, Next
<1>3. CASE \E t \in Tokens : Logout(t)
  BY <1>3 DEF Logout, Next
<1>4. CASE ThreadTop \/ ThreadWakes \/ \E t \in Tokens : PruneCheck(t)
  BY <1>4 DEF ThreadTop, ThreadWakes, PruneCheck
<1>5. CASE PruneErase
  <2>1. CASE victim \in cache
    BY <1>5, <2>1 DEF PruneErase, Next, ListInvariant, Types
  <2>. QED  BY <1>5, <2>1 DEF PruneErase, Remove
<1>6. CASE ThreadCompacts
  BY <1>6 DEF ThreadCompacts, Next
<1>7. CASE UNCHANGED vars
  BY <1>7 DEF vars
<1>. QED  BY <1>1, <1>2, <1>3, <1>4, <1>5, <1>6, <1>7 DEF AuthNext, ThreadStep


-----------------------------------------------------------------------------
(* What a client may hold it may always hold, and once it does not verify it  *)
(* never does again.                                                          *)
LEMMA TimePasses ==
  ASSUME clock \in Nat, clock' \in {clock, clock + 1}
  PROVE  /\ clock' \in Nat /\ Held \subseteq Held'
         /\ \A t \in Held : Verifies(t)' => Verifies(t)
<1>1. \A t \in Tokens \ Garbage : t \in Nat
  BY AuthAssumption
<1>. QED  BY <1>1, AuthAssumption DEF Held, Verifies

(* Everything that is on the list, on its way off it, left in the file by a   *)
(* failed mark, or revoked, is a string that a client has held; the thread    *)
(* erases none that could verify again.                                       *)
ListOfHeld ==
  /\ clock \in Nat
  /\ Contents \subseteq Held /\ todo \subseteq Held /\ revoked \subseteq Held
  /\ unmarked \subseteq Held
  /\ tpc = "erase" => victim \in Held /\ ~Verifies(victim)

Kept == ListInvariant /\ ListOfHeld /\ KeptWhileValid

(* Until the list is lost.                                                    *)
KeptUnlessLost == clock \in Nat /\ (unread => lost) /\ (lost \/ Kept)

LEMMA ClockMoves == [AuthNext]_vars => clock' \in {clock, clock + 1}
BY DEF AuthNext, ThreadStep, vars, authVars, Tick, Construct, Destroy, DestroyReturns,
       ProcessDies, Find, Verify, Logout, ThreadTop, ThreadWakes, PruneErase,
       ThreadCompacts, PruneCheck

(* The list is lost once and for all, and it is when a start has not read the *)
(* file to its end.                                                           *)
LEMMA LostStays ==
  ASSUME [AuthNext]_vars
  PROVE  (lost => lost') /\ ((unread => lost) => (unread' => lost'))
<1>1. CASE Construct
  BY <1>1 DEF Construct
<1>2. CASE DestroyReturns \/ ProcessDies
  <2>1. unread' = unread
    BY <1>2 DEF DestroyReturns, ProcessDies, Crash
  <2>2. lost => lost'
    BY <1>2, Zenon DEF DestroyReturns, ProcessDies
  <2>. QED  BY <2>1, <2>2
<1>3. CASE ThreadStep
  <2>1. UNCHANGED lost
    BY <1>3 DEF ThreadStep, ThreadTop, ThreadWakes, PruneErase, ThreadCompacts, PruneCheck
  <2>2. UNCHANGED unread
    BY <1>3 DEF ThreadStep, ThreadTop, ThreadWakes, PruneErase, ThreadCompacts, PruneCheck,
                listVars, Remove, CompactBegin, CompactLine, CompactUnlink, CompactRename
  <2>. QED  BY <2>1, <2>2
<1>4. CASE \/ Tick \/ Destroy \/ UNCHANGED vars
           \/ \E c \in Clients : Verify(c) \/ \E t \in Tokens : Find(c, t)
  BY <1>4 DEF Tick, Destroy, Verify, Find, vars, authVars, listVars
<1>5. CASE \E t \in Tokens : Logout(t)
  <2>1. UNCHANGED lost
    BY <1>5 DEF Logout
  <2>2. UNCHANGED unread
    BY <1>5 DEF Logout, Add, listVars
  <2>. QED  BY <2>1, <2>2
<1>. QED  BY <1>1, <1>2, <1>3, <1>4, <1>5 DEF AuthNext

LEMMA KeptStep ==
  ASSUME Kept, [AuthNext]_vars, ~unread', ~lost'
  PROVE  ListOfHeld' /\ KeptWhileValid'
<1> USE DEF Kept, ListOfHeld
<1> USE DEF fileVars, compactVars
<1> DEFINE Goal == ListOfHeld /\ KeptWhileValid
<1>0. KeptWhileValid <=> (~lost => \A t \in revoked : Verifies(t) => t \in Contents)
  BY DEF KeptWhileValid, Contents
<1>1. KeptWhileValid' <=>
        (~lost' => \A t \in revoked' : Verifies(t)' => t \in Contents')
  BY DEF KeptWhileValid, Contents
<1>2. clock' \in {clock, clock + 1}
  BY ClockMoves
<1>3. clock' \in Nat /\ Held \subseteq Held' /\ \A t \in Held : Verifies(t)' => Verifies(t)
  BY <1>2, TimePasses
<1>4. ASSUME Contents' = Contents, UNCHANGED <<todo, victim, tpc, revoked, lost, unmarked>>
      PROVE  Goal'
  BY <1>0, <1>1, <1>3, <1>4
<1>5. CASE \/ Tick \/ Destroy \/ UNCHANGED vars
           \/ \E c \in Clients : Verify(c) \/ \E t \in Tokens : Find(c, t)
  <2>1. UNCHANGED <<listVars, todo, victim, tpc, revoked, lost>>
    BY <1>5 DEF Tick, Destroy, Verify, Find, vars, authVars, threadVars
  <2>. QED  BY <1>4, <2>1 DEF listVars, Contents
<1>6. CASE ThreadTop
  BY <1>0, <1>1, <1>3, <1>6 DEF ThreadTop, listVars, Contents
<1>7. CASE ThreadWakes
  BY <1>0, <1>1, <1>3, <1>7 DEF ThreadWakes, listVars, Contents
<1>8. ASSUME NEW t \in Tokens, PruneCheck(t) PROVE Goal'
  BY <1>0, <1>1, <1>3, <1>8 DEF PruneCheck, listVars, Contents, Verifies
<1>9. CASE PruneErase
  <2>1. victim \in Tokens
    BY <1>9, AuthAssumption DEF PruneErase, Held
  <2>2. /\ Contents' \subseteq Contents /\ Contents \ {victim} \subseteq Contents'
        /\ unmarked' \subseteq unmarked \union {victim}
    BY <1>9, <2>1, RemoveContents DEF PruneErase
  <2>3. UNCHANGED <<todo, revoked, lost>> /\ tpc' = "prune" /\ ~Verifies(victim) /\ victim \in Held
    BY <1>9 DEF PruneErase
  <2>4. KeptWhileValid'
    BY <1>0, <1>1, <1>3, <2>2, <2>3
  <2>. QED  BY <1>3, <2>2, <2>3, <2>4
<1>10. CASE ThreadCompacts
  <2>1. Contents' = Contents /\ unmarked' = unmarked
    BY <1>10, CompactContents DEF ThreadCompacts
  <2>. QED  BY <1>0, <1>1, <1>3, <1>10, <2>1 DEF ThreadCompacts
<1>11. CASE Construct
  BY <1>0, <1>1, <1>3, <1>11, StartContents DEF Construct
<1>12. ASSUME NEW t \in Tokens, Logout(t) PROVE Goal'
  <2>1. /\ Contents \subseteq Contents' /\ Contents' \subseteq Contents \union {t}
        /\ t \in cache' => t \in Contents'
        /\ unmarked' = unmarked
    BY <1>12, AddContents DEF Logout
  <2>. QED  BY <1>0, <1>1, <1>3, <1>12, <2>1 DEF Logout, threadVars
<1>13. CASE DestroyReturns
  <2>1. /\ Contents' \subseteq Contents \union unmarked /\ unmarked' = unmarked
        /\ ~lost' => ~lost /\ Contents \subseteq Contents'
    BY <1>13, CrashContents DEF DestroyReturns
  <2>. QED  BY <1>0, <1>1, <1>3, <1>13, <2>1 DEF DestroyReturns, threadVars
<1>14. CASE ProcessDies
  <2>1. /\ Contents' \subseteq Contents \union unmarked /\ unmarked' = unmarked
        /\ ~lost' => ~lost /\ Contents \subseteq Contents'
    BY <1>14, CrashContents DEF ProcessDies
  <2>. QED  BY <1>0, <1>1, <1>3, <1>14, <2>1 DEF ProcessDies
<1>. QED
  BY <1>5, <1>6, <1>7, <1>8, <1>9, <1>10, <1>11, <1>12, <1>13, <1>14 DEF AuthNext, ThreadStep

LEMMA KeptUnlessLostStep == KeptUnlessLost /\ [AuthNext]_vars => KeptUnlessLost'
<1> SUFFICES ASSUME KeptUnlessLost, [AuthNext]_vars PROVE KeptUnlessLost'
  OBVIOUS
<1> USE DEF KeptUnlessLost
<1>1. clock' \in Nat
  BY ClockMoves
<1>2. (lost => lost') /\ (unread' => lost')
  BY LostStays
<1>3. ASSUME ~lost' PROVE Kept'
  <2>1. ~unread' /\ Kept
    BY <1>2, <1>3
  <2>2. ListInvariant'
    BY <2>1, ListMoves, ListInvariantStep DEF Kept
  <2>. QED  BY <1>3, <2>1, <2>2, KeptStep DEF Kept
<1>. QED  BY <1>1, <1>2, <1>3

LEMMA KeptHolds == AuthSpec => []KeptUnlessLost
<1>1. AuthInit => KeptUnlessLost
  <2> SUFFICES ASSUME AuthInit PROVE KeptUnlessLost
    OBVIOUS
  <2>1. Contents = {} /\ ListInvariant
    BY EmptySeq, ListInvariantInit DEF AuthInit, Init, Contents, LiveTokens
  <2>2. ListOfHeld
    BY <2>1 DEF AuthInit, Init, ListOfHeld
  <2>. QED  BY <2>1, <2>2 DEF AuthInit, Init, Kept, KeptWhileValid, KeptUnlessLost
<1>. QED  BY <1>1, KeptUnlessLostStep, PTL DEF AuthSpec

(* A revoked token stays on the list until it can no longer be accepted,      *)
(* before a restart and after.                                                *)
THEOREM RevokedIsKept == AuthSpec => []KeptWhileValid
<1>1. KeptUnlessLost => KeptWhileValid
  BY DEF KeptUnlessLost, Kept, KeptWhileValid
<1>. QED  BY <1>1, KeptHolds, PTL

-----------------------------------------------------------------------------
(* A client that is between the two halves of a check that began after the    *)
(* logout holds a token that does not verify.                                 *)
Checks ==
  /\ DOMAIN cpc = Clients /\ DOMAIN ctok = Clients
  /\ DOMAIN answer = Clients /\ DOMAIN late = Clients
  /\ \A c \in Clients :
       (late[c] /\ cpc[c] = "verify") => lost \/ (ctok[c] \in Held /\ ~Verifies(ctok[c]))
  /\ RevokedRejected

LEMMA ChecksStep == ASSUME KeptUnlessLost, Checks, [AuthNext]_vars PROVE Checks'
<1> USE DEF Checks
<1>1. clock \in Nat /\ clock' \in {clock, clock + 1}
  BY ClockMoves DEF KeptUnlessLost
<1>2. Held \subseteq Held' /\ \A t \in Held : Verifies(t)' => Verifies(t)
  BY <1>1, TimePasses
<1>3. ASSUME NEW c \in Clients, NEW t \in Tokens, Find(c, t) PROVE Checks'
  <2>1. t \in Held /\ stage = "idle"
    BY <1>3 DEF Find
  <2>2. (t \in revoked /\ t \notin cache) => lost \/ ~Verifies(t)
    BY <2>1 DEF KeptUnlessLost, Kept, KeptWhileValid
  <2>3. UNCHANGED <<clock, lost>>
    BY <1>3 DEF Find
  <2>4. \A d \in Clients \ {c} : UNCHANGED <<cpc[d], ctok[d], answer[d], late[d]>>
    BY <1>3 DEF Find
  <2>5. late'[c] = (t \in revoked)
    BY <1>3 DEF Find
  <2>6. CASE t \in cache
    <3>1. ~answer'[c] /\ UNCHANGED <<cpc, ctok>> /\ cpc[c] = "idle"
      BY <1>3, <2>6 DEF Find
    <3>2. RevokedRejected'
      BY <2>3, <2>4, <3>1 DEF RevokedRejected
    <3>3. DOMAIN answer' = Clients /\ DOMAIN late' = Clients
      BY <1>3, <2>6 DEF Find
    <3>4. \A d \in Clients : (late'[d] /\ cpc'[d] = "verify") =>
            (lost \/ (ctok[d] \in Held /\ ~Verifies(ctok[d])))'
      BY <1>2, <2>3, <2>4, <3>1
    <3>. QED  BY <3>1, <3>2, <3>3, <3>4
  <2>7. CASE t \notin cache
    <3>1. cpc'[c] = "verify" /\ ctok'[c] = t
      BY <1>3, <2>7 DEF Find
    <3>2. RevokedRejected'
      BY <2>3, <2>4, <3>1 DEF RevokedRejected
    <3>3. /\ DOMAIN cpc' = Clients /\ DOMAIN ctok' = Clients
          /\ DOMAIN answer' = Clients /\ DOMAIN late' = Clients
      BY <1>3, <2>7 DEF Find
    <3>4. late'[c] => (lost \/ (ctok[c] \in Held /\ ~Verifies(ctok[c])))'
      BY <1>2, <2>1, <2>2, <2>3, <2>5, <2>7, <3>1
    <3>5. \A d \in Clients \ {c} : (late'[d] /\ cpc'[d] = "verify") =>
            (lost \/ (ctok[d] \in Held /\ ~Verifies(ctok[d])))'
      BY <1>2, <2>3, <2>4
    <3>. QED  BY <3>2, <3>3, <3>4, <3>5
  <2>. QED  BY <2>6, <2>7
<1>4. ASSUME NEW c \in Clients, Verify(c) PROVE Checks'
  BY <1>4 DEF Verify, RevokedRejected, Held, Verifies
<1>5. CASE ProcessDies
  BY <1>5 DEF ProcessDies, RevokedRejected
<1>6. ASSUME UNCHANGED clientVars, lost => lost' PROVE Checks'
  BY <1>2, <1>6 DEF clientVars, RevokedRejected
<1>7. CASE \/ Tick \/ Destroy \/ DestroyReturns \/ Construct \/ ThreadStep
           \/ UNCHANGED vars \/ \E t \in Tokens : Logout(t)
  <2>1. UNCHANGED clientVars
    <3>1. CASE ThreadStep
      BY <3>1 DEF ThreadStep, ThreadTop, ThreadWakes, PruneErase, ThreadCompacts, PruneCheck
    <3>2. CASE Tick \/ Destroy \/ Construct \/ DestroyReturns \/ \E t \in Tokens : Logout(t)
      BY <3>2 DEF Tick, Destroy, Construct, DestroyReturns, Logout
    <3>3. CASE UNCHANGED vars
      BY <3>3 DEF vars, authVars
    <3>. QED  BY <1>7, <3>1, <3>2, <3>3
  <2>. QED  BY <1>6, <2>1, LostStays
<1>. QED  BY <1>3, <1>4, <1>5, <1>7 DEF AuthNext

(* A check that begins after removeAuthentication has put the token on the    *)
(* list never answers yes, unless a crash or a start has lost the list since. *)
THEOREM RevokedIsRejected == AuthSpec => []RevokedRejected
<1>1. AuthInit => Checks
  BY DEF AuthInit, Checks, RevokedRejected
<1>2. KeptUnlessLost /\ Checks /\ [AuthNext]_vars => Checks'
  BY ChecksStep
<1>3. Checks => RevokedRejected
  BY DEF Checks
<1>. QED  BY <1>1, <1>2, <1>3, KeptHolds, PTL DEF AuthSpec
=============================================================================
