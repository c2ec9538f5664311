---------------------------- MODULE CachedFileList ----------------------------
(* The list of strings of src/authentication/CachedFileList.h: a cache in     *)
(* memory and a file with one string per line, in which a removed line is     *)
(* marked by a first character '\v'.  Every operation holds the shared_mutex  *)
(* for its whole body; all but compactFile are one action.  compactFile is    *)
(* one action per line and per system call, because the process may die       *)
(* between any two of them.                                                   *)
EXTENDS Naturals, Sequences

CONSTANTS
  Tokens,    \* strings given to add and remove: no line break, not empty
  Faults,    \* what the disk may refuse, for a reason that comes and goes
  MaxLines   \* bound on the lines of the file

ASSUME ListAssumption ==
  /\ MaxLines \in Nat
  /\ Faults \subseteq {"open", "read", "write", "unlink", "rename"}

VARIABLES
  cache,     \* the keys of the unordered_map
  file,      \* the lines of filename, <<>> when there is no such file
  exists,    \* filename exists
  temp,      \* the lines of filename + ".temp"
  stage,     \* "down", "idle" (mutex free), or where compactFile is
  next,      \* the line compactFile reads next
  tempOk,    \* the ofstream of the temporary file has not failed
  torn,      \* the file ends in a piece of a line, without its line break
  damaged,   \* history: since start a failed read, write or rename has cost
             \* the file a line
  unread,    \* history: a start has not read the file, or not to its end
  unmarked   \* history: strings removed from the cache, but not marked on disk

fileVars == <<file, exists, torn>>
compactVars == <<temp, stage, next, tempOk>>
listVars == <<cache, fileVars, compactVars, damaged, unread, unmarked>>

Stages == {"down", "idle", "copy", "rename"}

Lines == [tok : Tokens, live : BOOLEAN]
LiveLine(t) == [tok |-> t, live |-> TRUE]

LiveTokens(f) == {t \in Tokens : \E n \in 1..Len(f) : f[n] = LiveLine(t)}

(* The first line equal to t, which is a live one: a dead line starts with    *)
(* another character.                                                         *)
IsFirst(f, t, n) ==
  f[n] = LiveLine(t) /\ \A m \in 1..(n - 1) : f[m] # LiveLine(t)

Mark(f, t) ==
  [n \in 1..Len(f) |->
    IF IsFirst(f, t, n) THEN [tok |-> t, live |-> FALSE] ELSE f[n]]

(* A machine on which the list was never used.  The files an earlier process  *)
(* leaves are those of the states after a Crash.                              *)
Init ==
  /\ cache = {} /\ stage = "down"
  /\ file = <<>> /\ exists = FALSE /\ torn = FALSE /\ temp = <<>>
  /\ next = 1 /\ tempOk = TRUE
  /\ damaged = FALSE /\ unread = FALSE /\ unmarked = {}

(* The constructor: populateCacheFromFile.  A file that does not open is      *)
(* taken for none, and one that cannot be read to its end for a shorter one.  *)
Start ==
  /\ stage = "down" /\ stage' = "idle"
  /\ \/ cache' = LiveTokens(file) /\ UNCHANGED unread
     \/ "open" \in Faults /\ exists /\ cache' = {} /\ unread' = TRUE
     \/ /\ "read" \in Faults /\ exists
        /\ cache' \in SUBSET LiveTokens(file) /\ unread' = TRUE
  /\ UNCHANGED <<fileVars, temp, next, tempOk, damaged, unmarked>>

-----------------------------------------------------------------------------
(* add: nothing when it is cached, nothing when the file does not open; else  *)
(* the line is appended and cached, whether the write succeeds or not.  What  *)
(* a failing write leaves is a piece of a line or nothing; the next line is   *)
(* joined to the piece.  Neither the piece nor the joined line is a string of *)
(* Tokens.                                                                    *)
AddMutantCacheFirst(t) ==
  /\ stage = "idle" /\ t \notin cache
  /\ cache' = cache \union {t}
  /\ \/ "open" \in Faults /\ UNCHANGED <<file, exists>>
     \/ Len(file) < MaxLines /\ exists' = TRUE /\ file' = Append(file, LiveLine(t))
  /\ UNCHANGED <<torn, compactVars, damaged, unread, unmarked>>

Add(t) ==
  /\ stage = "idle"
  /\ \/ (t \in cache \/ "open" \in Faults) /\ UNCHANGED listVars
     \/ /\ t \notin cache /\ Len(file) < MaxLines
        /\ exists' = TRUE /\ cache' = cache \union {t}
        /\ \/ /\ ~torn
              /\ file' = Append(file, LiveLine(t)) /\ UNCHANGED <<torn, damaged>>
           \/ /\ torn
              /\ torn' = FALSE /\ damaged' = TRUE /\ UNCHANGED file
           \/ /\ "write" \in Faults
              /\ torn' \in {torn, TRUE} /\ damaged' = TRUE /\ UNCHANGED file
        /\ UNCHANGED <<compactVars, unread, unmarked>>

(* remove: nothing when it is not cached or the file does not open; else its  *)
(* first line, if there is one, is marked and the cache forgets it, also when *)
(* the search for the line or the put of the mark has failed.                 *)
RemoveMutantEraseFirst(t) ==
  /\ stage = "idle" /\ t \in cache
  /\ cache' = cache \ {t}
  /\ file' = IF exists /\ "open" \notin Faults THEN Mark(file, t) ELSE file
  /\ UNCHANGED <<exists, torn, compactVars, damaged, unread, unmarked>>

Remove(t) ==
  /\ stage = "idle"
  /\ \/ (t \notin cache \/ ~exists \/ "open" \in Faults) /\ UNCHANGED listVars
     \/ /\ t \in cache /\ exists
        /\ cache' = cache \ {t}
        /\ \/ file' = Mark(file, t) /\ UNCHANGED unmarked
           \/ /\ "read" \in Faults \/ "write" \in Faults
              /\ unmarked' = unmarked \union {t} /\ UNCHANGED file
        /\ UNCHANGED <<exists, torn, compactVars, damaged, unread>>

-----------------------------------------------------------------------------
(* compactFile opens both files, truncating the temporary one; it returns     *)
(* when either does not open.                                                 *)
CompactBegin ==
  /\ stage = "idle"
  /\ \/ (~exists \/ "open" \in Faults) /\ UNCHANGED listVars
     \/ /\ exists
        /\ stage' = "copy" /\ next' = 1 /\ temp' = <<>> /\ tempOk' = TRUE
        /\ UNCHANGED <<cache, fileVars, damaged, unread, unmarked>>

(* One turn of its loop.  A stream that has failed to write once writes no    *)
(* more; a read that fails ends the loop.                                     *)
CompactLine ==
  /\ stage = "copy" /\ next <= Len(file)
  /\ \/ /\ temp' = IF file[next].live /\ tempOk THEN Append(temp, file[next]) ELSE temp
        /\ next' = next + 1 /\ UNCHANGED <<tempOk, damaged>>
     \/ /\ "write" \in Faults /\ file[next].live
        /\ next' = next + 1 /\ tempOk' = FALSE /\ damaged' = TRUE /\ UNCHANGED temp
     \/ /\ "read" \in Faults
        /\ next' = Len(file) + 1 /\ damaged' = TRUE /\ UNCHANGED <<temp, tempOk>>
  /\ UNCHANGED <<cache, fileVars, stage, unread, unmarked>>

(* std::remove(filename), its result ignored.                                 *)
CompactUnlinkMutantEarly ==
  /\ stage = "copy"
  /\ stage' = "rename"
  /\ exists' = FALSE /\ file' = <<>> /\ torn' = FALSE
  /\ UNCHANGED <<cache, temp, next, tempOk, damaged, unread, unmarked>>

CompactUnlink ==
  /\ stage = "copy" /\ next > Len(file)
  /\ stage' = "rename"
  /\ \/ exists' = FALSE /\ file' = <<>> /\ torn' = FALSE
     \/ "unlink" \in Faults /\ UNCHANGED fileVars
  /\ UNCHANGED <<cache, temp, next, tempOk, damaged, unread, unmarked>>

(* std::rename(filename + ".temp", filename), its result ignored.  A          *)
(* temporary file that a write has failed on may end in a piece of a line.    *)
CompactRename ==
  /\ stage = "rename"
  /\ stage' = "idle"
  /\ \/ /\ exists' = TRUE /\ file' = temp /\ torn' \in {FALSE, ~tempOk}
        /\ temp' = <<>> /\ UNCHANGED damaged
     \/ "rename" \in Faults /\ damaged' = TRUE /\ UNCHANGED <<fileVars, temp>>
  /\ next' = 1 /\ tempOk' = TRUE
  /\ UNCHANGED <<cache, unread, unmarked>>

(* The process dies: the memory goes, the files stay.                         *)
Crash ==
  /\ stage # "down"
  /\ stage' = "down" /\ cache' = {}
  /\ next' = 1 /\ tempOk' = TRUE /\ damaged' = FALSE
  /\ UNCHANGED <<fileVars, temp, unread, unmarked>>

-----------------------------------------------------------------------------
Next ==
  \/ Start \/ Crash
  \/ \E t \in Tokens : Add(t) \/ Remove(t)
  \/ CompactBegin \/ CompactLine \/ CompactUnlink \/ CompactRename

Spec == Init /\ [][Next]_listVars
-----------------------------------------------------------------------------
(* Three things put the cache and the file apart for good, and the properties *)
(* say so.  A file that is not read when the list is made is taken for an     *)
(* empty or a shorter one, and what is added from then on may be in it twice, *)
(* of which remove marks one (unread).  A string whose mark fails stays on    *)
(* the disk, and may come to be there twice (unmarked); it touches no other.  *)
(* Whether a line was lost (damaged) matters until the next start.            *)
Clean(S) == S \ unmarked

(* Whenever the mutex is free, the cache that find and getAll read is what a  *)
(* restart would read from the file, for each string whose removal was always *)
(* marked, unless a line has been lost: files that do not open later, and     *)
(* crashes anywhere, do not separate them.                                    *)
Agreement ==
  (stage = "idle" /\ ~damaged /\ ~unread) => Clean(cache) = Clean(LiveTokens(file))

(* A restart brings back no string that the running process has removed, save *)
(* one whose mark in the file failed: neither a line lost by add or by a      *)
(* compaction, nor a failed unlink or rename, does it.                        *)
NoResurrection ==
  (stage # "down" /\ ~unread) => LiveTokens(file) \subseteq cache \union unmarked

(* compactFile has every string of the list on the disk at every moment, in   *)
(* the file or in the temporary one: where a crash does lose the list, it is  *)
(* because no start ever reads the temporary file.                            *)
Recoverable ==
  (stage \in {"copy", "rename"} /\ ~damaged /\ ~unread) =>
    Clean(cache) = Clean(IF exists THEN LiveTokens(file) ELSE LiveTokens(temp))
-----------------------------------------------------------------------------
Durable == INSTANCE DurableSet WITH
  Elements <- Tokens,
  members <- Clean(IF stage = "down" THEN LiveTokens(file) ELSE cache),
  up <- stage # "down",
  compacting <- stage \in {"copy", "rename"}

(* The list, without the strings whose mark has failed, is a set that a crash *)
(* does not change, save that one inside a compaction may empty it, while no  *)
(* line is lost and every start reads the file.                               *)
DurableSpec ==
  Durable!Init /\ [][damaged \/ unread' \/ Durable!Next]_<<Durable!setVars>>
=============================================================================
