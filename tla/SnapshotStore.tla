--------------------------- MODULE SnapshotStore ---------------------------
(***************************************************************************)
(* internal/store/history.go: the last HistorySize snapshots of each       *)
(* device. Every operation holds the lock for all it does, so each is one  *)
(* step or one read of a state. A snapshot is a member of any set.         *)
(***************************************************************************)
EXTENDS Integers, Sequences

CONSTANTS HistorySize   \* history_size of the config file

\* NewHistory: a capacity below one means one.
capacity == IF HistorySize < 1 THEN 1 ELSE HistorySize

ASSUME StoreAssumption == HistorySize \in Int

VARIABLE byDevice   \* the map: its domain are the devices with an entry

StoreInit == byDevice = << >>

Entries(d) == IF d \in DOMAIN byDevice THEN byDevice[d] ELSE << >>

\* Seeded faults: nothing is evicted; the newest is evicted.
NewestUntrimmed(s) == s
NewestAtFront(s) ==
    IF Len(s) > capacity THEN SubSeq(s, 1, capacity) ELSE s

\* The newest `capacity` of s, oldest first.
Newest(s) ==
    IF Len(s) > capacity THEN SubSeq(s, Len(s) - capacity + 1, Len(s)) ELSE s

Add(d, snap) ==
    byDevice' = [x \in DOMAIN byDevice \cup {d} |->
                    IF x = d THEN Newest(Append(Entries(d), snap))
                             ELSE byDevice[x]]

\* History.Devices, and the two results of Latest.
Listed == DOMAIN byDevice
HasTwo(d) == Len(Entries(d)) > 1   \* seeded fault: off by one
HasLatest(d) == Entries(d) # << >>
Latest(d) == Entries(d)[Len(Entries(d))]

\* History.All
All(d) == Entries(d)
============================================================================
