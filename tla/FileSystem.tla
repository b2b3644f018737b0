----------------------------- MODULE FileSystem -----------------------------
(***************************************************************************)
(* Reading a file by name (b32_filesystem.cpp) the way execv and the boot  *)
(* loader do it: stat for the size of the buffer, then fs_read to fill it. *)
(* Both walk the FAT32 volume through the disk driver, and both ignore the *)
(* error it returns: what follows works on a buffer that was not filled.   *)
(*                                                                         *)
(* One step is one sector read and what the code does with the sector up   *)
(* to its next read.  A character, a byte of a file and a cluster number   *)
(* are themselves; the layout of the structures on disk is left out.       *)
(***************************************************************************)
EXTENDS Disk, Sequences, Functions

CONSTANTS
    SECTOR,       \* bytes of a sector, 512
    FAT_ENTRIES,  \* entries of a FAT sector, 128
    DIR_SLOTS,    \* entries of a directory sector, 16
    LFN_CHARS,    \* characters of a long name entry, 13
    NAME_SIZE,    \* longest name and its end, MAX_FILENAME_SIZE
    ORDERS,       \* values of the bits kept of a long name entry's order, 16
    Characters,   \* what names are made of
    NUL, Junk,    \* the end of a string; any other byte
    EOC,          \* the end of a cluster chain
    Volumes,      \* volumes on the disk, see below
    Paths,        \* paths asked for, without mount point, as lists of names
    MAX_ERRORS    \* bound: reads that fail

(* What memory holds that nobody wrote, and what is read from a sector     *)
(* that is not what the code takes it for.                                 *)
CONSTANTS
    Garbage,        \* contents of the uninitialised abstract_entry.name
    Behind,         \* names that follow a / behind the path in memory
    OtherEntries,   \* directory entries, of any other sector
    StaleGeometry,  \* geometries, of any other sector than the PBR
    StaleNumbers    \* an LBA or a cluster number

(* A volume is [hidden, reserved, fats, per_cluster, root, dirs]: where    *)
(* the partition begins, the sectors before the FAT, those of the FAT,     *)
(* those of a cluster, the root directory's cluster, and for each          *)
(* directory's cluster its items, of which long says if the item has long  *)
(* name entries.                                                           *)
Item == [name : Seq(Characters), long : BOOLEAN, dir : BOOLEAN,
         clusters : Seq(Nat), size : Nat]
Name == { name \in Seq(Characters) : Len(name) \in 1 .. NAME_SIZE - 1 }

LongEntry == [lfn : {TRUE}, order : Nat, chars : Seq(Characters \cup {NUL})]
OwnEntry == [lfn : {FALSE}, dir : BOOLEAN, size : Nat, cluster : Nat]

ASSUME FileSystemConstants ==
    /\ {SECTOR, FAT_ENTRIES, DIR_SLOTS, LFN_CHARS} \subseteq Nat \ {0}
    /\ NAME_SIZE \in Nat \ {0, 1} /\ EOC \in Nat /\ MAX_ERRORS \in Nat
    /\ NUL # Junk /\ NUL \notin Characters /\ Junk \notin Characters
    /\ ORDERS \in Nat /\ DIR_SLOTS <= ORDERS
    /\ \A v \in Volumes :
         /\ v.hidden \in 1 .. LBA_LOW - 1
         /\ {v.reserved, v.fats, v.per_cluster} \subseteq Nat \ {0}
         /\ v.root \in DOMAIN v.dirs /\ DOMAIN v.dirs \subseteq Nat \ {0, 1}
         /\ \A d \in DOMAIN v.dirs : v.dirs[d] \in Seq(Item)
    /\ Paths \subseteq Seq(Name) \ {<<>>}

ASSUME StaleConstants ==
    /\ Garbage \subseteq [0 .. NAME_SIZE - 1 -> Characters \cup {NUL, Junk}]
    /\ \A name \in Behind : name \in Seq(Characters \cup {Junk})
                            /\ Len(name) < NAME_SIZE
    /\ OtherEntries \subseteq Seq(LongEntry \cup OwnEntry)
    /\ StaleGeometry \subseteq [hidden : Nat, reserved : Nat, fats : Nat,
                               per_cluster : Nat, bytes : Nat]
    /\ StaleNumbers \subseteq Nat

(* In a directory no name occurs twice, names fit into the buffer that     *)
(* they are put together in, and a directory has a cluster.                *)
ASSUME VolumesSound ==
    \A v \in Volumes : \A d \in DOMAIN v.dirs : \A i \in DOMAIN v.dirs[d] :
      /\ v.dirs[d][i].name \in Name
      /\ \A j \in DOMAIN v.dirs[d] : v.dirs[d][j].name = v.dirs[d][i].name => i = j
      /\ v.dirs[d][i].dir =>
           v.dirs[d][i].clusters # <<>> /\ v.dirs[d][i].clusters[1] \in DOMAIN v.dirs

VARIABLES
    volume,       \* the volume, which never changes
    path,         \* the path asked for
    pc,           \* the read that comes next, or how it ended
    call,         \* who called: "stat", "find" and "load" are the parts of
                  \*   stat, of fat32_read's get_dir_entry and of its loop
    lba,          \* mbr.lba
    pbr,          \* the geometry the code works with
    rest,         \* filename in locate_file_dirent
    cluster,      \* the cluster number it, or fat32_read, works with
    bytes_to_read,
    st_size,      \* what stat returned
    dest,         \* what fs_read wrote to its buffer
    offset,       \* where in it dest_buffer points
    errors        \* reads that failed and were taken for good

fs_vars == <<volume, path, pc, call, lba, pbr, rest, cluster, bytes_to_read,
             st_size, dest, offset, errors>>
vars == <<disk_vars, fs_vars>>

-----------------------------------------------------------------------------
(* The volume as mkfs and mtools write it.                                 *)

Min2(a, b) == IF a < b THEN a ELSE b
CeilDiv(a, b) == (a + b - 1) \div b

Geometry(v) == [hidden |-> v.hidden, reserved |-> v.reserved,
                fats |-> v.fats, per_cluster |-> v.per_cluster, bytes |-> SECTOR]

(* Clusters are counted from 2. *)
SectorOfCluster(v, c) == v.hidden + v.reserved + v.fats + (c - 2) * v.per_cluster

Items(v) == UNION { Range(v.dirs[d]) : d \in DOMAIN v.dirs }

(* Clusters have a power of two of sectors, at most 128. *)
ASSUME ClustersAligned == \A v \in Volumes : LBA_LOW % v.per_cluster = 0

(* The FAT has an entry for every cluster of a file, and one only; a file  *)
(* has as many clusters as its bytes take.                                 *)
ASSUME ChainsSound ==
    \A v \in Volumes : \A item \in Items(v) :
      /\ Range(item.clusters) \subseteq 2 .. (v.fats * FAT_ENTRIES) - 1
      /\ item.dir \/ item.size <= Len(item.clusters) * v.per_cluster * SECTOR
      /\ \A other \in Items(v) :
           \A i \in 1 .. Len(item.clusters) - 1, j \in 1 .. Len(other.clusters) - 1 :
             item.clusters[i] = other.clusters[j] =>
               item.clusters[i + 1] = other.clusters[j + 1]

(* The long name entries of a name, last part first; only a name that does *)
(* not fill its last entry is terminated.                                  *)
LongEntries(name) ==
    LET n == CeilDiv(Len(name), LFN_CHARS)
        whole == IF Len(name) % LFN_CHARS = 0 THEN name ELSE Append(name, NUL)
    IN  [k \in 1 .. n |->
           [lfn |-> TRUE, order |-> n - k + 1,
            chars |-> SubSeq(whole, (n - k) * LFN_CHARS + 1,
                             Min2(Len(whole), (n - k + 1) * LFN_CHARS))]]

ItemEntries(item) ==
    (IF item.long THEN LongEntries(item.name) ELSE <<>>)
      \o << [lfn |-> FALSE, dir |-> item.dir, size |-> item.size,
             cluster |-> IF item.clusters = <<>> THEN 0 ELSE item.clusters[1]] >>

(* The entries of a directory's first items, in their order; and of all. *)
EntriesUpTo(items) ==
    LET upTo[n \in 0 .. Len(items)] ==
          IF n = 0 THEN <<>> ELSE upTo[n - 1] \o ItemEntries(items[n])
    IN  upTo

Entries(items) == EntriesUpTo(items)[Len(items)]

Next_cluster(v, c) ==
    LET after == UNION { { item.clusters[i + 1] : i \in
                             { i \in 1 .. Len(item.clusters) - 1 :
                                 item.clusters[i] = c } } : item \in Items(v) }
    IN  IF after = {} THEN EOC ELSE CHOOSE n \in after : TRUE

LastSector(v) == SectorOfCluster(v, v.fats * FAT_ENTRIES)

Unused == [lfn |-> FALSE, dir |-> FALSE, size |-> 0, cluster |-> 0]

(* The slots of a directory's first sector that can be the first to match. *)
(* The code looks at unused ones too, with the name it has put together by *)
(* then: that name was compared before unless the directory is empty.      *)
FirstSlots(es) ==
    IF es = <<>> THEN <<Unused>> ELSE SubSeq(es, 1, Min2(Len(es), DIR_SLOTS))

(* What is on a sector: a directory's first sector holds DIR_SLOTS of its  *)
(* entries, a file's sectors its bytes, which are told apart by place.     *)
DiskSector(v, s) ==
    LET dirs == { d \in DOMAIN v.dirs : SectorOfCluster(v, d) = s }
        es == Entries(v.dirs[CHOOSE d \in dirs : TRUE])
    IN  CASE s = 0 -> [kind |-> "mbr", lba |-> v.hidden]
          [] s = v.hidden -> [kind |-> "pbr", pbr |-> Geometry(v)]
          [] s \in v.hidden + v.reserved .. v.hidden + v.reserved + v.fats - 1 ->
               [kind |-> "fat", fat |->
                  [i \in 0 .. FAT_ENTRIES - 1 |->
                     Next_cluster(v, (s - v.hidden - v.reserved) * FAT_ENTRIES + i)]]
          [] dirs # {} ->
               [kind |-> "dir", entries |-> FirstSlots(es)]
          [] OTHER -> [kind |-> "data"]

DiskOf == [v \in Volumes |-> [s \in 0 .. LastSector(v) |-> DiskSector(v, s)]]
Disk == DiskOf[volume]

SectorBytes(s) == [i \in 1 .. SECTOR |-> <<s, i>>]

-----------------------------------------------------------------------------
Locations == { "mbr", "pbr",   \* load_PBR
               "dir",          \* locate_file_dirent
               "data", "fat",  \* fat32_read: read_cluster, next_cluster
               "done",         \* fs_read returned 0
               "panic",        \* "File not found"
               "corrupt",      \* a write outside of an array on the stack
               "polling" }     \* the drive never answers

(* read_cluster: the first sector of a cluster. *)
ClusterSector(c) == (c - 2) * pbr.per_cluster + pbr.reserved + pbr.fats + pbr.hidden

FirstFatSector(c) == pbr.reserved + pbr.hidden   \* fault: one sector is enough

(* next_cluster: the sector of the FAT that holds the entry of a cluster. *)
FatSector(c) == pbr.reserved + (c \div FAT_ENTRIES) + pbr.hidden

(* The sector each read asks for. *)
Wanted ==
    CASE pc = "mbr" -> 0
      [] pc = "pbr" -> lba
      [] pc \in {"dir", "data"} -> ClusterSector(cluster)
      [] pc = "fat" -> FatSector(cluster)

Init ==
    /\ DiskInit
    /\ volume \in Volumes /\ path \in Paths
    /\ pc = "mbr" /\ call = "stat"
    /\ lba = 0 /\ pbr = Geometry(volume) /\ rest = path /\ cluster = 2
    /\ bytes_to_read = 0 /\ st_size = 0 /\ dest = <<>> /\ offset = 0
    /\ errors = 0

(* The content a read leaves in the buffer: the sector the drive was made  *)
(* to read, or, when it reports an error, what was there before, which may *)
(* be another sector read earlier.                                         *)
Stale == Range(Disk)

Reading == pc \in {"mbr", "pbr", "dir", "data", "fat"}

(* A read, which failed if it left the buffer as it was. *)
SectorRead(failed) ==
    /\ Reading /\ Answers
    /\ read_disk_sector(Wanted)
    /\ failed => errors < MAX_ERRORS \/ Addressed(Wanted) \notin DOMAIN Disk
    /\ errors' = IF failed THEN Min2(errors + 1, MAX_ERRORS) ELSE errors
    /\ UNCHANGED <<volume, path>>

(* load_PBR: bytes that are no boot sector give any numbers. *)
ReadMbr(content, failed) ==
    /\ pc = "mbr" /\ SectorRead(failed)
    /\ lba' \in IF content.kind = "mbr" THEN {content.lba} ELSE StaleNumbers
    /\ pc' = "pbr"
    /\ UNCHANGED <<call, pbr, rest, cluster, bytes_to_read, st_size, dest, offset>>

ReadPbr(content, failed) ==
    /\ pc = "pbr" /\ SectorRead(failed)
    /\ pbr' \in IF content.kind = "pbr" THEN {content.pbr} ELSE StaleGeometry
    /\ pc' = IF call # "load" THEN "dir"
             ELSE IF bytes_to_read = 0 THEN "done" ELSE "data"
    /\ UNCHANGED <<call, lba, rest, cluster, bytes_to_read, st_size, dest, offset>>

-----------------------------------------------------------------------------
(* locate_file_dirent.                                                     *)

(* lfn.order & 0xf *)
Order(entry) == entry.order % ORDERS

(* Fault: the name is cleared before each of its parts. *)
OverlayCleared(name, entry) ==
    [k \in 0 .. NAME_SIZE - 1 |->
       LET j == k - (Order(entry) - 1) * LFN_CHARS
       IN  IF j + 1 \in DOMAIN entry.chars THEN entry.chars[j + 1] ELSE NUL]

(* A long name entry's characters go to their place in the name; the rest  *)
(* of it keeps what it held.                                               *)
Overlay(name, entry) ==
    [k \in 0 .. NAME_SIZE - 1 |->
       LET j == k - (Order(entry) - 1) * LFN_CHARS
       IN  IF j + 1 \in DOMAIN entry.chars THEN entry.chars[j + 1] ELSE name[k]]

(* strcmp(part, name) == 0 *)
Equal(name, part) == /\ \A k \in 1 .. Len(part) : name[k - 1] = part[k]
                     /\ name[Len(part)] = NUL

(* abstract_entry.name after each entry.  It is neither initialised nor    *)
(* reset between entries.                                                  *)
Names(entries, garbage) ==
    LET name[i \in 0 .. Len(entries)] ==
          IF i = 0 THEN garbage
          ELSE IF entries[i].lfn THEN Overlay(name[i - 1], entries[i])
          ELSE name[i - 1]
    IN  name

(* The entries that match the current part of the path. *)
Matches(entries, garbage) ==
    LET name == Names(entries, garbage)
    IN  { i \in DOMAIN entries : ~entries[i].lfn /\ Equal(name[i], rest[1]) }

(* Order 0 puts the characters of an entry before the name.  The loop gets *)
(* as far as the first match.                                              *)
Overruns(entries, found) ==
    \E i \in DOMAIN entries : /\ entries[i].lfn /\ Order(entries[i]) = 0
                              /\ \A m \in found : i < m

FirstOf(S) == CHOOSE i \in S : \A j \in S : i <= j

(* The rest of the path after the current part.  With no / left in it,     *)
(* filename is not advanced, or behind a / that follows it in memory.      *)
RestsOf(p) == IF Len(p) > 1 THEN {Tail(p)} ELSE {p} \cup { <<name>> : name \in Behind }

(* get_dir_entry returned: stat is done and fs_read begins, or fat32_read  *)
(* loads the PBR again.                                                    *)
Located(entry) ==
    /\ pc' = "mbr"
    /\ \/ /\ call = "stat" /\ call' = "find"
          /\ st_size' = entry.size /\ rest' = path /\ cluster' = 2
          /\ UNCHANGED bytes_to_read
       \/ /\ call = "find" /\ call' = "load"
          /\ cluster' = entry.cluster /\ bytes_to_read' = entry.size
          /\ UNCHANGED <<st_size, rest>>

EntriesIn(content) == IF content.kind = "dir" THEN {content.entries} ELSE OtherEntries

ReadDir(entries, failed, garbage) ==
    LET found == Matches(entries, garbage)
        entry == entries[FirstOf(found)]
    IN  /\ pc = "dir" /\ SectorRead(failed)
        /\ \/ /\ found = {} /\ pc' = "panic"
              /\ UNCHANGED <<call, rest, cluster, bytes_to_read, st_size>>
           \/ /\ Overruns(entries, found) /\ pc' = "corrupt"
              /\ UNCHANGED <<call, rest, cluster, bytes_to_read, st_size>>
           \/ /\ found # {} /\ ~entry.dir
              /\ Located(entry)
           \/ /\ found # {} /\ entry.dir
              /\ rest' \in RestsOf(rest) /\ cluster' = entry.cluster
              /\ UNCHANGED <<pc, call, bytes_to_read, st_size>>
        /\ UNCHANGED <<lba, pbr, dest, offset>>

-----------------------------------------------------------------------------
(* The loop of fat32_read.                                                 *)

(* Fault: off by one. *)
CopiedTooMany == Min2(bytes_to_read + 1, SECTOR)

(* How many bytes go to the buffer: a sector, or from tmp what is left. *)
Copied == IF bytes_to_read < pbr.bytes THEN bytes_to_read ELSE SECTOR

(* The buffer when n bytes, of which a sector's were read, are put there. *)
Put(bytes, n) ==
    [i \in 1 .. (IF Len(dest) < offset + n THEN offset + n ELSE Len(dest)) |->
       IF i \in offset + 1 .. offset + n
       THEN IF i - offset <= SECTOR THEN bytes[i - offset] ELSE Junk
       ELSE IF i <= Len(dest) THEN dest[i] ELSE Junk]

(* read_cluster: one sector, at the head of the cluster.  A sector is put  *)
(* into tmp, of pbr.bytes, also when it does not fit.                      *)
ReadData(failed) ==
    LET bytes == IF failed THEN [i \in 1 .. SECTOR |-> Junk]
                           ELSE SectorBytes(Addressed(Wanted))
    IN  /\ pc = "data" /\ SectorRead(failed)
        /\ dest' = Put(bytes, Copied)
        /\ \/ /\ bytes_to_read < pbr.bytes
              /\ pc' \in {"done"} \cup (IF pbr.bytes < SECTOR THEN {"corrupt"} ELSE {})
              /\ offset' = offset
           \/ /\ bytes_to_read >= pbr.bytes
              /\ pc' = "fat"
              /\ offset' = offset + pbr.bytes
        /\ UNCHANGED <<call, lba, pbr, rest, cluster, bytes_to_read, st_size>>

(* next_cluster, also after the last sector of a file that fills it. *)
ReadFat(content, failed) ==
    /\ pc = "fat" /\ SectorRead(failed)
    /\ cluster' \in IF content.kind = "fat" THEN {content.fat[cluster % FAT_ENTRIES]}
                    ELSE StaleNumbers
    /\ bytes_to_read' = bytes_to_read - pbr.bytes
    /\ pc' = IF bytes_to_read' = 0 THEN "done" ELSE "data"
    /\ UNCHANGED <<call, lba, pbr, rest, st_size, dest, offset>>

(* while (data & 0x80) *)
Poll ==
    /\ Reading /\ ~Answers
    /\ read_disk_sector(Wanted)
    /\ pc' = "polling"
    /\ UNCHANGED <<volume, path, call, lba, pbr, rest, cluster, bytes_to_read,
                   st_size, dest, offset, errors>>

Read(content, failed) ==
    \/ ReadMbr(content, failed) \/ ReadPbr(content, failed)
    \/ \E entries \in EntriesIn(content), garbage \in Garbage :
         ReadDir(entries, failed, garbage)
    \/ ReadData(failed) \/ ReadFat(content, failed)

Good == /\ Reading /\ Addressed(Wanted) \in DOMAIN Disk
        /\ Read(Disk[Addressed(Wanted)], FALSE)

Failed == Reading /\ \E content \in Stale : Read(content, TRUE)

Ended == ~Reading /\ UNCHANGED vars

Next == Good \/ Failed \/ Poll \/ Ended

(* The driver's loops run, and a drive that is not absent answers. *)
Spec == Init /\ [][Next]_vars /\ WF_vars(Good \/ Failed \/ Poll)
-----------------------------------------------------------------------------
(* What the volume holds, to compare with.                                 *)

(* The items that the first names of a path lead to, one or none. *)
ResolvedUpTo ==
    LET at[i \in 0 .. Len(path)] ==
          IF i = 0 THEN {}
          ELSE LET dirs == IF i = 1 THEN {volume.root}
                           ELSE { item.clusters[1] : item \in
                                    { item \in at[i - 1] : item.dir } }
               IN  { item \in Items(volume) :
                       /\ item.name = path[i]
                       /\ \E d \in dirs : \E j \in DOMAIN volume.dirs[d] :
                            volume.dirs[d][j] = item }
    IN  at

Resolved(n) == ResolvedUpTo[n]

(* The file a path leads to: a path that goes on behind a file's name      *)
(* leads to that file.                                                     *)
FilesOn == { n \in DOMAIN path : \E item \in Resolved(n) : ~item.dir }
File == CHOOSE item \in Resolved(FirstOf(FilesOn)) : TRUE

FileSectors(item) ==
    [k \in 1 .. CeilDiv(item.size, SECTOR) |->
       SectorOfCluster(volume, item.clusters[(k - 1) \div volume.per_cluster + 1])
         + ((k - 1) % volume.per_cluster)]

FileBytes(item) ==
    [k \in 1 .. item.size |->
       <<FileSectors(item)[(k - 1) \div SECTOR + 1], ((k - 1) % SECTOR) + 1>>]

(* The slot of an item's own entry in its directory. *)
SlotOf(d, j) == Len(EntriesUpTo(volume.dirs[d])[j])

Terminated(item) == item.long /\ Len(item.name) % LFN_CHARS # 0

(* The characters behind the first n, and the end, are those of a name. *)
Completes(buffer, name, n) == /\ \A k \in n + 1 .. Len(name) : buffer[k - 1] = name[k]
                              /\ buffer[Len(name)] = NUL

(* Another item that may be taken for the one of that name: an item with a *)
(* short name only and no long name before it, compared with what the      *)
(* buffer happens to hold; or a name that fills its entries, completed by  *)
(* what a longer one left behind it or by what the buffer happens to hold. *)
Misread(d, i, name) ==
    LET items == volume.dirs[d]
        item == items[i]
        n == Len(item.name)
    IN  /\ item.name # name
        /\ \/ /\ \A h \in 1 .. i : ~items[h].long
              /\ \E garbage \in Garbage : Completes(garbage, name, 0)
           \/ /\ item.long /\ ~Terminated(item)
              /\ n < Len(name) /\ item.name = SubSeq(name, 1, n)
              /\ \/ \E h \in 1 .. i - 1 : items[h].long /\ Len(items[h].name) > n
                 \/ \E garbage \in Garbage : Completes(garbage, name, n)

(* The root directory is where the code looks for it, and no directory on  *)
(* the way to the file lies behind the first LBA_LOW sectors or has another*)
(* item that may be taken for the one looked for.                          *)
Unmistaken ==
    /\ volume.root = 2
    /\ \A n \in 1 .. FirstOf(FilesOn) : \A d \in DOMAIN volume.dirs :
         Range(volume.dirs[d]) \cap Resolved(n) # {} =>
           /\ SectorOfCluster(volume, d) < LBA_LOW
           /\ \A i \in DOMAIN volume.dirs[d] : ~Misread(d, i, path[n])

(* The names that locate_file_dirent can find: in the first sector of      *)
(* their directory, with long name entries, of which the last is not full. *)
Findable ==
    /\ Unmistaken
    /\ \A n \in 1 .. FirstOf(FilesOn) : \A item \in Resolved(n) :
         /\ Terminated(item)
         /\ \A d \in DOMAIN volume.dirs : \A j \in DOMAIN volume.dirs[d] :
              volume.dirs[d][j] = item => SlotOf(d, j) <= DIR_SLOTS

(* A volume with nothing to mistake for a name of the path. *)
Plain ==
    /\ volume.root = 2
    /\ \A d \in DOMAIN volume.dirs :
         /\ SectorOfCluster(volume, d) < LBA_LOW
         /\ volume.dirs[d] # <<>>
         /\ \A i \in DOMAIN volume.dirs[d], n \in DOMAIN path : ~Misread(d, i, path[n])

(* The files that fat32_read can read: one sector per cluster, or no more  *)
(* than one sector in all, and none behind the first LBA_LOW sectors.      *)
Readable(item) ==
    /\ volume.per_cluster = 1 \/ item.size <= SECTOR
    /\ \A k \in DOMAIN FileSectors(item) : FileSectors(item)[k] < LBA_LOW

NoErrors == errors = 0

(* A file is reported missing ("File not found", b32_filesystem.cpp:227)   *)
(* only when it is, or when its name is one that cannot be found; and on a *)
(* volume with nothing to mistake, whatever the stack and the memory behind*)
(* the path hold, a file is read only when the path leads to one, or to a  *)
(* directory, where a file of the path's last name, or of a name behind the*)
(* path, may be found instead.                                             *)
FoundIfThere ==
    NoErrors =>
      /\ pc = "panic" => FilesOn = {} \/ ~Findable
      /\ pc = "done" /\ Plain => FilesOn # {} \/ Resolved(Len(path)) # {}

(* Without disk errors the buffer holds the file, byte for byte, exactly   *)
(* when the volume has one sector per cluster (or the file one sector) and *)
(* the file lies where the drive register's stale high bits do not matter; *)
(* unless another item may be taken for the file or for a directory on the *)
(* way to it.                                                              *)
ReadExactly ==
    NoErrors /\ pc = "done" /\ FilesOn # {} /\ Unmistaken =>
      (dest = FileBytes(File) <=> Readable(File))

(* stat looks the file up to size the buffer, fs_read looks it up again,   *)
(* with other garbage on the stack, to fill it: without errors it never    *)
(* writes behind the buffer's end, and fills it when it is done, unless    *)
(* another item may be taken for the file in one of the lookups.           *)
FitsBuffer ==
    NoErrors /\ call = "load" /\ FilesOn # {} /\ Unmistaken =>
      Len(dest) <= st_size /\ (pc = "done" => Len(dest) = st_size)

(* "return 0 on success, others for error" (b32_filesystem.cpp:307).       *)
SuccessMeansRead ==
    pc = "done" /\ FilesOn # {} /\ Findable /\ Readable(File) =>
      dest = FileBytes(File)

(* Every lookup and every read ends, with the file, with a panic or with a *)
(* write outside of an array, also when errors send it to any cluster and  *)
(* leave any geometry: unless the controller cannot be made to answer (the *)
(* driver has no time-out, b32_disk.cpp:160-167), a failed read of the boot*)
(* sector left a sector size of 0, which fat32_read's loop counts down by  *)
(* (b32_filesystem.cpp:315-331), or locate_file_dirent, which does not end *)
(* with the path (b32_filesystem.cpp:164-172), finds directories for ever  *)
(* behind its last name.                                                   *)
ReadEnds ==
    prog_if # NATIVE =>
      \/ <>(pc \in {"done", "panic", "corrupt"})
      \/ <>[](pc = "dir" /\ Len(rest) = 1)
      \/ <>[](pc \in {"data", "fat"} /\ pbr.bytes = 0)
=============================================================================
