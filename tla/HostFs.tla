------------------------------- MODULE HostFs -------------------------------
(***************************************************************************)
(* File-backed descriptions (shims/files.rs), and the file system of the   *)
(* host as the shims use it.                                               *)
(*                                                                         *)
(* The host is a Unix system.  It has a few names, each of which may refer *)
(* to an inode: a file with its bytes, a directory or a symbolic link.  A  *)
(* byte is 1 when it was written and 0 in a hole.  A host call is an       *)
(* operator from a snapshot of the host to [err, host, ..].                *)
(***************************************************************************)
EXTENDS Integers, Sequences, FiniteSets, SequencesExt

CONSTANTS
    Path,           \* the names
    ParentOf,       \* name -> the directory it is in, "" at the top
    MaxInode,       \* bound: inodes 1 .. MaxInode
    MaxFile,        \* bound: descriptions 1 .. MaxFile
    MaxFdNum,       \* bound: descriptor numbers 0 .. MaxFdNum
    MaxLen,         \* bound: the bytes of a file
    FsScenarios     \* what is there at the start, and the calls of the program

Inode == 1 .. MaxInode
FileId == 1 .. MaxFile
FdNum == 0 .. MaxFdNum
Nothing == 0

VARIABLES
    fsScenario,     \* the scenario
    host,           \* [names, inode]: the file system of the host
    file,           \* the open descriptions: FileHandle, DirHandle or a standard stream
    fnum,           \* descriptor number -> description, or Nothing
    dirs,           \* DirTable: the open directory streams
    bufs,           \* the dirent buffers that are allocated
    fsLast,         \* what the last call returned; the call and its description if it had an effect
    fsEnd           \* how the program ended, or "no"

fsVars == <<fsScenario, host, file, fnum, dirs, bufs, fsLast, fsEnd>>

NoInode == [kind |-> "none", data |-> <<>>, target |-> "", mode |-> 0, atime |-> "never", mtime |-> "never"]
NoFile == [kind |-> "none", ino |-> Nothing, pos |-> 0, append |-> FALSE, hostRead |-> FALSE,
           hostWrite |-> FALSE, readable |-> FALSE, writable |-> FALSE, lock |-> "none"]
StdFile == [NoFile EXCEPT !.kind = "std"]

---------------------------------------------------------------------------
(* The host.  A path is resolved by following the link it names, if any;   *)
(* MaxLinks links in a row are an error, as on the host.                   *)
MaxLinks == 2
Kind(h, p) == IF h.names[p] = Nothing THEN "none" ELSE h.inode[h.names[p]].kind
ParentThere(h, p) == ParentOf[p] = "" \/ Kind(h, ParentOf[p]) = "dir"
Resolve(h, p) ==
    LET f[n \in 0 .. MaxLinks] ==
            IF n = 0 THEN p
            ELSE LET q == f[n - 1] IN IF Kind(h, q) = "link" THEN h.inode[h.names[q]].target ELSE q
    IN  f[MaxLinks]
IsDir(h, p) == Kind(h, Resolve(h, p)) = "dir"
Exists(h, p) == Kind(h, Resolve(h, p)) \notin {"none", "link"}
EntriesIn(h, d) == {p \in Path : ParentOf[p] = d /\ h.names[p] # Nothing}

(* An inode without a name and without a description is free. *)
InUse(h, f, i) == (\E p \in Path : h.names[p] = i) \/ (\E d \in FileId : f[d].kind \in {"file", "dir"} /\ f[d].ino = i)
FreeInodes(h, f) == {i \in Inode : ~InUse(h, f, i)}
HasRoom == FreeInodes(host, file) # {}
NewInode(h, f) == CHOOSE i \in FreeInodes(h, f) : \A j \in FreeInodes(h, f) : i <= j
Make(h, f, p, inode) ==
    LET i == NewInode(h, f)
    IN  [h EXCEPT !.names[p] = i, !.inode[i] = inode]
NewRegular == [NoInode EXCEPT !.kind = "file"]

(* std::fs::OpenOptions::open: the checks of std, then open(2). *)
NoOptions == [read |-> FALSE, write |-> FALSE, append |-> FALSE, truncate |-> FALSE,
              create |-> FALSE, create_new |-> FALSE, nofollow |-> FALSE]
InvalidOptions(o) ==
    \/ ~o.read /\ ~o.write /\ ~o.append
    \/ ~o.write /\ ~o.append /\ (o.truncate \/ o.create \/ o.create_new)
    \/ o.append /\ o.truncate /\ ~o.create_new
OpenOk(h, p, o, existed) ==
    [err |-> "ok", host |-> h, ino |-> h.names[p], existed |-> existed,
     append |-> o.append, hostRead |-> o.read, hostWrite |-> o.write \/ o.append]
OpenErr(h, e) == [err |-> e, host |-> h]
HostOpen(h, f, p, o) ==
    LET q == IF o.create_new \/ o.nofollow THEN p ELSE Resolve(h, p)
        creates == o.create \/ o.create_new
    IN  CASE InvalidOptions(o) -> OpenErr(h, "InvalidInput")
          [] o.create_new /\ h.names[p] # Nothing -> OpenErr(h, "AlreadyExists")
          [] Kind(h, q) = "link" -> OpenErr(h, "FilesystemLoop")
          [] Kind(h, q) = "none" /\ (~creates \/ ~ParentThere(h, q)) -> OpenErr(h, "NotFound")
          [] Kind(h, q) = "none" -> OpenOk(Make(h, f, q, NewRegular), q, o, FALSE)
          [] Kind(h, q) = "dir" /\ (creates \/ o.write \/ o.append) -> OpenErr(h, "IsADirectory")
          [] Kind(h, q) = "dir" -> OpenOk(h, q, o, TRUE)
          [] OTHER -> OpenOk(IF o.truncate THEN [h EXCEPT !.inode[h.names[q]].data = <<>>] ELSE h, q, o, TRUE)

Done(h) == [err |-> "ok", host |-> h]
Failed(h, e) == [err |-> e, host |-> h]
RemoveFile(h, p) ==
    CASE Kind(h, p) = "none" -> Failed(h, "NotFound")
      [] Kind(h, p) = "dir" -> Failed(h, "IsADirectory")
      [] OTHER -> Done([h EXCEPT !.names[p] = Nothing])
RemoveDir(h, p) ==
    CASE Kind(h, p) = "none" -> Failed(h, "NotFound")
      [] Kind(h, p) # "dir" -> Failed(h, "NotADirectory")
      [] EntriesIn(h, p) # {} -> Failed(h, "DirectoryNotEmpty")
      [] OTHER -> Done([h EXCEPT !.names[p] = Nothing])
CreateAt(h, f, p, inode) ==
    CASE h.names[p] # Nothing -> Failed(h, "AlreadyExists")
      [] ~ParentThere(h, p) -> Failed(h, "NotFound")
      [] OTHER -> Done(Make(h, f, p, inode))
HardLink(h, p, q) ==
    CASE Kind(h, p) = "none" -> Failed(h, "NotFound")
      [] Kind(h, p) = "dir" -> Failed(h, "PermissionDenied")
      [] h.names[q] # Nothing -> Failed(h, "AlreadyExists")
      [] ~ParentThere(h, q) -> Failed(h, "NotFound")
      [] OTHER -> Done([h EXCEPT !.names[q] = h.names[p]])
Rename(h, p, q) ==
    CASE Kind(h, p) = "none" \/ ~ParentThere(h, q) -> Failed(h, "NotFound")
      [] h.names[p] = h.names[q] -> Done(h)
      [] Kind(h, p) = "dir" /\ Kind(h, q) \notin {"none", "dir"} -> Failed(h, "NotADirectory")
      [] Kind(h, p) # "dir" /\ Kind(h, q) = "dir" -> Failed(h, "IsADirectory")
      [] ParentOf[q] = p -> Failed(h, "InvalidInput")
      [] EntriesIn(h, q) # {} -> Failed(h, "DirectoryNotEmpty")
      [] OTHER -> Done([h EXCEPT !.names[p] = Nothing, !.names[q] = h.names[p]])
(* The paths below a directory that moves would change with it: in these   *)
(* instances only empty directories are moved.                             *)
RenameInBounds(h, p) == Kind(h, p) = "dir" => EntriesIn(h, p) = {}

SetLen(h, f, d, len) ==
    LET i == f[d].ino
        data == h.inode[i].data
    IN  IF ~f[d].hostWrite THEN Failed(h, "InvalidInput")
        ELSE Done([h EXCEPT !.inode[i].data = [k \in 1 .. len |-> IF k <= Len(data) THEN data[k] ELSE 0]])

(* File::read, File::write and File::seek, from [host, file] to [err, n, host, file]. *)
HostRead(h, f, d, len) ==
    LET left == Len(h.inode[f[d].ino].data) - f[d].pos
        n == IF left <= 0 THEN 0 ELSE IF left < len THEN left ELSE len
    IN  IF h.inode[f[d].ino].kind = "dir" THEN [err |-> "IsADirectory", n |-> 0, host |-> h, file |-> f]
        ELSE [err |-> "ok", n |-> n, host |-> h, file |-> [f EXCEPT ![d].pos = @ + n]]
HostWrite(h, f, d, len) ==
    LET data == h.inode[f[d].ino].data
        at == IF f[d].append THEN Len(data) ELSE f[d].pos
        end == at + len
        new == [k \in 1 .. IF end > Len(data) THEN end ELSE Len(data) |->
                   IF k > at /\ k <= end THEN 1 ELSE IF k <= Len(data) THEN data[k] ELSE 0]
    IN  [err |-> "ok", n |-> len, host |-> [h EXCEPT !.inode[f[d].ino].data = new], file |-> [f EXCEPT ![d].pos = end]]
HostSeek(h, f, d, whence, off) ==
    LET base == CASE whence = "start" -> 0 [] whence = "current" -> f[d].pos [] whence = "end" -> Len(h.inode[f[d].ino].data)
    IN  IF base + off < 0 THEN [err |-> "InvalidInput", n |-> 0, host |-> h, file |-> f]
        ELSE [err |-> "ok", n |-> base + off, host |-> h, file |-> [f EXCEPT ![d].pos = base + off]]
InBounds(r) == \A i \in Inode : Len(r.host.inode[i].data) <= MaxLen
PosInBounds(f) == \A d \in FileId : f[d].pos <= MaxLen

---------------------------------------------------------------------------
(* The program makes a call, which ends with a result. *)
Running == fsEnd = "no"
Calls(call) == Running /\ call \in fsScenario.calls
Isolated == fsScenario.isolated
Recorded(call, d, res) == fsLast' = [call |-> call, d |-> d, res |-> res]
(* Nothing changes but what the call returns. *)
Returns(call, d, err) ==
    /\ Recorded("none", Nothing, err)
    /\ UNCHANGED <<fsScenario, host, file, fnum, dirs, bufs, fsEnd>>
(* An error of the interpreter ends the program. *)
Ends(call, how) ==
    /\ Recorded(call, Nothing, how)
    /\ fsEnd' = how
    /\ UNCHANGED <<fsScenario, host, file, fnum, dirs, bufs>>

(* reject_in_isolation: an abort, or an error that the call returns. *)
Rejected(call, err) == Isolated /\ (Ends(call, "isolation") \/ Returns(call, Nothing, err))
check_no_isolation(call) == Isolated /\ Ends(call, "isolation")

(* A host call that changes names or inodes and returns. *)
Applies(call, d, r) ==
    /\ InBounds(r)
    /\ host' = r.host
    /\ Recorded(call, d, r.err)
    /\ UNCHANGED <<fsScenario, file, fnum, dirs, bufs, fsEnd>>
Transfers(call, d, r) ==
    /\ InBounds(r) /\ PosInBounds(r.file)
    /\ host' = r.host /\ file' = r.file
    /\ Recorded(call, d, r.err)
    /\ UNCHANGED <<fsScenario, fnum, dirs, bufs, fsEnd>>

(* FdTable::insert: the lowest free number. *)
FreeNums == {n \in FdNum : n < fsScenario.numbers /\ fnum[n] = Nothing}
LowestNum == CHOOSE n \in FreeNums : \A m \in FreeNums : n <= m
FreeFiles == {d \in FileId : file[d].kind = "none"}
NewFile == CHOOSE d \in FreeFiles : \A e \in FreeFiles : d <= e
CanInsert == FreeNums # {} /\ FreeFiles # {}
insertNew(record) ==
    /\ file' = [file EXCEPT ![NewFile] = record]
    /\ fnum' = [fnum EXCEPT ![LowestNum] = NewFile]
    /\ UNCHANGED <<fsScenario, dirs, bufs, fsEnd>>
FileHandle(r, readable, writable) ==
    [NoFile EXCEPT !.kind = "file", !.ino = r.ino, !.append = r.append, !.hostRead = r.hostRead,
                   !.hostWrite = r.hostWrite, !.readable = readable, !.writable = writable]
(* Dropping the last reference closes the file of the host, and its lock goes with it. *)
Release(n) ==
    /\ fnum' = [fnum EXCEPT ![n] = Nothing]
    /\ file' = IF \E m \in FdNum \ {n} : fnum[m] = fnum[n] THEN file ELSE [file EXCEPT ![fnum[n]] = NoFile]

(* FileHandle::read and write, under a call of the target.  The assertion  *)
(* that isolation kept the file from being opened may fail.                *)
IsFile(n) == file[fnum[n]].kind = "file"
readFile(call, n, len) ==
    LET d == fnum[n]
    IN  IF Isolated THEN Ends(call, "assertion")
        ELSE IF ~file[d].readable THEN Returns(call, d, "PermissionDenied")
        ELSE Transfers(call, d, HostRead(host, file, d, len))
writeFile(call, n, len) ==
    LET d == fnum[n]
    IN  IF Isolated THEN Ends(call, "assertion")
        ELSE IF ~file[d].writable THEN Returns(call, d, "PermissionDenied")
        ELSE Transfers(call, d, HostWrite(host, file, d, len))
seekFile(call, n, whence, off) ==
    LET d == fnum[n]
    IN  IF Isolated THEN Ends(call, "assertion")
        ELSE Transfers(call, d, HostSeek(host, file, d, whence, off))
(* The standard streams: reading them is refused in isolation, they cannot *)
(* be sought, and writing to them is always allowed.                       *)
readStd(call, n) == IF Isolated THEN Ends(call, "isolation") ELSE Returns(call, fnum[n], "ok")
writeStd(call, n) == Returns(call, fnum[n], "ok")

FsInit ==
    /\ fsScenario \in FsScenarios
    /\ host = fsScenario.host
    /\ file = [d \in FileId |-> IF d = 1 /\ fsScenario.std THEN StdFile ELSE NoFile]
    /\ fnum = [n \in FdNum |-> IF n = 0 /\ fsScenario.std THEN 1 ELSE Nothing]
    /\ dirs = <<>> /\ bufs = {}
    /\ fsLast = [call |-> "none", d |-> Nothing, res |-> "ok"]
    /\ fsEnd = "no"
=============================================================================
