------------------------------- MODULE UnixFs -------------------------------
(***************************************************************************)
(* The file system calls of Unix targets (shims/unix/fs.rs), with the file *)
(* part of shims/unix/fd.rs.  Every call is one step of the interpreter.   *)
(***************************************************************************)
EXTENDS HostFs

CONSTANTS
    MaxStreams,     \* bound: directory streams ever opened
    MaxBufs,        \* bound: dirent buffers
    TmpMax          \* TMP_MAX: the attempts of mkstemp

Offset == fsScenario.offsets
Length == fsScenario.lengths
Usable(n) == fnum[n] # Nothing
BadFd(call, n) == ~Usable(n) /\ Returns(call, Nothing, "EBADF")

---------------------------------------------------------------------------
(* Opening.  The flags are taken off one by one; what is left over is not  *)
(* supported.  O_EXCL is only taken off together with O_CREAT.             *)
Supported(flags) ==
    {"append", "trunc", "creat", "cloexec", "nofollow"} \cup (IF "creat" \in flags THEN {"excl"} ELSE {})
OptionsOf(access, flags) ==
    [NoOptions EXCEPT !.read = access \in {"r", "rw"}, !.write = access \in {"w", "rw"},
        !.append = "append" \in flags, !.truncate = "trunc" \in flags,
        !.create = {"creat", "excl"} \cap flags = {"creat"}, !.create_new = {"creat", "excl"} \subseteq flags,
        !.nofollow = "nofollow" \in flags]

open(p, access, flags) ==
    LET r == HostOpen(host, file, p, OptionsOf(access, flags))
    IN  /\ Calls("open") /\ HasRoom
        /\ IF "tmpfile" \in flags THEN Returns("open", Nothing, "EOPNOTSUPP")
           ELSE IF ~(flags \subseteq Supported(flags)) THEN Ends("open", "unsup")
           ELSE IF Isolated THEN Rejected("open", "PermissionDenied")
           ELSE IF r.err # "ok" THEN Returns("open", Nothing, r.err)
           ELSE /\ CanInsert /\ InBounds(r)
                /\ host' = r.host
                /\ insertNew(FileHandle(r, access # "w", access # "r"))
                /\ Recorded("open", NewFile, "ok")

(* mkstemp: a random name, again if it is taken, TmpMax times at most.  A  *)
(* name the host does not take for another reason ends the search.  Taken  *)
(* names are in no order, so the names that are tried are any sequence.    *)
Taken(p) == host.names[p] # Nothing
TempOptions == [NoOptions EXCEPT !.read = TRUE, !.write = TRUE, !.create_new = TRUE]
mkstemp(template, names) ==
    LET tried == {i \in 1 .. Len(names) : ~Taken(names[i])}
        r == HostOpen(host, file, names[Min(tried)], TempOptions)
    IN  /\ Calls("mkstemp") /\ HasRoom
        /\ IF Isolated THEN Rejected("mkstemp", "EACCES")
           ELSE IF template # "XXXXXX" THEN Returns("mkstemp", Nothing, "EINVAL")
           ELSE IF tried = {} THEN Returns("mkstemp", Nothing, "EEXIST")
           ELSE IF r.err # "ok" THEN Returns("mkstemp", Nothing, r.err)
           ELSE /\ CanInsert
                /\ host' = r.host
                /\ insertNew(FileHandle(r, TRUE, TRUE))
                /\ Recorded("mkstemp", NewFile, "ok")

close(n) ==
    /\ Calls("close")
    /\ IF ~Usable(n) THEN BadFd("close", n)
       ELSE /\ Release(n)
            /\ Recorded("close", fnum[n], "ok")
            /\ UNCHANGED <<fsScenario, host, dirs, bufs, fsEnd>>

dup(n) ==
    /\ Calls("dup")
    /\ IF ~Usable(n) THEN BadFd("dup", n)
       ELSE /\ FreeNums # {}
            /\ fnum' = [fnum EXCEPT ![LowestNum] = fnum[n]]
            /\ Recorded("dup", fnum[n], "ok")
            /\ UNCHANGED <<fsScenario, host, file, dirs, bufs, fsEnd>>

---------------------------------------------------------------------------
(* Transfers.  A length of at least two may be halved. *)
ShortOf(len) == IF len >= 2 THEN {len, len \div 2} ELSE {len}

read(n, len) ==
    /\ Calls("read")
    /\ IF ~Usable(n) THEN BadFd("read", n)
       ELSE IF len = 0 THEN Returns("read", fnum[n], "ok")
       ELSE IF IsFile(n) THEN \E k \in ShortOf(len) : readFile("read", n, k)
       ELSE readStd("read", n)
write(n, len) ==
    /\ Calls("write")
    /\ IF ~Usable(n) THEN BadFd("write", n)
       ELSE IF len = 0 THEN Returns("write", fnum[n], "ok")
       ELSE IF IsFile(n) THEN \E k \in ShortOf(len) : writeFile("write", n, k)
       ELSE writeStd("write", n)

(* pread and pwrite seek, transfer, and seek back to where the cursor was, *)
(* also when the transfer failed.                                          *)
Restored(r, d, cursor) == [r EXCEPT !.file = HostSeek(r.host, r.file, d, "start", cursor).file]
PositionedAt(d, offset) == HostSeek(host, file, d, "start", offset).file
preadLeavesCursor(d, offset, len) ==
    LET r == HostRead(host, PositionedAt(d, offset), d, len)
    IN  IF r.err = "ok" THEN Restored(r, d, file[d].pos) ELSE r
preadAt(d, offset, len) == Restored(HostRead(host, PositionedAt(d, offset), d, len), d, file[d].pos)
pwriteAt(d, offset, len) == Restored(HostWrite(host, PositionedAt(d, offset), d, len), d, file[d].pos)

(* A standard stream is not a Unix description: as_unix panics on it. *)
pread(n, offset, len) ==
    /\ Calls("pread")
    /\ IF ~Usable(n) THEN BadFd("pread", n)
       ELSE IF len = 0 THEN Returns("pread", fnum[n], "ok")
       ELSE IF offset < 0 THEN Returns("pread", fnum[n], "EINVAL")
       ELSE IF ~IsFile(n) THEN Ends("pread", "not_unix")
       ELSE IF Isolated THEN Ends("pread", "assertion")
       ELSE IF ~file[fnum[n]].readable THEN Returns("pread", fnum[n], "EBADF")
       ELSE \E k \in ShortOf(len) : Transfers("pread", fnum[n], preadAt(fnum[n], offset, k))
pwrite(n, offset, len) ==
    /\ Calls("pwrite")
    /\ IF ~Usable(n) THEN BadFd("pwrite", n)
       ELSE IF len = 0 THEN Returns("pwrite", fnum[n], "ok")
       ELSE IF offset < 0 THEN Returns("pwrite", fnum[n], "EINVAL")
       ELSE IF ~IsFile(n) THEN Ends("pwrite", "not_unix")
       ELSE IF Isolated THEN Ends("pwrite", "assertion")
       ELSE IF ~file[fnum[n]].writable THEN Returns("pwrite", fnum[n], "EBADF")
       ELSE \E k \in ShortOf(len) : Transfers("pwrite", fnum[n], pwriteAt(fnum[n], offset, k))

lseek(n, whence, off) ==
    /\ Calls("lseek")
    /\ IF whence = "bad" \/ (whence = "start" /\ off < 0) THEN Returns("lseek", Nothing, "EINVAL")
       ELSE IF ~Usable(n) THEN BadFd("lseek", n)
       ELSE IF ~IsFile(n) THEN Ends("lseek", "unsup")
       ELSE seekFile("lseek", n, whence, off)

(* flock never waits: a blocking request that would have to is not         *)
(* supported.  Locks belong to descriptions; a request replaces the lock   *)
(* the description has, and loses it if the new one is not to be had.      *)
Conflicts(d, mode) ==
    \E e \in FileId \ {d} : /\ file[e].kind = "file" /\ file[e].ino = file[d].ino
                            /\ file[e].lock = "exclusive" \/ (mode = "exclusive" /\ file[e].lock = "shared")
flock(n, mode, nonblocking) ==
    LET d == fnum[n]
    IN  /\ Calls("flock")
        /\ IF ~Usable(n) THEN BadFd("flock", n)
           ELSE IF ~IsFile(n) THEN Ends("flock", "not_unix")
           ELSE IF Isolated THEN Ends("flock", "assertion")
           ELSE IF mode # "none" /\ Conflicts(d, mode) /\ ~nonblocking THEN Ends("flock", "unsup")
           ELSE LET r == IF mode # "none" /\ Conflicts(d, mode) THEN "WouldBlock" ELSE "ok"
                IN  /\ file' = [file EXCEPT ![d].lock = IF r = "ok" THEN mode ELSE "none"]
                    /\ Recorded("flock", d, r)
                    /\ UNCHANGED <<fsScenario, host, fnum, dirs, bufs, fsEnd>>

---------------------------------------------------------------------------
(* The length of a file. *)
ftruncate64(n, length) ==
    /\ Calls("ftruncate")
    /\ IF ~Usable(n) THEN BadFd("ftruncate", n)
       ELSE IF ~IsFile(n) \/ ~file[fnum[n]].writable THEN Returns("ftruncate", Nothing, "EINVAL")
       ELSE IF Isolated THEN Ends("ftruncate", "assertion")
       ELSE IF length < 0 THEN Returns("ftruncate", fnum[n], "EINVAL")
       ELSE Applies("ftruncate", fnum[n], SetLen(host, file, fnum[n], length))

(* posix_fallocate and fallocate: the file grows or stays as it is.  Here  *)
(* MaxLen is i64::MAX, the end of what can be asked for.                   *)
fallocate_impl(call, n, offset, len) ==
    IF offset < 0 \/ len <= 0 THEN Returns(call, Nothing, "EINVAL")
    ELSE IF ~Usable(n) THEN BadFd(call, n)
    ELSE IF ~IsFile(n) THEN Returns(call, fnum[n], "ENODEV")
    ELSE IF ~file[fnum[n]].writable THEN Returns(call, fnum[n], "EBADF")
    ELSE IF offset + len > MaxLen THEN Returns(call, fnum[n], "EFBIG")
    ELSE IF Len(host.inode[file[fnum[n]].ino].data) < offset + len
    THEN Applies(call, fnum[n], SetLen(host, file, fnum[n], offset + len))
    ELSE Returns(call, fnum[n], "ok")
posix_fallocate(n, offset, len) ==
    /\ Calls("posix_fallocate")
    /\ IF Isolated THEN Rejected("posix_fallocate", "EBADF") ELSE fallocate_impl("posix_fallocate", n, offset, len)
linux_fallocate(n, mode, offset, len) ==
    /\ Calls("fallocate")
    /\ IF Isolated THEN Rejected("fallocate", "EBADF")
       ELSE IF mode # 0 THEN Ends("fallocate", "unsup")
       ELSE fallocate_impl("fallocate", n, offset, len)

(* Calls on a regular file that change none of its bytes. *)
OnFile(call, n, other) ==
    IF ~Usable(n) THEN BadFd(call, n)
    ELSE IF ~IsFile(n) THEN Ends(call, other)
    ELSE IF Isolated THEN Ends(call, "assertion")
    ELSE Returns(call, fnum[n], "ok")
fsync(n) == Calls("fsync") /\ OnFile("fsync", n, "unsup")
fdatasync(n) == Calls("fsync") /\ OnFile("fdatasync", n, "unsup")
sync_file_range(n, offset, flags) ==
    /\ Calls("fsync")
    /\ IF offset < 0 \/ flags = "other" THEN Returns("sync_file_range", Nothing, "EINVAL")
       ELSE OnFile("sync_file_range", n, "unsup")

fchmod(n, mode) ==
    /\ Calls("chmod")
    /\ IF ~Usable(n) THEN BadFd("fchmod", n)
       ELSE IF ~IsFile(n) THEN Ends("fchmod", "unsup")
       ELSE IF Isolated THEN Ends("fchmod", "assertion")
       ELSE Applies("fchmod", fnum[n], Done([host EXCEPT !.inode[file[fnum[n]].ino].mode = mode]))

(* futimens: each of the two times is omitted, set, or invalid; nothing is *)
(* set unless both can be.                                                 *)
futimens(n, atime, mtime) ==
    LET i == file[fnum[n]].ino
        Stamp(old, new) == IF new = "omit" THEN old ELSE new
    IN  /\ Calls("futimens")
        /\ IF ~Usable(n) THEN BadFd("futimens", n)
           ELSE IF ~IsFile(n) THEN Ends("futimens", "unsup")
           ELSE IF Isolated THEN Ends("futimens", "assertion")
           ELSE IF "invalid" \in {atime, mtime} THEN Returns("futimens", fnum[n], "EINVAL")
           ELSE Applies("futimens", fnum[n],
                        Done([host EXCEPT !.inode[i].atime = Stamp(@, atime), !.inode[i].mtime = Stamp(@, mtime)]))

---------------------------------------------------------------------------
(* Names. *)
NamesCall(call, p, err, r) ==
    /\ Calls(call)
    /\ IF Isolated THEN Rejected(call, err) ELSE Applies(call, Nothing, r)

unlink(p) == NamesCall("unlink", p, "PermissionDenied", RemoveFile(host, p))
rmdir(p) == NamesCall("rmdir", p, "PermissionDenied", RemoveDir(host, p))
mkdir(p) == HasRoom /\ NamesCall("mkdir", p, "PermissionDenied", CreateAt(host, file, p, [NoInode EXCEPT !.kind = "dir"]))
symlink(target, p) ==
    HasRoom /\ NamesCall("symlink", p, "PermissionDenied", CreateAt(host, file, p, [NoInode EXCEPT !.kind = "link", !.target = target]))
rename(p, q) == RenameInBounds(host, p) /\ NamesCall("rename", p, "PermissionDenied", Rename(host, p, q))
(* Flags, and directories other than the current one, are not supported. *)
linkat(p, q, plain) ==
    /\ Calls("linkat")
    /\ IF Isolated THEN Rejected("linkat", "PermissionDenied")
       ELSE IF ~plain THEN Ends("linkat", "unsup")
       ELSE Applies("linkat", Nothing, HardLink(host, p, q))
chmod(p, mode) ==
    LET q == Resolve(host, p)
    IN  NamesCall("chmod", p, "EACCES",
                  IF ~Exists(host, p) THEN Failed(host, "NotFound") ELSE Done([host EXCEPT !.inode[host.names[q]].mode = mode]))

---------------------------------------------------------------------------
(* Questions.  What a call finds is the inode it reports on. *)
FromPath(p, follow) == IF follow THEN Resolve(host, p) ELSE p
Reports(call, i) ==
    /\ Recorded(call, i, "ok")
    /\ UNCHANGED <<fsScenario, host, file, fnum, dirs, bufs, fsEnd>>
statPath(call, p, follow) ==
    LET q == FromPath(p, follow)
    IN  IF Kind(host, q) = "none" THEN Returns(call, Nothing, "NotFound")
        ELSE IF follow /\ Kind(host, q) = "link" THEN Returns(call, Nothing, "FilesystemLoop")
        ELSE Reports(call, host.names[q])
stat(p) == Calls("stat") /\ IF Isolated THEN Rejected("stat", "EACCES") ELSE statPath("stat", p, TRUE)
lstat(p) == Calls("stat") /\ IF Isolated THEN Rejected("lstat", "EACCES") ELSE statPath("lstat", p, FALSE)
statFd(call, n) ==
    IF ~Usable(n) THEN BadFd(call, n)
    ELSE IF ~IsFile(n) THEN Ends(call, "unsup")
    ELSE Reports(call, file[fnum[n]].ino)
fstat(n) == Calls("stat") /\ IF Isolated THEN Rejected("fstat", "EBADF") ELSE statFd("fstat", n)
(* statx on a path, or on a descriptor with an empty path. *)
linux_statx(n, p, nofollow, emptyPath) ==
    /\ Calls("statx")
    /\ IF Isolated THEN Rejected("statx", IF emptyPath THEN "EBADF" ELSE "EACCES")
       ELSE IF emptyPath THEN statFd("statx", n)
       ELSE statPath("statx", p, ~nofollow)
readlink(p) ==
    /\ Calls("readlink")
    /\ IF Isolated THEN Rejected("readlink", "EACCES")
       ELSE IF Kind(host, p) = "none" THEN Returns("readlink", Nothing, "NotFound")
       ELSE IF Kind(host, p) # "link" THEN Returns("readlink", Nothing, "InvalidInput")
       ELSE Reports("readlink", host.names[p])
(* The resolved path goes to a buffer of the caller, if it fits, or to a new one. *)
realpath(p, fits) ==
    /\ Calls("realpath")
    /\ IF Isolated THEN Rejected("realpath", "EACCES")
       ELSE IF ~Exists(host, p) THEN Returns("realpath", Nothing, "NotFound")
       ELSE IF ~fits THEN Returns("realpath", Nothing, "ENAMETOOLONG")
       ELSE Reports("realpath", host.names[Resolve(host, p)])
isatty(n, tty) ==
    /\ Calls("isatty")
    /\ IF ~Usable(n) THEN BadFd("isatty", n)
       ELSE Returns("isatty", fnum[n], IF tty /\ ~IsFile(n) /\ ~Isolated THEN "ok" ELSE "ENOTTY")

---------------------------------------------------------------------------
(* Directory streams.  The reader of the host returns every name that is   *)
(* there all the time once, and may or may not return others.              *)
NewStream(p) == [open |-> TRUE, dir |-> p, special |-> <<"..", ".">>, snap |-> EntriesIn(host, p),
                 seen |-> {}, entry |-> Nothing]
IsStream(id) == id \in 1 .. Len(dirs) /\ dirs[id].open
MayYield(s) == (s.snap \cup EntriesIn(host, s.dir)) \ s.seen
MustYield(s) == (s.snap \cap EntriesIn(host, s.dir)) \ s.seen
FreeBufs == (1 .. MaxBufs) \ bufs
NewBuf == CHOOSE b \in FreeBufs : \A c \in FreeBufs : b <= c

opendir(p) ==
    /\ Calls("opendir")
    /\ IF Isolated THEN Rejected("opendir", "EACCES")
       ELSE IF ~Exists(host, p) THEN Returns("opendir", Nothing, "NotFound")
       ELSE IF ~IsDir(host, p) THEN Returns("opendir", Nothing, "NotADirectory")
       ELSE /\ Len(dirs) < MaxStreams
            /\ dirs' = Append(dirs, NewStream(Resolve(host, p)))
            /\ Recorded("opendir", Len(dirs) + 1, "ok")
            /\ UNCHANGED <<fsScenario, host, file, fnum, bufs, fsEnd>>

(* next_host_entry *)
Yields(s) ==
    IF s.special # <<>> THEN {[s |-> [s EXCEPT !.special = SubSeq(@, 1, Len(@) - 1)], more |-> TRUE]}
    ELSE {[s |-> [s EXCEPT !.seen = @ \cup {p}], more |-> TRUE] : p \in MayYield(s)}
         \cup (IF MustYield(s) = {} THEN {[s |-> s, more |-> FALSE]} ELSE {})

(* The entry goes to a new buffer; the buffer of the entry before is freed,*)
(* also at the end of the stream and on an error of the host.              *)
Replaces(id, s, entry) ==
    /\ dirs' = [dirs EXCEPT ![id] = [s EXCEPT !.entry = entry]]
    /\ bufs' = (bufs \cup (IF entry = Nothing THEN {} ELSE {entry})) \ (IF s.entry = Nothing THEN {} ELSE {s.entry})

readdir(id) ==
    /\ Calls("readdir")
    /\ IF Isolated THEN Rejected("readdir", "EBADF")
       ELSE IF ~IsStream(id) THEN Ends("readdir", "ub")
       ELSE /\ FreeBufs # {}
            /\ \/ \E y \in Yields(dirs[id]) :
                    /\ Replaces(id, y.s, IF y.more THEN NewBuf ELSE Nothing)
                    /\ Recorded("readdir", id, "ok")
               \/ /\ fsScenario.hostErrors /\ dirs[id].special = <<>>
                  /\ Replaces(id, dirs[id], Nothing)
                  /\ Recorded("readdir", id, "host")
            /\ UNCHANGED <<fsScenario, host, file, fnum, fsEnd>>

(* readdir_r writes to a buffer of the caller. *)
macos_readdir_r(id) ==
    /\ Calls("readdir_r")
    /\ IF Isolated THEN Rejected("readdir_r", "EBADF")
       ELSE IF ~IsStream(id) THEN Ends("readdir_r", "unsup")
       ELSE /\ \/ \E y \in Yields(dirs[id]) : dirs' = [dirs EXCEPT ![id] = y.s] /\ Recorded("readdir_r", id, "ok")
               \/ /\ fsScenario.hostErrors /\ dirs[id].special = <<>>
                  /\ UNCHANGED dirs /\ Recorded("readdir_r", id, "host")
            /\ UNCHANGED <<fsScenario, host, file, fnum, bufs, fsEnd>>

closedir(id) ==
    /\ Calls("closedir")
    /\ IF Isolated THEN Rejected("closedir", "EBADF")
       ELSE IF ~IsStream(id) THEN Returns("closedir", Nothing, "EBADF")
       ELSE /\ dirs' = [dirs EXCEPT ![id] = [NewStream(@.dir) EXCEPT !.open = FALSE, !.snap = {}]]
            /\ bufs' = bufs \ {dirs[id].entry}
            /\ Recorded("closedir", id, "ok")
            /\ UNCHANGED <<fsScenario, host, file, fnum, fsEnd>>

---------------------------------------------------------------------------
UnixFsNext ==
    /\ Running
    /\ \/ \E p \in fsScenario.paths :
            \/ \E o \in fsScenario.opens : open(p, o.access, o.flags)
            \/ unlink(p) \/ rmdir(p) \/ mkdir(p) \/ opendir(p) \/ stat(p) \/ lstat(p) \/ readlink(p)
            \/ \E q \in fsScenario.paths : symlink(q, p) \/ rename(p, q)
            \/ \E q \in fsScenario.paths, plain \in BOOLEAN : linkat(p, q, plain)
            \/ \E m \in {0, 1} : chmod(p, m)
            \/ \E fits \in BOOLEAN : realpath(p, fits)
            \/ \E n \in FdNum, b \in BOOLEAN, e \in BOOLEAN : linux_statx(n, p, b, e)
       \/ \E t \in {"XXXXXX", "other"}, names \in [1 .. TmpMax -> fsScenario.paths] : mkstemp(t, names)
       \/ \E n \in FdNum :
            \/ close(n) \/ dup(n) \/ fsync(n) \/ fdatasync(n) \/ fstat(n)
            \/ \E len \in Length : read(n, len) \/ write(n, len)
            \/ \E off \in Offset, len \in Length : pread(n, off, len) \/ pwrite(n, off, len)
            \/ \E off \in Offset, len \in Length :
                  posix_fallocate(n, off, len) \/ \E m \in {0, 1} : linux_fallocate(n, m, off, len)
            \/ \E w \in {"start", "current", "end", "bad"}, off \in Offset : lseek(n, w, off)
            \/ \E off \in Offset : ftruncate64(n, off)
            \/ \E m \in {"shared", "exclusive", "none"}, nb \in BOOLEAN : flock(n, m, nb)
            \/ \E off \in Offset, fl \in {"known", "other"} : sync_file_range(n, off, fl)
            \/ \E m \in {0, 1} : fchmod(n, m)
            \/ \E a, m \in {"omit", "set", "invalid"} : futimens(n, a, m)
            \/ \E tty \in BOOLEAN : isatty(n, tty)
       \/ \E id \in 1 .. MaxStreams : readdir(id) \/ macos_readdir_r(id) \/ closedir(id)

---------------------------------------------------------------------------
(* No assertion of the interpreter fails: no description of a file is ever *)
(* there when the program is isolated, whatever calls were made before.    *)
(* Two panics are left out, which the program brings about by itself: the  *)
(* Unix calls on a standard stream (as_unix, files.rs:202) and a negative  *)
(* length or position on Windows (windows/fs.rs:433, 453 and 808).         *)
FsAssertionsHold ==
    CASE fsEnd = "not_unix" -> fsLast.call \in {"pread", "pwrite", "flock"} /\ StdFile \in Range(file)
      [] fsEnd = "negative" -> fsLast.call \in {"SetFilePointerEx", "SetFileInformationByHandle"} /\ \E off \in Offset : off < 0
      [] OTHER -> fsEnd # "assertion" /\ (Isolated => \A d \in FileId : file[d].kind # "file")

(* In isolation no call changes the host, whatever the calls before it     *)
(* have left, except for MoveFileExW: it has no isolation check and does   *)
(* rename files of the host (windows/fs.rs:513 to 534).                    *)
FsIsolatedFromHost == [][Isolated /\ host' # host => fsLast'.call = "MoveFileExW"]_fsVars

(* The dirent buffers that are allocated are those of the open streams,    *)
(* one each: none leaks, none is freed while a stream still has it, through*)
(* ends of streams, errors of the host and closedir in any order.          *)
FsEntriesOwned ==
    /\ bufs = {dirs[i].entry : i \in {j \in 1 .. Len(dirs) : dirs[j].entry # Nothing}}
    /\ \A i, j \in 1 .. Len(dirs) : i # j /\ dirs[i].entry # Nothing => dirs[i].entry # dirs[j].entry

(* The bytes of a file change only through a description that was opened   *)
(* for writing, or when such a description is made: that the host gave the *)
(* interpreter the right, as it does for O_APPEND, is no substitute.       *)
(* (SetFileInformationByHandle leaves the check to the host.)              *)
FsWritesNeedTheRight ==
    [][\A i \in Inode :
          (host'.inode[i].data # host.inode[i].data /\ InUse(host, file, i))
          => \/ fsLast'.call \in {"open", "CreateFileW"} /\ file'[fsLast'.d].writable /\ file'[fsLast'.d].ino = i
             \/ fsLast'.d # Nothing /\ file[fsLast'.d].writable /\ file[fsLast'.d].ino = i
             \/ fsLast'.call = "SetFileInformationByHandle"]_fsVars

(* The cursor of a description moves only by reading, writing and seeking  *)
(* on that description; positioned transfers leave every cursor where it   *)
(* was, also when they fail.                                               *)
FsCursorsStay ==
    [][\A d \in FileId :
          (file[d].kind = "file" /\ file'[d].kind = "file" /\ file'[d].pos # file[d].pos)
          => /\ fsLast'.call \in {"read", "write", "lseek", "NtReadFile", "NtWriteFile", "SetFilePointerEx"}
             /\ fsLast'.d = d]_fsVars
=============================================================================
