----------------------------- MODULE WindowsFs -----------------------------
(***************************************************************************)
(* Handles and files of Windows targets (shims/windows/handle.rs and       *)
(* shims/windows/fs.rs).                                                   *)
(*                                                                         *)
(* A call is one step of the interpreter, except CreateFileW: it asks the  *)
(* host several questions before it opens the file, and other processes of *)
(* the host may change the name in between, so each host call is a step.   *)
(***************************************************************************)
EXTENDS HostFs

CONSTANTS
    DataBits,       \* the bits of a handle that are not discriminant: 29 in the code
    MaxRetries      \* the rounds of CreateFileW before it gives up: 100 in the code

VARIABLES
    cf,             \* the CreateFileW call in progress
    changes,        \* how often other processes have changed the name
    detached        \* threads whose handle was closed

winVars == <<fsVars, cf, changes, detached>>

---------------------------------------------------------------------------
(* Handles are packed into one word: the discriminant above the data. *)
H(k, v) == [k |-> k, v |-> v]
HNull == H("null", 0)
HInvalid == H("invalid", 2^DataBits - 1)
Discriminant == [null |-> 0, pseudo |-> 1, thread |-> 2, file |-> 3, invalid |-> 7]
PseudoValues == {0, 1}
ToPacked(h) == Discriminant[h.k] * 2^DataBits + h.v
NoHandle == H("none", 0)
(* Handle::new *)
HandleOf(disc, data) ==
    CASE disc = 0 /\ data = 0 -> HNull
      [] disc = 1 /\ data \in PseudoValues -> H("pseudo", data)
      [] disc = 2 -> H("thread", data)
      [] disc = 3 -> H("file", data)
      [] disc = 7 -> HInvalid
      [] OTHER -> NoHandle
FromPacked(w) == HandleOf(w \div 2^DataBits, w % 2^DataBits)
Word == 0 .. 2^(DataBits + 3) - 1

Threads == 0 .. fsScenario.threads - 1
(* read_handle: a handle of a thread must be of one that exists; anything  *)
(* else that does not decode ends the program.                             *)
Valid(h) == h.k # "none" /\ (h.k = "thread" => h.v \in Threads)
IsOpen(h) == h.k = "file" /\ h.v \in FdNum /\ fnum[h.v] # Nothing
Quiet == UNCHANGED <<cf, changes, detached>>
WinCalls(call) == Calls(call) /\ cf.pc = "idle"
(* A call on the handle w of a file. *)
OnHandle(call, w, Do(_)) ==
    LET h == FromPacked(w)
    IN  /\ IF ~Valid(h) \/ ~IsOpen(h) THEN Ends(call, "abort") ELSE Do(h.v)
        /\ Quiet

GetStdHandle(which) ==
    /\ WinCalls("GetStdHandle")
    /\ IF which \notin 0 .. 2 THEN Ends("GetStdHandle", "unsup") ELSE Returns("GetStdHandle", Nothing, "ok")
    /\ Quiet

DuplicateHandle(w, sameProcess, sameAccess) ==
    LET h == FromPacked(w)
    IN  /\ WinCalls("DuplicateHandle")
        /\ IF ~Valid(h) THEN Ends("DuplicateHandle", "abort")
           ELSE IF ~sameProcess \/ ~sameAccess \/ h.k \in {"thread", "pseudo"} THEN Ends("DuplicateHandle", "unsup")
           ELSE IF ~IsOpen(h) THEN Ends("DuplicateHandle", "abort")
           ELSE /\ FreeNums # {}
                /\ fnum' = [fnum EXCEPT ![LowestNum] = fnum[h.v]]
                /\ Recorded("DuplicateHandle", fnum[h.v], "ok")
                /\ UNCHANGED <<fsScenario, host, file, dirs, bufs, fsEnd>>
        /\ Quiet

(* Closing the handle of a thread detaches the thread. *)
CloseHandle(w) ==
    LET h == FromPacked(w)
    IN  /\ WinCalls("CloseHandle")
        /\ IF Valid(h) /\ h.k = "thread"
           THEN IF h.v \in detached THEN Ends("CloseHandle", "ub") /\ Quiet
                ELSE /\ detached' = detached \cup {h.v}
                     /\ Returns("CloseHandle", Nothing, "ok")
                     /\ UNCHANGED <<cf, changes>>
           ELSE IF ~Valid(h) \/ ~IsOpen(h) THEN Ends("CloseHandle", "abort") /\ Quiet
           ELSE /\ Release(h.v)
                /\ Recorded("CloseHandle", fnum[h.v], "ok")
                /\ UNCHANGED <<fsScenario, host, dirs, bufs, fsEnd>>
                /\ Quiet

---------------------------------------------------------------------------
(* CreateFileW. *)
CfIdle == [pc |-> "idle", path |-> "", disp |-> "", read |-> FALSE, write |-> FALSE, backup |-> FALSE,
           round |-> 0, exists |-> FALSE, changed |-> 0, last |-> "none", existed |-> FALSE]
Always == {"CreateAlways", "OpenAlways"}
CfSame == UNCHANGED <<fsScenario, host, file, fnum, dirs, bufs, fsLast, fsEnd, changes, detached>>
(* The call returns INVALID_HANDLE_VALUE. *)
CfFails(err) ==
    /\ cf' = CfIdle
    /\ Returns("CreateFileW", Nothing, err)
    /\ UNCHANGED <<changes, detached>>
CfRetry == cf' = [cf EXCEPT !.pc = "is_dir"] /\ CfSame

CreateFileW(p, disp, rd, wr, backup, reparse, supported) ==
    /\ WinCalls("CreateFileW")
    /\ IF Isolated THEN check_no_isolation("CreateFileW") /\ Quiet
       ELSE IF reparse /\ disp = "CreateAlways" THEN Ends("CreateFileW", "abort") /\ Quiet
       ELSE IF ~supported THEN Ends("CreateFileW", "unsup") /\ Quiet
       ELSE cf' = [CfIdle EXCEPT !.pc = "is_dir", !.path = p, !.disp = disp, !.read = rd, !.write = wr, !.backup = backup]
            /\ CfSame

(* A round begins: is it a directory? *)
CfIsDir ==
    /\ cf.pc = "is_dir"
    /\ IF cf.round >= MaxRetries THEN Ends("CreateFileW", "stuck") /\ cf' = CfIdle /\ UNCHANGED <<changes, detached>>
       ELSE IF IsDir(host, cf.path) /\ ~cf.backup THEN CfFails("ERROR_ACCESS_DENIED")
       ELSE cf' = [cf EXCEPT !.round = @ + 1, !.pc = IF IsDir(host, cf.path) THEN "open_dir" ELSE "exists"] /\ CfSame

(* Dir::open; a success is told apart by the last error. *)
CfReturns(record, existed, last) ==
    /\ CanInsert
    /\ insertNew(record)
    /\ cf' = [CfIdle EXCEPT !.disp = cf.disp, !.existed = existed, !.last = last]
    /\ Recorded("CreateFileW", NewFile, "ok")
    /\ UNCHANGED <<changes, detached>>
CfOpenDir ==
    LET q == Resolve(host, cf.path)
    IN  /\ cf.pc = "open_dir"
        /\ IF Kind(host, q) = "none" THEN CfFails("NotFound")
           ELSE IF Kind(host, q) # "dir" THEN CfRetry
           ELSE /\ CfReturns([NoFile EXCEPT !.kind = "dir", !.ino = host.names[q]], TRUE,
                             IF cf.disp \in Always THEN "ERROR_ALREADY_EXISTS" ELSE "none")
                /\ UNCHANGED host

CfExists ==
    /\ cf.pc = "exists"
    /\ cf' = [cf EXCEPT !.pc = "open", !.exists = Exists(host, cf.path)]
    /\ CfSame

CfOptionsCreate ==
    [NoOptions EXCEPT
        !.read = cf.read \/ (cf.disp = "OpenExisting" /\ ~cf.write),
        !.write = cf.write,
        !.append = cf.disp = "CreateNew" /\ ~cf.write,
        !.create_new = cf.disp = "CreateNew",
        !.create = cf.disp \in Always,
        !.truncate = cf.disp \in {"CreateAlways", "TruncateExisting"}]
CfOptions ==
    [NoOptions EXCEPT
        !.read = cf.read \/ (cf.disp = "OpenExisting" /\ ~cf.write),
        !.write = cf.write,
        !.append = cf.disp = "CreateNew" /\ ~cf.write,
        !.create_new = cf.disp = "CreateNew" \/ (cf.disp \in Always /\ ~cf.exists),
        !.truncate = cf.disp \in {"CreateAlways", "TruncateExisting"}]

(* The errors that tell that the name changed since it was asked about. *)
CfRace(err) ==
    \/ err = "IsADirectory"
    \/ cf.exists /\ err = "NotFound"
    \/ ~cf.exists /\ err = "AlreadyExists"

CfOpen ==
    LET r == HostOpen(host, file, cf.path, CfOptions)
    IN  /\ cf.pc = "open"
        /\ HasRoom
        /\ IF CfRace(r.err) THEN CfRetry
           ELSE IF r.err # "ok" THEN CfFails(r.err)
           ELSE IF r.host.inode[r.ino].kind = "dir" THEN CfRetry
           ELSE /\ host' = r.host
                /\ CfReturns(FileHandle(r, cf.read, cf.write), r.existed,
                             IF cf.disp \in Always /\ cf.exists THEN "ERROR_ALREADY_EXISTS" ELSE "none")

(* Another process of the host creates the name as a file or a directory,  *)
(* or removes it, while a call is in progress.                             *)
HostChanges(p, kind) ==
    /\ Running /\ cf.pc # "idle" /\ p = cf.path
    /\ changes < fsScenario.changes /\ HasRoom
    /\ Kind(host, p) # kind
    /\ host' = IF kind = "none" THEN [host EXCEPT !.names[p] = Nothing] ELSE Make(host, file, p, [NoInode EXCEPT !.kind = kind])
    /\ changes' = changes + 1
    /\ cf' = [cf EXCEPT !.changed = @ + 1]
    /\ UNCHANGED <<fsScenario, file, fnum, dirs, bufs, fsLast, fsEnd, detached>>

---------------------------------------------------------------------------
(* The other calls. *)
NtReadFile(w, len, plain) ==
    /\ WinCalls("NtReadFile")
    /\ IF ~plain /\ Valid(FromPacked(w)) THEN Ends("NtReadFile", "unsup") /\ Quiet
       ELSE OnHandle("NtReadFile", w, LAMBDA n :
                IF IsFile(n) THEN readFile("NtReadFile", n, len)
                ELSE IF file[fnum[n]].kind = "std" THEN readStd("NtReadFile", n) ELSE Ends("NtReadFile", "unsup"))
NtWriteFile(w, len, plain) ==
    /\ WinCalls("NtWriteFile")
    /\ IF ~plain /\ Valid(FromPacked(w)) THEN Ends("NtWriteFile", "unsup") /\ Quiet
       ELSE OnHandle("NtWriteFile", w, LAMBDA n :
                IF IsFile(n) THEN writeFile("NtWriteFile", n, len)
                ELSE IF file[fnum[n]].kind = "std" THEN writeStd("NtWriteFile", n) ELSE Ends("NtWriteFile", "unsup"))

(* A negative position from the start is not representable: the conversion *)
(* to an unsigned number panics.                                           *)
SetFilePointerEx(w, whence, off) ==
    LET h == FromPacked(w)
    IN  /\ WinCalls("SetFilePointerEx")
        /\ IF Valid(h) /\ h.k = "file" /\ ~IsOpen(h) THEN Ends("SetFilePointerEx", "unsup") /\ Quiet
           ELSE OnHandle("SetFilePointerEx", w, LAMBDA n :
                    IF whence = "bad" THEN Ends("SetFilePointerEx", "unsup")
                    ELSE IF whence = "start" /\ off < 0 THEN Ends("SetFilePointerEx", "negative")
                    ELSE IF ~IsFile(n) THEN Ends("SetFilePointerEx", "unsup")
                    ELSE seekFile("SetFilePointerEx", n, whence, off))

GetFileInformationByHandle(w) ==
    /\ WinCalls("GetFileInformationByHandle")
    /\ IF Isolated THEN check_no_isolation("GetFileInformationByHandle") /\ Quiet
       ELSE OnHandle("GetFileInformationByHandle", w, LAMBDA n :
                IF file[fnum[n]].kind = "std" THEN Ends("GetFileInformationByHandle", "unsup")
                ELSE Returns("GetFileInformationByHandle", fnum[n], "ok"))

(* FileEndOfFileInfo sets the length; FileAllocationInfo only ever shortens. *)
SetFileInformationByHandle(w, class, len) ==
    /\ WinCalls("SetFileInformationByHandle")
    /\ IF Isolated THEN check_no_isolation("SetFileInformationByHandle") /\ Quiet
       ELSE OnHandle("SetFileInformationByHandle", w, LAMBDA n :
                IF ~IsFile(n) \/ class = "other" THEN Ends("SetFileInformationByHandle", "unsup")
                ELSE IF len < 0 THEN Ends("SetFileInformationByHandle", "negative")
                ELSE IF class = "FileAllocationInfo" /\ len >= Len(host.inode[file[fnum[n]].ino].data)
                THEN Returns("SetFileInformationByHandle", fnum[n], "ok")
                ELSE Applies("SetFileInformationByHandle", fnum[n], SetLen(host, file, fnum[n], len)))

FlushFileBuffers(w) ==
    /\ WinCalls("FlushFileBuffers")
    /\ OnHandle("FlushFileBuffers", w, LAMBDA n :
            IF ~IsFile(n) THEN Ends("FlushFileBuffers", "unsup")
            ELSE Returns("FlushFileBuffers", fnum[n], IF file[fnum[n]].writable THEN "ok" ELSE "ERROR_ACCESS_DENIED"))

DeleteFileW(p) ==
    /\ WinCalls("DeleteFileW")
    /\ IF Isolated THEN check_no_isolation("DeleteFileW")
       ELSE Applies("DeleteFileW", Nothing, RemoveFile(host, p))
    /\ Quiet

MoveFileExW(p, q, replaceExisting) ==
    /\ WinCalls("MoveFileExW") /\ RenameInBounds(host, p)
    /\ IF ~replaceExisting THEN Ends("MoveFileExW", "unsup")
       ELSE Applies("MoveFileExW", Nothing, Rename(host, p, q))
    /\ Quiet

---------------------------------------------------------------------------
WinInit == cf = CfIdle /\ changes = 0 /\ detached = {}

WindowsFsNext ==
    /\ Running
    /\ \/ CfIsDir \/ CfOpenDir \/ CfExists \/ CfOpen
       \/ \E p \in fsScenario.paths, kind \in {"none", "file", "dir"} : HostChanges(p, kind)
       \/ \E p \in fsScenario.paths, disp \in fsScenario.dispositions, access \in fsScenario.access :
             \E reparse, backup \in fsScenario.flags, supported \in fsScenario.flags \cup {TRUE} :
                CreateFileW(p, disp, "read" \in access, "write" \in access, backup, reparse, supported)
       \/ \E p \in fsScenario.paths : DeleteFileW(p) \/ \E q \in fsScenario.paths, b \in BOOLEAN : MoveFileExW(p, q, b)
       \/ \E which \in 0 .. 3 : GetStdHandle(which)
       \/ \E w \in fsScenario.words :
             \/ CloseHandle(w) \/ GetFileInformationByHandle(w) \/ FlushFileBuffers(w)
             \/ \E a, b \in BOOLEAN : DuplicateHandle(w, a, b)
             \/ \E len \in fsScenario.lengths, b \in BOOLEAN : NtReadFile(w, len, b) \/ NtWriteFile(w, len, b)
             \/ \E whence \in {"start", "current", "end", "bad"}, off \in fsScenario.offsets : SetFilePointerEx(w, whence, off)
             \/ \E class \in {"FileEndOfFileInfo", "FileAllocationInfo", "other"}, len \in fsScenario.offsets :
                   SetFileInformationByHandle(w, class, len)

---------------------------------------------------------------------------
(* A word decodes to the handle it was packed from, no two handles share a *)
(* word, and the invalid handle is all ones.                               *)
Handles == {HNull, HInvalid} \cup {H("pseudo", v) : v \in PseudoValues}
           \cup {H(k, v) : k \in {"thread", "file"}, v \in 0 .. 2^DataBits - 1}
WinHandlesRoundTrip ==
    /\ \A h \in Handles : FromPacked(ToPacked(h)) = h
    /\ \A w \in Word : FromPacked(w) # NoHandle => (ToPacked(FromPacked(w)) = w \/ FromPacked(w) = HInvalid)
    /\ ToPacked(HInvalid) = 2^(DataBits + 3) - 1

(* What CreateFileW tells about an existing file is true of the moment the *)
(* host opened it, though it was asked before and other processes changed  *)
(* the name in between.                                                    *)
WinCreationIsReported ==
    (fsLast.call = "CreateFileW" /\ cf.pc = "idle" /\ cf.disp \in Always)
    => (cf.last = "ERROR_ALREADY_EXISTS") = cf.existed

(* CreateFileW goes round again only when the name changed under it: never *)
(* more rounds than changes, and so it gets stuck only if others keep on   *)
(* changing the name.                                                      *)
WinRetriesAreRaces == cf.pc # "idle" /\ cf.round > 0 => cf.round <= cf.changed + 1
WinRetriesAreRacesNoLink == WinRetriesAreRaces \/ Kind(host, cf.path) = "link"
=============================================================================
