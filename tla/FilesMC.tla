------------------------------ MODULE FilesMC ------------------------------
(***************************************************************************)
(* What a program does through the shims of its target: file calls,        *)
(* environment variables, allocation functions, and the conversion of the  *)
(* paths they take.  A behaviour is about one of these parts; for files    *)
(* and variables it is about one scenario: what is on the host at the      *)
(* start, and the calls the program makes, in any order.                   *)
(***************************************************************************)
EXTENDS UnixFs, WindowsFs, EnvVars, OsStr, HeapShims

MCPath == {"a", "b", "d", "x"}
MCParentOf == [a |-> "", b |-> "", d |-> "", x |-> "d"]

Empty == [names |-> [p \in MCPath |-> 0], inode |-> [i \in 1 .. MaxInode |-> NoInode]]
OneFile == [Empty EXCEPT !.names["a"] = 1, !.inode[1] = [NewRegular EXCEPT !.data = <<1>>]]
WithDir == [OneFile EXCEPT !.names["d"] = 2, !.names["x"] = 3, !.inode[2].kind = "dir", !.inode[3] = NewRegular]
Opens(access, flags) == {[access |-> a, flags |-> f] : a \in access, f \in flags}

Base == [target |-> "unix", isolated |-> FALSE, hostErrors |-> FALSE, host |-> OneFile, calls |-> {}, opens |-> {},
         paths |-> {"a"}, offsets |-> {-1, 1}, lengths |-> {2}, flags |-> {FALSE}, threads |-> 0,
         dispositions |-> {}, numbers |-> 3, changes |-> 0, access |-> {}, words |-> {}, std |-> TRUE]

Transfer == [Base EXCEPT !.calls = {"open", "close", "dup", "read", "write", "pread", "pwrite", "lseek"},
                         !.opens = Opens({"r"}, {{}}) \cup Opens({"rw"}, {{}}), !.std = FALSE, !.numbers = 2]
Lengths == [Base EXCEPT !.calls = {"open", "close", "ftruncate", "posix_fallocate", "fallocate", "fsync"},
                        !.opens = Opens({"r", "w"}, {{"append"}, {"trunc", "creat"}}),
                        !.offsets = {-1, 0, 1}, !.std = FALSE]
Locks == [Base EXCEPT !.host = WithDir, !.calls = {"open", "close", "dup", "flock", "pread"}, !.paths = {"a", "d"}, !.opens = Opens({"r"}, {{}})]
Names == [Base EXCEPT !.calls = {"open", "unlink", "rename", "linkat", "symlink", "mkdir", "rmdir", "stat", "statx", "readlink", "realpath", "mkstemp"},
                      !.opens = Opens({"rw"}, {{"creat", "excl"}, {"excl"}, {"creat", "tmpfile"}, {"nofollow", "cloexec"}}),
                      !.paths = {"a", "b"}]
Modes == [Base EXCEPT !.calls = {"open", "chmod", "unlink", "futimens", "isatty"}, !.opens = Opens({"r"}, {{}}), !.numbers = 2]
Streams == [Base EXCEPT !.host = WithDir, !.hostErrors = TRUE, !.paths = {"d", "x"},
                        !.calls = {"opendir", "readdir", "readdir_r", "closedir", "unlink", "open"},
                        !.opens = Opens({"w"}, {{"creat"}})]
UnixCalls == {"open", "close", "dup", "read", "write", "pread", "pwrite", "lseek", "flock", "ftruncate", "posix_fallocate",
              "fallocate", "fsync", "chmod", "futimens", "unlink", "rmdir", "mkdir", "symlink", "rename", "linkat", "stat",
              "statx", "readlink", "realpath", "isatty", "mkstemp", "opendir", "readdir", "readdir_r", "closedir"}
UnixIsolated == [Base EXCEPT !.isolated = TRUE, !.calls = UnixCalls, !.opens = Opens({"r", "rw"}, {{}, {"creat"}, {"trunc"}})]

Disposition == {"CreateAlways", "CreateNew", "OpenAlways", "OpenExisting", "TruncateExisting"}
Win == [Base EXCEPT !.target = "windows", !.dispositions = Disposition, !.access = SUBSET {"read", "write"}]
Creation == [Win EXCEPT !.calls = {"CreateFileW", "DeleteFileW"}, !.flags = BOOLEAN, !.numbers = 2, !.changes = 2]
Handling == [Win EXCEPT !.calls = {"CreateFileW", "CloseHandle", "DuplicateHandle", "NtReadFile", "NtWriteFile", "SetFilePointerEx",
                                   "GetFileInformationByHandle", "SetFileInformationByHandle", "FlushFileBuffers", "MoveFileExW", "GetStdHandle"},
                        !.threads = 1, !.dispositions = {"OpenExisting"}, !.lengths = {1}, !.words = Word,
                        !.access = {{"read"}, {"read", "write"}}, !.numbers = 2, !.std = FALSE]
WinIsolated == [Win EXCEPT !.isolated = TRUE,
                           !.calls = {"CreateFileW", "DeleteFileW", "CloseHandle", "NtReadFile", "NtWriteFile", "GetFileInformationByHandle",
                                      "SetFileInformationByHandle", "MoveFileExW"}, !.words = Word, !.paths = {"a", "b"}]

Scenarios == {Transfer, Lengths, Locks, Names, Modes, Streams, UnixIsolated, Creation, Handling, WinIsolated}

(* Handles are only packed in one scenario. *)
HandlesRoundTrip == fsScenario.threads > 0 => WinHandlesRoundTrip

EnvBase == [os |-> "gnu", isolated |-> FALSE, host |-> [n \in {"A"} |-> 1], forwarded |-> {}, set |-> <<>>,
            calls |-> {"vars"}, allocs |-> EnvMaxAlloc]
EnvIsolated == [EnvBase EXCEPT !.isolated = TRUE, !.forwarded = {"A"}, !.host = [n \in {"A", "B"} |-> 1], !.set = [n \in {"C"} |-> 2],
                               !.calls = {"vars", "host"}, !.allocs = 5]
MCEnvScenarios ==
    {EnvBase, [EnvBase EXCEPT !.calls = {"vars", "machine"}, !.allocs = 6], [EnvBase EXCEPT !.os = "windows", !.allocs = 1], EnvIsolated, [EnvIsolated EXCEPT !.os = "windows", !.calls = {"host"}]}
    \cup {[EnvBase EXCEPT !.os = os, !.calls = {"hostname", "host"}] : os \in {"gnu", "musl", "android", "macos", "freebsd"}}
    \cup {[EnvBase EXCEPT !.os = "windows", !.calls = {"host"}]}

CONSTANT Parts        \* what behaviours are about: files, env, paths, heap
VARIABLE part
filesMCVars == <<part, winVars, envVars, osVars, heapVars>>

(* The parts a behaviour is not about stay in one initial state. *)
FilesInit ==
    /\ part \in Parts /\ FsInit /\ WinInit /\ EnvInit /\ OsInit /\ HeapInit
    /\ part # "files" => fsScenario = CHOOSE s \in FsScenarios : TRUE
    /\ part # "env" => env = CHOOSE s \in EnvScenarios : TRUE
    /\ part # "paths" => path = <<>> /\ side = "unix"

FileStep ==
    \/ fsScenario.target = "unix" /\ UnixFsNext /\ Quiet
    \/ fsScenario.target = "windows" /\ WindowsFsNext

FilesNext ==
    \/ part = "files" /\ FileStep /\ UNCHANGED <<part, envVars, osVars, heapVars>>
    \/ part = "env" /\ EnvNext /\ UNCHANGED <<part, winVars, osVars, heapVars>>
    \/ part = "paths" /\ ConvertPath /\ UNCHANGED <<part, winVars, envVars, heapVars>>
    \/ part = "heap" /\ HeapNext /\ UNCHANGED <<part, winVars, envVars, osVars>>

FilesSpec == FilesInit /\ [][FilesNext]_filesMCVars

(* The file calls of both targets: assertions, directory entries, handles, *)
(* and CreateFileW against changes by other processes.                     *)
FileCallsSound ==
    /\ FsAssertionsHold /\ FsEntriesOwned
    /\ HandlesRoundTrip /\ WinCreationIsReported /\ WinRetriesAreRacesNoLink

(* What a file call may do: bytes change only under the right to write,    *)
(* cursors only by the calls that move them, and in isolation nothing on   *)
(* the host but by MoveFileExW, which does not ask.                        *)
FileStepsSound == FsWritesNeedTheRight /\ FsCursorsStay /\ FsIsolatedFromHost

(* Environment, paths and allocation functions: the lists are the map,     *)
(* paths come back, allocations are what was promised.                     *)
ShimsSound ==
    /\ EnvironListsTheMap /\ OnlyTheProgramBreaksEnviron /\ RetriesAreChanges /\ IsolatedFromHostEnv /\ HostnameTerminated
    /\ PathComesBack /\ PathStaysAbsolute
    /\ AllocationsAsPromised /\ ZeroedIsInitialized /\ RulesSuffice
=============================================================================
