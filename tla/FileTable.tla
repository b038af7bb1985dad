----------------------------- MODULE FileTable -----------------------------
(***************************************************************************)
(* The file descriptors and devices of the Nios II HAL:                    *)
(*   HAL/src/alt_dev.c, alt_dev_llist_insert.c, alt_fs_reg.c   the lists   *)
(*   HAL/src/alt_main.c, alt_io_redirect.c                     start-up    *)
(*   HAL/src/alt_open.c, alt_find_dev.c, alt_find_file.c, alt_get_fd.c,    *)
(*   alt_close.c, alt_release_fd.c, alt_ioctl.c, alt_fd_lock.c, alt_kill.c,*)
(*   alt_fd_unlock.c, alt_fcntl.c, alt_read.c, alt_write.c, alt_lseek.c,   *)
(*   alt_fstat.c, alt_isatty.c                                 the calls   *)
(*                                                                         *)
(* The HAL is single-threaded and interrupts do not touch the table, so    *)
(* each call is one action.  Drivers are external: what a callback answers *)
(* is any of "done" and "failed".  Names are sequences of path components. *)
(***************************************************************************)
EXTENDS Integers, Sequences, SequencesExt, FiniteSets

CONSTANTS Devs,        \* the alt_dev structures of the program
          Filesystems, \* those of them that register as filesystems
          NoDev,       \* the null pointer
          alt_dev_null,
          Callbacks,   \* Callbacks[d]: the callbacks d provides
          Name,        \* Name[d]: d->name, <<>> for a null pointer
          Files,       \* the names a program opens
          ALT_STDIN, ALT_STDOUT, ALT_STDERR,  \* where system.h sends stdio
          ALT_MAX_FD,  \* 32
          Accesses     \* the access modes a program asks for

\* What the constants must be; the modules that are run assume it.
FileAssumption ==
    /\ ALT_MAX_FD \in Nat /\ ALT_MAX_FD > 3
    /\ Filesystems \subseteq Devs
    /\ alt_dev_null \in Devs \ Filesystems /\ NoDev \notin Devs
    /\ Accesses \subseteq {"RDONLY", "WRONLY", "RDWR"}

VARIABLES
    pc,            \* where alt_main is
    alt_dev_list,  \* registered devices, the latest first
    alt_fs_list,   \* registered filesystems, the latest first
    alt_fd_list,   \* alt_fd_list[i]: dev and fd_flags, the access mode apart
    alt_max_fd,    \* the highest descriptor ever allocated
    done,          \* the last call, its descriptor and its answer
    asked          \* history: the access asked for when a descriptor was opened

vars == <<pc, alt_dev_list, alt_fs_list, alt_fd_list, alt_max_fd, done, asked>>
lists == <<alt_dev_list, alt_fs_list>>
table == <<alt_fd_list, alt_max_fd, asked>>

Fd == 0 .. ALT_MAX_FD - 1
Stdio == 0 .. 2
STDIN_FILENO == 0
STDOUT_FILENO == 1
STDERR_FILENO == 2

FdFlags == {"EXCL", "DEV", "APPEND", "NONBLOCK"}
FLAGS_MASK == {"EXCL", "DEV"}
\* The flags fcntl may change.
FCNTL_MASK_All == FdFlags
FCNTL_MASK == {"APPEND", "NONBLOCK"}

Released == [dev |-> NoDev, acc |-> "RDONLY", flags |-> {}]
\* The calls on a descriptor, and what ioctl is called for.
AltCalls == {"close", "ioctl", "fcntl", "read", "write", "lseek", "fstat", "isatty"}
Requests == {"TIOCEXCL", "TIOCNXCL", "other"}
Called == {"none", "alt_dev_reg", "alt_fs_reg", "open", "kill"} \cup AltCalls \cup Requests
Answers == {"none", "done", "failed", "ENODEV", "EMFILE", "EACCES", "EBADFD",
             "ENOTTY", "ENOTSUP", "EINVAL", "ESRCH"}

\* The descriptors the program owns: what it has opened and not closed.
Held == {f \in Fd : asked[f] # "none"}

TypeOK ==
    /\ pc \in {"sys_init", "stdout", "stdin", "stderr", "main", "exited"}
    /\ alt_dev_list \in Seq(Devs)
    /\ alt_fs_list \in Seq(Devs)
    /\ alt_fd_list \in [Fd -> [dev : Devs \cup {NoDev},
                               acc : {"RDONLY", "WRONLY", "RDWR"},
                               flags : SUBSET FdFlags]]
    /\ alt_max_fd \in Fd \cup {-1}
    /\ done.call \in Called /\ done.fd \in Fd \cup {-1} /\ done.answer \in Answers
    /\ asked \in [Fd -> {"none", "RDONLY", "WRONLY", "RDWR"}]

\* Standard input, output and error point to /dev/null until they are redirected.
Init ==
    /\ pc = "sys_init"
    /\ alt_dev_list = <<alt_dev_null>>
    /\ alt_fs_list = <<>>
    /\ alt_fd_list = [f \in Fd |-> IF f \in Stdio
                                   THEN [Released EXCEPT !.dev = alt_dev_null]
                                   ELSE Released]
    /\ alt_max_fd = -1
    /\ done = [call |-> "none", fd |-> -1, answer |-> "none"]
    /\ asked = [f \in Fd |-> "none"]

Answer(call, fd, answer) == done' = [call |-> call, fd |-> fd, answer |-> answer]

-----------------------------------------------------------------------------
(* Registration, by the drivers that alt_sys_init initialises.              *)

\* alt_dev_reg, alt_dev_llist_insert
DevReg(d) ==
    /\ pc = "sys_init"
    /\ d \notin Range(alt_dev_list)
    /\ IF Name[d] = <<>>
       THEN Answer("alt_dev_reg", -1, "EINVAL") /\ UNCHANGED alt_dev_list
       ELSE Answer("alt_dev_reg", -1, "done") /\ alt_dev_list' = <<d>> \o alt_dev_list
    /\ UNCHANGED <<pc, alt_fs_list, table>>

\* alt_fs_reg
FsReg(d) ==
    /\ pc = "sys_init"
    /\ d \notin Range(alt_fs_list)
    /\ IF Name[d] = <<>>
       THEN Answer("alt_fs_reg", -1, "ENODEV") /\ UNCHANGED alt_fs_list
       ELSE Answer("alt_fs_reg", -1, "done") /\ alt_fs_list' = <<d>> \o alt_fs_list
    /\ UNCHANGED <<pc, alt_dev_list, table>>

\* The first device of a list that is wanted.
First(list, wanted) ==
    LET hits == {i \in DOMAIN list : list[i] \in wanted}
    IN IF hits = {} THEN NoDev ELSE list[Min(hits)]

\* alt_find_dev: the whole name.
FindDev(file) == First(alt_dev_list, {d \in Devs : Name[d] = file})

\* alt_find_file: the name of the filesystem, up to a slash or the end.
FindFile(file) == First(alt_fs_list, {d \in Devs : IsPrefix(Name[d], file)})

IsAFs(file) == FindDev(file) = NoDev
Device(file) == IF IsAFs(file) THEN FindFile(file) ELSE FindDev(file)

-----------------------------------------------------------------------------
(* open and close                                                           *)

Free == {f \in Fd : alt_fd_list[f].dev = NoDev}

\* alt_get_fd: the first free descriptor, and the high-water mark it leaves.
NextFd == CHOOSE f \in Free : \A g \in Free : f <= g
MarkWith(f) == IF f > alt_max_fd THEN f ELSE alt_max_fd

\* alt_release_fd: standard input, output and error stay reserved.
Release(list, f) == IF f > 2 THEN [list EXCEPT ![f] = Released] ELSE list

\* alt_file_locked: the device is open somewhere for exclusive access.
AltFileLocked_Never(dev) == FALSE
AltFileLocked(dev) ==
    \E f \in Fd : /\ f <= alt_max_fd
                  /\ alt_fd_list[f].dev = dev
                  /\ "EXCL" \in alt_fd_list[f].flags

\* What open writes into the descriptor: the flags of the caller but for the
\* two that are the HAL's own, and the mark of a device.
Opened(file, acc, flags) ==
    [dev |-> Device(file), acc |-> acc,
     flags |-> (flags \ FLAGS_MASK) \cup (IF IsAFs(file) THEN {} ELSE {"DEV"})]

\* What a driver's callback answers; /dev/null takes everything.
DriverAnswers(dev) == IF dev = alt_dev_null THEN {"done"} ELSE {"done", "failed"}

\* The callback of the driver; a driver without one agrees.
Calls(dev, callback) ==
    IF callback \in Callbacks[dev] THEN DriverAnswers(dev) ELSE {"done"}

\* The ways ALT_OPEN ends.
OpenAnswers(file) ==
    IF Device(file) = NoDev THEN {"ENODEV"}
    ELSE IF Free = {} THEN {"EMFILE"}
    ELSE IF ~IsAFs(file) /\ AltFileLocked(Device(file)) THEN {"EACCES"}
    ELSE Calls(Device(file), "open")

\* A call that got as far as alt_get_fd has moved the high-water mark; one that
\* fails after that gives its descriptor back.
AltOpen_LeaksOnError(file, acc, flags, answer) ==
    IF answer \in {"ENODEV", "EMFILE"}
    THEN UNCHANGED <<alt_fd_list, alt_max_fd>>
    ELSE /\ alt_max_fd' = MarkWith(NextFd)
         /\ alt_fd_list' = [alt_fd_list EXCEPT ![NextFd] = Opened(file, acc, flags)]
AltOpen(file, acc, flags, answer) ==
    IF answer \in {"ENODEV", "EMFILE"}
    THEN UNCHANGED <<alt_fd_list, alt_max_fd>>
    ELSE LET taken == [alt_fd_list EXCEPT ![NextFd] = Opened(file, acc, flags)]
         IN /\ alt_max_fd' = MarkWith(NextFd)
            /\ alt_fd_list' = IF answer = "done" THEN taken ELSE Release(taken, NextFd)

Open(file, acc, flags) ==
    /\ pc = "main"
    /\ \E answer \in OpenAnswers(file) :
         /\ AltOpen(file, acc, flags, answer)
         /\ IF answer = "done"
            THEN Answer("open", NextFd, "done") /\ asked' = [asked EXCEPT ![NextFd] = acc]
            ELSE Answer("open", -1, answer) /\ UNCHANGED asked
    /\ UNCHANGED <<pc, lists>>

\* The descriptors a call may be given: an open one, or the -1 of a failed open.
Usable == Held \cup Stdio
BadFd(call) ==
    /\ pc = "main"
    /\ Answer(call, -1, "EBADFD")
    /\ UNCHANGED <<pc, lists, table>>

\* ALT_CLOSE: the descriptor is free again whatever the driver answers.
AltClose(f, answer) == alt_fd_list' = Release(alt_fd_list, f)

Close(f) ==
    /\ pc = "main"
    /\ \E answer \in Calls(alt_fd_list[f].dev, "close") :
          AltClose(f, answer) /\ Answer("close", f, answer)
    /\ asked' = [asked EXCEPT ![f] = "none"]
    /\ UNCHANGED <<pc, lists, alt_max_fd>>

-----------------------------------------------------------------------------
(* The calls on an open descriptor                                          *)

\* alt_fd_lock: refused if another descriptor below the mark is on the device.
\* Its loop stops short of alt_max_fd itself.
LockRefused(f) ==
    \E g \in Fd \ {f} : g < alt_max_fd /\ alt_fd_list[g].dev = alt_fd_list[f].dev

Lock(f) ==
    IF LockRefused(f)
    THEN Answer("TIOCEXCL", f, "EACCES") /\ UNCHANGED alt_fd_list
    ELSE /\ Answer("TIOCEXCL", f, "done")
         /\ alt_fd_list' = [alt_fd_list EXCEPT ![f].flags = @ \cup {"EXCL"}]

\* alt_fd_unlock
Unlock(f) ==
    /\ Answer("TIOCNXCL", f, "done")
    /\ alt_fd_list' = [alt_fd_list EXCEPT ![f].flags = @ \ {"EXCL"}]

DriverIoctl(f, req) ==
    /\ \E answer \in (IF "ioctl" \in Callbacks[alt_fd_list[f].dev]
                      THEN DriverAnswers(alt_fd_list[f].dev) ELSE {"ENOTTY"}) : Answer(req, f, answer)
    /\ UNCHANGED alt_fd_list

\* ALT_IOCTL: the two requests about exclusive access are the HAL's own, for a
\* device; for a filesystem they go to the driver like any other.
Ioctl(f, req) ==
    /\ pc = "main"
    /\ LET own == "DEV" \in alt_fd_list[f].flags IN
          \/ own /\ req = "TIOCEXCL" /\ Lock(f)
          \/ own /\ req = "TIOCNXCL" /\ Unlock(f)
          \/ ~(own /\ req \in {"TIOCEXCL", "TIOCNXCL"}) /\ DriverIoctl(f, req)
    /\ UNCHANGED <<pc, lists, alt_max_fd, asked>>

\* ALT_FCNTL, F_SETFL.  (F_GETFL changes nothing.)
SetFl(f, flags) ==
    /\ pc = "main"
    /\ Answer("fcntl", f, "done")
    /\ alt_fd_list' = [alt_fd_list EXCEPT ![f].flags =
                          (@ \ FCNTL_MASK) \cup (flags \cap FCNTL_MASK)]
    /\ UNCHANGED <<pc, lists, alt_max_fd, asked>>

\* ALT_READ and ALT_WRITE go to the driver if the access mode allows it.
MayRead(f) == alt_fd_list[f].acc # "WRONLY"
MayWrite(f) == alt_fd_list[f].acc # "RDONLY"

Transfer(call, f, may) ==
    /\ pc = "main"
    /\ \E answer \in (IF may /\ call \in Callbacks[alt_fd_list[f].dev]
                      THEN DriverAnswers(alt_fd_list[f].dev) ELSE {"EACCES"}) : Answer(call, f, answer)
    /\ UNCHANGED <<pc, lists, table>>

Read(f) == Transfer("read", f, MayRead(f))
Write(f) == Transfer("write", f, MayWrite(f))

\* ALT_LSEEK
Lseek(f) ==
    /\ pc = "main"
    /\ \E answer \in (IF "lseek" \in Callbacks[alt_fd_list[f].dev]
                      THEN DriverAnswers(alt_fd_list[f].dev) ELSE {"ENOTSUP"}) : Answer("lseek", f, answer)
    /\ UNCHANGED <<pc, lists, table>>

\* ALT_FSTAT: without a callback the descriptor is a character device.
Fstat(f) ==
    /\ pc = "main"
    /\ \E answer \in Calls(alt_fd_list[f].dev, "fstat") : Answer("fstat", f, answer)
    /\ UNCHANGED <<pc, lists, table>>

\* ALT_ISATTY: yes without a callback.  With one the answer is what fstat filled
\* in; if it failed it filled in nothing, and the answer is any.
Isatty(f) ==
    /\ pc = "main"
    /\ \E answer \in Calls(alt_fd_list[f].dev, "fstat") : Answer("isatty", f, answer)
    /\ UNCHANGED <<pc, lists, table>>

-----------------------------------------------------------------------------
(* alt_main                                                                 *)

SysInitDone ==
    /\ pc = "sys_init"
    /\ pc' = "stdout"
    /\ UNCHANGED <<lists, table, done>>

\* alt_open_fd: open a second descriptor, copy it over the first, give it back.
\* If it cannot be opened the first stays as it was.
AltOpenFd(f, file, acc) ==
    \E answer \in OpenAnswers(file) :
       /\ alt_max_fd' = IF answer \in {"ENODEV", "EMFILE"} THEN alt_max_fd ELSE MarkWith(NextFd)
       /\ alt_fd_list' = IF answer = "done"
                         THEN [alt_fd_list EXCEPT ![f] = Opened(file, acc, {})]
                         ELSE alt_fd_list

Redirect(from, f, file, acc, to) ==
    /\ pc = from
    /\ AltOpenFd(f, file, acc)
    /\ pc' = to
    /\ UNCHANGED <<lists, done, asked>>

\* alt_io_redirect
AltIoRedirect ==
    \/ Redirect("stdout", STDOUT_FILENO, ALT_STDOUT, "WRONLY", "stdin")
    \/ Redirect("stdin", STDIN_FILENO, ALT_STDIN, "RDONLY", "stderr")
    \/ Redirect("stderr", STDERR_FILENO, ALT_STDERR, "WRONLY", "main")

\* main returns: alt_main closes standard output and calls exit.
MainReturns ==
    /\ pc = "main"
    /\ \E answer \in Calls(alt_fd_list[STDOUT_FILENO].dev, "close") :
          AltClose(STDOUT_FILENO, answer) /\ Answer("close", STDOUT_FILENO, answer)
    /\ pc' = "exited"
    /\ UNCHANGED <<lists, alt_max_fd, asked>>

\* ALT_KILL: a signal that ends a program ends this one at once, with standard
\* output left open; the null signal and those ignored by default do nothing.
Kill(pid, signal) ==
    /\ pc = "main"
    /\ Answer("kill", -1, CASE pid = "other"            -> "ESRCH"
                            [] signal = "unsupported"   -> "EINVAL"
                            [] OTHER                    -> "done")
    /\ pc' = IF pid = "self" /\ signal = "fatal" THEN "exited" ELSE pc
    /\ UNCHANGED <<lists, table>>

\* ALT_EXIT spins for ever.
Exited == pc = "exited" /\ UNCHANGED vars

Signals == {"null", "fatal", "ignored", "unsupported"}

Call ==
    \/ \E file \in Files, acc \in Accesses, flags \in SUBSET {"NONBLOCK", "EXCL"} :
          Open(file, acc, flags)
    \/ \E call \in AltCalls : BadFd(call)
    \/ \E pid \in {"self", "other"}, signal \in Signals : Kill(pid, signal)
    \/ \E f \in Usable :
          \/ Close(f)
          \/ \E req \in Requests : Ioctl(f, req)
          \/ \E flags \in SUBSET {"NONBLOCK", "EXCL"} : SetFl(f, flags)
          \/ Read(f)
          \/ Write(f)
          \/ Lseek(f)
          \/ Fstat(f)
          \/ Isatty(f)

Next ==
    \/ \E d \in Devs \ Filesystems : DevReg(d)
    \/ \E d \in Filesystems : FsReg(d)
    \/ SysInitDone
    \/ AltIoRedirect
    \/ Call
    \/ MainReturns
    \/ Exited

Spec == Init /\ [][Next]_vars

-----------------------------------------------------------------------------
(* Properties                                                               *)

\* Whatever opens and closes, successful or refused, went before: outside
\* standard input, output and error a descriptor is taken exactly when the
\* program has it, so none leaks and none is handed out twice; a free one keeps
\* nothing of its last use; and the mark that bounds the searches for a lock
\* lies at or above every descriptor the program has.
TableSound ==
    /\ TypeOK
    /\ \A f \in Fd \ Stdio :
          IF f \in Held THEN alt_fd_list[f].dev # NoDev /\ f <= alt_max_fd
                        ELSE alt_fd_list[f] = Released
    /\ \A f \in Stdio : alt_fd_list[f].dev # NoDev

\* While a descriptor holds a device for exclusive access, no other descriptor
\* comes to be open on that device (alt_fd_lock.c: "Further calls to open() for
\* this device will fail until the lock is released").
LockHolds ==
    [][\A f, g \in Fd :
          /\ f # g
          /\ "EXCL" \in alt_fd_list[f].flags
          /\ "EXCL" \in alt_fd_list'[f].flags
          /\ alt_fd_list'[g].dev = alt_fd_list[f].dev
          => alt_fd_list[g].dev = alt_fd_list[f].dev]_vars

\* No sequence of fcntl, ioctl and open changes what a descriptor was opened
\* for: it is read or written by its driver only if that was asked for, and the
\* lock of a device is set and cleared by the two requests for it alone.
AccessAsOpened ==
    [][/\ done'.call = "read" /\ done'.answer \in {"done", "failed"} /\ done'.fd \in Held
             => asked[done'.fd] \in {"RDONLY", "RDWR"}
       /\ done'.call = "write" /\ done'.answer \in {"done", "failed"} /\ done'.fd \in Held
             => asked[done'.fd] \in {"WRONLY", "RDWR"}
       /\ \A f \in Held \cup Held' :
             ("EXCL" \in alt_fd_list'[f].flags) # ("EXCL" \in alt_fd_list[f].flags)
                => done'.fd = f /\ done'.call \in {"TIOCEXCL", "TIOCNXCL", "close"}]_vars

\* alt_fd_lock.c:43 has it that the lock is granted if there are no other open
\* descriptors which reference the device: a device that has just been locked
\* has one user.
LockIsExclusive ==
    [][\A f, g \in Fd :
          /\ f # g
          /\ "EXCL" \notin alt_fd_list[f].flags
          /\ "EXCL" \in alt_fd_list'[f].flags
          => alt_fd_list[g].dev # alt_fd_list[f].dev]_vars
=============================================================================
