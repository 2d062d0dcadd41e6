-------------------------------- MODULE Spawn --------------------------------
(***************************************************************************)
(* posix_spawn(), unistd/spawn.c: everything that allocates is done before *)
(* vfork(); the child runs in the caller's memory, with the caller         *)
(* suspended, makes system calls only, and says in `err' of the shared     *)
(* context why it did not get to exec.                                     *)
(*                                                                         *)
(* The file actions are built by calls that may run out of memory.  The    *)
(* child may be sent signals at any time, one of which, Kill, cannot be    *)
(* blocked.  What the kernel does with descriptors, signals and processes  *)
(* is modelled as far as the code relies on it.  A program is found by     *)
(* name; what is in its file says whether it is a script.                  *)
(***************************************************************************)
EXTENDS Integers, Sequences, FiniteSets

CONSTANTS
    Fd,          \* descriptors a process may have, 0 .. n
    Inherited,   \* the caller's descriptors: a function to [file, cloexec]
    Files,       \* files that can be opened
    NoFile,      \* a name without a file
    Disposition, \* of the caller's signals: "default", "ignored" or "caught"
    Kill,        \* the signal that cannot be blocked or caught
    Masks,       \* signal masks a caller may have
    Requests,    \* what may be asked for: the program [places, kind, argv] and the
                 \* attributes [flags, sigdefault, sigmask]
    FirstSize,   \* room for actions in the first allocation
    MaxActions,  \* bound on actions
    MaxSent      \* bound on signals sent to the child

ASSUME SpawnAssumption ==
    /\ Fd \subseteq Nat /\ FirstSize \in Nat
    /\ DOMAIN Inherited \subseteq Fd
    /\ Inherited \in [DOMAIN Inherited ->
                        [file : {Inherited[fd].file : fd \in DOMAIN Inherited}, cloexec : BOOLEAN]]
    /\ Disposition \in [DOMAIN Disposition -> {"default", "ignored", "caught"}]
    /\ Kill \in DOMAIN Disposition => Disposition[Kill] = "default"

VARIABLES
    fa,     \* posix_spawn_file_actions_t: [size, actions], used is the length of actions
    heap,   \* blocks held: the object's and the call's
    table,  \* the caller's descriptors
    mask,   \* the caller's signal mask
    call,   \* the spawn_common() in progress
    proc    \* the child

spawnVars == <<fa, heap, table, mask, call, proc>>

Signal == DOMAIN Disposition

-----------------------------------------------------------------------------
(* Descriptors, as the kernel keeps them *)

Without(t, fd) == [x \in DOMAIN t \ {fd} |-> t[x]]
Put(t, fd, file) ==
    [x \in DOMAIN t \cup {fd} |-> IF x = fd THEN [file |-> file, cloexec |-> FALSE] ELSE t[x]]
Free(t) == Fd \ DOMAIN t
Lowest(fds) == CHOOSE fd \in fds : \A other \in fds : fd <= other
Dup2(t, fd, newfd) == IF fd = newfd THEN t ELSE Put(t, newfd, t[fd].file)

CloseAction(fd) == [type |-> "close", fd |-> fd, newfd |-> fd, path |-> NoFile]
DupAction(fd, newfd) == [type |-> "dup2", fd |-> fd, newfd |-> newfd, path |-> NoFile]
OpenAction(fd, path) == [type |-> "open", fd |-> fd, newfd |-> fd, path |-> path]

-----------------------------------------------------------------------------
(* The object of file actions *)

Block(what, i) == [what |-> what, i |-> i]

\* spawn_addAction(): room for one more, or no memory
HasRoom(f) == Len(f.actions) < f.size
WithRoom(f) ==
    IF HasRoom(f) THEN f ELSE [f EXCEPT !.size = IF @ = 0 THEN FirstSize ELSE 2 * @]
Added(f, act) == [WithRoom(f) EXCEPT !.actions = Append(@, act)]

Add(act) ==
    /\ call.at = "none" /\ Len(fa.actions) < MaxActions
    /\ fa' = Added(fa, act)
    /\ heap' = heap \cup {Block("actions", 0)}
                    \cup (IF act.type = "open" THEN {Block("name", Len(fa'.actions))} ELSE {})
    /\ UNCHANGED <<table, mask, call, proc>>

AddOpen == \E fd \in Fd, path \in Files \cup {NoFile} : Add(OpenAction(fd, path))
AddClose == \E fd \in Fd : Add(CloseAction(fd))
AddDup2 == \E fd, newfd \in Fd : Add(DupAction(fd, newfd))

\* posix_spawn_file_actions_addopen() has copied the name and finds no room for the action
AddFails ==
    /\ call.at = "none" /\ ~HasRoom(fa)
    /\ heap' = heap
    /\ UNCHANGED <<fa, table, mask, call, proc>>

Destroy ==
    /\ call.at = "returned"
    /\ heap' = heap \ ({Block("actions", 0)} \cup {Block("name", i) : i \in DOMAIN fa.actions})
    /\ fa' = [size |-> 0, actions |-> <<>>]
    /\ call' = [call EXCEPT !.at = "destroyed"]
    /\ UNCHANGED <<table, mask, proc>>

-----------------------------------------------------------------------------
(* The caller, up to vfork() *)

NoCall == [at |-> "none"]
NoProc == [at |-> "none"]

\* posix_spawn() and posix_spawnp()
Begin ==
    /\ call.at = "none"
    /\ \E request \in Requests :
        call' = [at |-> "find", program |-> request.program, attr |-> request.attr,
                 was |-> mask, fd |-> 0, path |-> 0, argv |-> request.program.argv,
                 old |-> {}, ret |-> "ok", err |-> "ok"]
    /\ UNCHANGED <<fa, heap, table, mask, proc>>

Fail(err) == call' = [call EXCEPT !.at = "cleanup", !.ret = err]
NoMemory == Fail("ENOMEM") /\ UNCHANGED heap

\* spawn_findFile(): the first regular file among the places of the search
FindFile ==
    /\ call.at = "find"
    /\ LET places == call.program.places
           regular == {i \in DOMAIN places : places[i] = "regular"}
       IN  \/ /\ regular # {}
              /\ call' = [call EXCEPT !.at = "shebang", !.path = Lowest(regular)]
              /\ heap' = heap \cup {Block("exe", 0)}
           \/ /\ regular = {}
              /\ Fail(IF \E i \in DOMAIN places : places[i] = "other" THEN "EACCES" ELSE "ENOENT")
              /\ UNCHANGED heap
           \/ NoMemory
    /\ UNCHANGED <<fa, table, mask, proc>>

\* spawn_shebang(): open() and malloc(), read() and close()
OpenScript ==
    /\ call.at = "shebang"
    /\ \/ /\ Free(table) # {}
          /\ \/ /\ table' = Put(table, Lowest(Free(table)), "script")
                /\ heap' = heap \cup {Block("line", 0)}
                /\ call' = [call EXCEPT !.at = "read", !.fd = Lowest(Free(table))]
             \/ NoMemory /\ UNCHANGED table
       \/ Fail("EACCES") /\ UNCHANGED <<heap, table>>
    /\ UNCHANGED <<fa, mask, proc>>

\* The line is kept as long as the arguments that point into it
ScriptArgv(program, path) ==
    <<"interp">> \o (IF program.kind = "with argument" THEN <<"argument">> ELSE <<>>)
                 \o <<path>> \o SubSeq(program.argv, 2, Len(program.argv))

ReadScript ==
    /\ call.at = "read"
    /\ LET kind == call.program.kind
           rest == heap \ {Block("line", 0)}
       IN  \/ /\ kind = "binary"
              /\ call' = [call EXCEPT !.at = "canonical"] /\ heap' = rest
           \/ /\ kind = "no interpreter"
              /\ Fail("ENOEXEC") /\ heap' = rest
           \/ /\ kind \in {"script", "with argument"}
              /\ \/ /\ call' = [call EXCEPT !.at = "canonical", !.path = 0,
                                              !.argv = ScriptArgv(call.program, call.path)]
                    /\ heap' = heap \cup {Block("argv", 0)}
                 \/ Fail("ENOMEM") /\ heap' = rest
    /\ table' = Without(table, call.fd)
    /\ UNCHANGED <<fa, mask, proc>>

\* spawn_canonicalExec(): the file is there and regular, or the spawn fails
Canonical ==
    /\ call.at = "canonical"
    /\ \/ /\ call' = [call EXCEPT !.at = "opens"]
          /\ heap' = heap \cup {Block("canonical", 0)}
       \/ Fail("EACCES") /\ UNCHANGED heap
    /\ UNCHANGED <<fa, table, mask, proc>>

\* spawn_prepareOpens(): all names are resolved, or none is kept
PrepareOpens ==
    /\ call.at = "opens"
    /\ LET opens == {i \in DOMAIN fa.actions : fa.actions[i].type = "open"}
       IN  \/ /\ call' = [call EXCEPT !.at = "block"]
              /\ heap' = IF fa.actions = <<>> THEN heap
                         ELSE heap \cup {Block("paths", 0)} \cup {Block("path", i) : i \in opens}
           \/ fa.actions # <<>> /\ NoMemory
           \/ opens # {} /\ Fail("EISDIR") /\ UNCHANGED heap
    /\ UNCHANGED <<fa, table, mask, proc>>

\* No signal may reach the child before it has reset the handlers
MaskSignals ==
    /\ call.at = "block"
    /\ mask' = Signal
    /\ call' = [call EXCEPT !.at = "fork", !.old = mask]
    /\ UNCHANGED <<fa, heap, table, proc>>

ExecMask == IF "setsigmask" \in call.attr.flags THEN call.attr.sigmask ELSE call.old

Vfork ==
    /\ call.at = "fork"
    /\ \/ /\ proc' = [at |-> "reset", i |-> 1, err |-> "ok", mask |-> mask, fds |-> table,
                      handlers |-> Disposition, done |-> {}, pending |-> {}, sent |-> 0,
                      haunted |-> FALSE, reaped |-> FALSE]
          /\ call' = [call EXCEPT !.at = "suspended"]
       \/ /\ call' = [call EXCEPT !.at = "restore", !.ret = "EAGAIN"]
          /\ UNCHANGED proc
    /\ UNCHANGED <<fa, heap, table, mask>>

-----------------------------------------------------------------------------
(* The child *)

InChild(place) == call.at = "suspended" /\ proc.at = place
ChildOnly == UNCHANGED <<fa, heap, table, mask>>

\* The caller's handlers are code in the caller's memory: none may run here
ResetHandlers ==
    /\ InChild("reset")
    /\ proc' = [proc EXCEPT !.at = "attributes", !.handlers =
                 [sig \in Signal |->
                    CASE @[sig] = "caught" -> "default"
                      [] @[sig] = "ignored" /\ "setsigdef" \in call.attr.flags
                                            /\ sig \in call.attr.sigdefault -> "default"
                      [] OTHER -> @[sig]]]
    /\ UNCHANGED call /\ ChildOnly

\* The attributes that take a system call; any of the calls may fail
Demanded(flags) ==
    {step \in {"setsid", "setpgroup", "setscheduler"} : step \in flags}
        \cup (IF "setschedparam" \in flags /\ "setscheduler" \notin flags
              THEN {"setschedparam"} ELSE {})

SetAttributes ==
    /\ InChild("attributes")
    /\ \/ proc' = [proc EXCEPT !.at = "actions", !.done = Demanded(call.attr.flags)]
       \/ \E step \in Demanded(call.attr.flags) : proc' = [proc EXCEPT !.at = "exit", !.err = "EPERM"]
    /\ UNCHANGED call /\ ChildOnly

\* The descriptor of the open is closed even where it is the one asked for
OpenAt_ClosesIt(t, fd, path) ==
    LET Via(new) == Without(Dup2(Put(t, new, path), new, fd), new)
    IN  Via(Lowest(Free(t)))

\* spawn_applyActions(): one action of the list; an open goes through the lowest descriptor
OpenAt(t, fd, path) ==
    LET Via(new) == IF new = fd THEN Put(t, new, path)
                    ELSE Without(Dup2(Put(t, new, path), new, fd), new)
    IN  Via(Lowest(Free(t)))

Applied(t, act) ==
    CASE act.type = "close" -> Without(t, act.fd)
      [] act.type = "dup2" /\ act.fd = act.newfd -> Put(t, act.fd, t[act.fd].file)
      [] act.type = "dup2" /\ act.fd # act.newfd -> Dup2(t, act.fd, act.newfd)
      [] act.type = "open" -> OpenAt(t, act.fd, act.path)

Refused(t, act) ==
    \/ act.type = "dup2" /\ act.fd \notin DOMAIN t
    \/ act.type = "open" /\ (act.path = NoFile \/ Free(t) = {})

ApplyAction ==
    /\ InChild("actions") /\ proc.i \in DOMAIN fa.actions
    /\ LET act == fa.actions[proc.i]
       IN  IF Refused(proc.fds, act)
           THEN proc' = [proc EXCEPT !.at = "exit", !.err = "EBADF"]
           ELSE proc' = [proc EXCEPT !.i = @ + 1, !.fds = Applied(@, act)]
    /\ UNCHANGED call /\ ChildOnly

Unmask ==
    /\ InChild("actions") /\ proc.i \notin DOMAIN fa.actions
    /\ proc' = [proc EXCEPT !.at = "exec", !.mask = ExecMask]
    /\ UNCHANGED call /\ ChildOnly

Exec ==
    /\ InChild("exec")
    /\ \/ proc' = [proc EXCEPT !.at = "image", !.fds = [fd \in {x \in DOMAIN @ : ~@[x].cloexec} |-> @[fd]]]
       \/ proc' = [proc EXCEPT !.at = "exit", !.err = "ENOEXEC"]
    /\ UNCHANGED call /\ ChildOnly

ChildExits ==
    /\ InChild("exit")
    /\ call' = [call EXCEPT !.err = proc.err]
    /\ proc' = [proc EXCEPT !.at = "dead"]
    /\ ChildOnly

\* Somebody sends the child a signal, and the kernel delivers it
Alive == call.at = "suspended" /\ proc.at \notin {"image", "dead"}

Sent(sig) == [proc EXCEPT !.sent = @ + 1, !.pending = @ \cup {sig}]
Send ==
    /\ Alive /\ proc.sent < MaxSent
    /\ \E sig \in Signal : proc' = Sent(sig)
    /\ UNCHANGED call /\ ChildOnly

Received(sig) ==
    LET received == [proc EXCEPT !.pending = @ \ {sig}]
    IN  CASE proc.handlers[sig] = "default" -> [received EXCEPT !.at = "dead"]
          [] proc.handlers[sig] = "ignored" -> received
          [] proc.handlers[sig] = "caught"  -> [received EXCEPT !.haunted = TRUE]
Deliver ==
    /\ Alive
    /\ \E sig \in proc.pending \ (proc.mask \ {Kill}) : proc' = Received(sig)
    /\ UNCHANGED call /\ ChildOnly

-----------------------------------------------------------------------------
(* The caller, from vfork() *)

Resume ==
    /\ call.at = "suspended" /\ proc.at \in {"image", "dead"}
    /\ call' = [call EXCEPT !.at = "restore"]
    /\ UNCHANGED <<fa, heap, table, mask, proc>>

Restore ==
    /\ call.at = "restore"
    /\ mask' = call.old
    /\ call' = IF call.err = "ok" THEN [call EXCEPT !.at = "cleanup"]
               ELSE [call EXCEPT !.at = "wait", !.ret = call.err]
    /\ UNCHANGED <<fa, heap, table, proc>>

\* waitpid() until it is not interrupted; a handler of the caller's may have been faster
Reap ==
    /\ call.at = "wait"
    /\ proc' = [proc EXCEPT !.reaped = TRUE]
    /\ call' = [call EXCEPT !.at = "cleanup"]
    /\ UNCHANGED <<fa, heap, table, mask>>

Cleanup ==
    /\ call.at = "cleanup"
    /\ LET kept == IF Block("argv", 0) \in heap THEN {"argv", "line"} ELSE {}
       IN  heap' = {b \in heap : b.what \notin {"exe", "canonical", "paths", "path"} \cup kept}
    /\ call' = [call EXCEPT !.at = "returned"]
    /\ UNCHANGED <<fa, table, mask, proc>>

-----------------------------------------------------------------------------
SpawnInit ==
    /\ fa = [size |-> 0, actions |-> <<>>] /\ heap = {}
    /\ table = Inherited /\ mask \in Masks
    /\ call = NoCall /\ proc = NoProc

SpawnNext ==
    \/ AddOpen \/ AddClose \/ AddDup2 \/ AddFails \/ Destroy
    \/ Begin \/ FindFile \/ OpenScript \/ ReadScript \/ Canonical \/ PrepareOpens
    \/ MaskSignals \/ Vfork \/ Resume \/ Restore \/ Reap \/ Cleanup
    \/ ResetHandlers \/ SetAttributes \/ ApplyAction \/ Unmask \/ Exec \/ ChildExits
    \/ Send \/ Deliver

SpawnSpec == SpawnInit /\ [][SpawnNext]_spawnVars

-----------------------------------------------------------------------------
(* Properties *)

\* What each descriptor of the new program is, said for one descriptor at a time
Closed == [file |-> NoFile, cloexec |-> TRUE]
Before == [fd \in Fd |-> IF fd \in DOMAIN Inherited THEN Inherited[fd] ELSE Closed]
Changed(was, act) ==
    [fd \in Fd |->
        CASE act.newfd # fd     -> was[fd]
          [] act.type = "close" /\ act.newfd = fd -> Closed
          [] act.type = "open" /\ act.newfd = fd  -> [file |-> act.path, cloexec |-> FALSE]
          [] act.type = "dup2" /\ act.newfd = fd  -> [file |-> was[act.fd].file, cloexec |-> FALSE]]
After[n \in 0..Len(fa.actions)] == IF n = 0 THEN Before ELSE Changed(After[n - 1], fa.actions[n])
Expected ==
    LET last == After[Len(fa.actions)]
    IN  {<<fd, last[fd].file>> : fd \in {x \in Fd : ~last[x].cloexec}}

ImageAsAsked ==
    call.at = "suspended" /\ proc.at = "image" =>
        /\ {<<fd, proc.fds[fd].file>> : fd \in DOMAIN proc.fds} = Expected
        /\ proc.mask = IF "setsigmask" \in call.attr.flags THEN call.attr.sigmask ELSE call.was
        /\ \A sig \in Signal :
             proc.handlers[sig] = "ignored" <=>
                 /\ Disposition[sig] = "ignored"
                 /\ ~("setsigdef" \in call.attr.flags /\ sig \in call.attr.sigdefault)

CallerAsBefore ==
    /\ call.at = "returned" =>
        /\ mask = call.was /\ table = Inherited
        /\ heap = {Block("name", i) : i \in {j \in DOMAIN fa.actions : fa.actions[j].type = "open"}}
                  \cup (IF fa.actions = <<>> THEN {} ELSE {Block("actions", 0)})
        /\ call.ret # "ok" => proc = NoProc \/ (proc.at = "dead" /\ proc.reaped)
        /\ call.ret = "ok" => proc.at = "image" \/ (proc.at = "dead" /\ ~proc.reaped /\ proc.sent > 0)
    /\ call.at = "destroyed" => heap = {}

\* A program starts with the descriptors, the mask and the signals that were asked for; a
\* spawn that fails leaves the caller as it was, without a child and without a leak; and no
\* handler of the caller's runs in the child (spawn.c, top)
SpawnSound ==
    /\ ImageAsAsked /\ CallerAsBefore
    /\ proc # NoProc => ~proc.haunted
=============================================================================
