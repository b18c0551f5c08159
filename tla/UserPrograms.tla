---------------------------- MODULE UserPrograms ----------------------------
(***************************************************************************)
(* The programs the kernel starts at boot: the user programs of            *)
(* arch/*/user_programs.rs and the kernel tasks that serve and check them  *)
(* (userspace.rs, ipc/mod.rs).  A program is a sequence of instructions.   *)
(* Register moves and message texts are left out; what stays is the order  *)
(* of system calls, of the instructions the processor may refuse, and of   *)
(* the tests made on results.  Target 0 is the failure exit (ud2, brk, or  *)
(* a failed check of a kernel task).  Names are those of the source; the   *)
(* prefix arm64_ marks the second copy of a program.                       *)
(***************************************************************************)
EXTENDS Integers, Sequences, SequencesExt

CONSTANT Rounds     \* bound: turns of the programs' loops (8, 4 and 5 in the code)

EFAULT == -1
ENOSYS == -2
EINVAL == -3
EOPNOTSUPP == -4
EPERM == -5
Success == 0
InvalidService == 2
InvalidParam == 3
NotFound == 7
Aborted == 9

\* An instruction: a call `no` with argument `a` at task `at`, or a machine instruction
\* `no`; the next one is `to` when the result stands in relation `cmp` to `v`.
Ins(op, no, a, at, cmp, v, to) ==
    [op |-> op, no |-> no, a |-> a, at |-> at, cmp |-> cmp, v |-> v, to |-> to]
Call(no, a) == Ins("sys", no, a, "svc", "never", 0, 0)
CallThen(no, a, cmp, v, to) == Ins("sys", no, a, "svc", cmp, v, to)
Must(no, a, v) == Ins("sys", no, a, "svc", "ne", v, 0)
Then(no, a, to) == Ins("sys", no, a, "svc", "always", 0, to)
Do(no) == Ins("do", no, "", "svc", "never", 0, 0)
OnShutdown(to) == Ins("do", "shutdown", "", "svc", "msg", 0, to)
Request(service) == Ins("sys", "SEND", service, "svc", "reply", 0, 0)
Send(at, service, v) == Ins("sys", "SEND", service, at, "ne", v, 0)
Repeat(body) == FlattenSeq([i \in 1..Rounds |-> body])
Exit == <<Call("EXIT", "")>>

-----------------------------------------------------------------------------
(* User programs *)

hello == <<Call("LOG", "own"), CallThen("LOOKUP", "sysinfo", "le", 0, 5),
           CallThen("SEND", "SYS_INFO", "ne", Success, 5), Call("LOG", "own")>> \o Exit
arm64_hello == hello

echo == <<Call("REGISTER", "uecho"), Call("LOG", "own"), CallThen("RECEIVE", "own", "ne", 0, 3),
          OnShutdown(6), Then("REPLY", "upper", 3), Call("LOG", "own")>> \o Exit
arm64_echo == echo

spinner == Repeat(<<Do("spin"), Call("LOG", "own")>>) \o Exit
arm64_spinner == spinner

rogue_read == <<Call("LOG", "own"), Do("load_foreign"), Call("LOG", "failure")>> \o Exit
arm64_rogue_read == rogue_read

rogue_priv == <<Call("LOG", "own"), Do("privileged"), Call("LOG", "failure")>> \o Exit
arm64_rogue_priv == rogue_priv

rogue_ptr == <<CallThen("LOG", "kernel", "ne", EFAULT, 4), Call("LOG", "own")>> \o Exit \o
             <<Call("LOG", "failure")>> \o Exit
arm64_rogue_ptr == rogue_ptr

exit_only == Exit
arm64_exit_only == Exit

rogue_fp == <<Do("fp"), Do("fail")>>
rogue_simd == <<Do("fp"), Do("fail")>>
arm64_rogue_fp == rogue_fp
arm64_rogue_simd == rogue_simd

time == Repeat(<<Do("counter"), Call("SLEEP", "")>>) \o Exit
arm64_time == Repeat(<<Do("counter"), Do("counter"), Call("SLEEP", "")>>) \o Exit

pmu == <<Do("privileged")>> \o Exit
arm64_pmu == pmu

\* Registers and flags are seeded, must survive a system call, and the clock must move.
coarse == <<Do("seed"), Call("CLOCK", ""), Do("seeded"), Call("LOG", "own"), Call("CLOCK", ""),
            Call("SLEEP", ""), CallThen("CLOCK", "", "le", 0, 0)>> \o Exit
arm64_coarse == coarse

time_denied == <<Call("SLEEP", ""), Do("counter")>> \o Exit
arm64_time_denied == time_denied

rogue_debug == <<Do("set_TF"), Do("nop"), Do("fail")>>
rogue_debug_entry == <<Do("set_TF"), Call("YIELD", ""), Do("nop"), Do("fail")>>
rogue_align == <<Do("set_AC"), Do("misaligned"), Do("fail")>>

uaccess == <<Must("-1", "", ENOSYS), Must("12", "", ENOSYS), Must("LOG", "hole", EFAULT),
             Must("LOG", "straddle", EFAULT)>> \o Exit
arm64_uaccess == uaccess

sidt == <<Do("sidt")>> \o Exit
ac == <<Do("set_AC"), CallThen("GET_TID", "", "le", 0, 0)>> \o Exit

\* The store-bypass control: `arg` is the mode and whether a control exists.
SsbUnsupported == <<Must("SSB", "2", EOPNOTSUPP), Must("SSB", "1", EOPNOTSUPP)>>
SsbClear == <<Must("SSB", "0", 0), Call("SLEEP", ""), Must("SSB", "2", 0)>>

ssb(arg) ==
    <<Must("SSB", "3", EINVAL)>> \o
    (CASE arg.mode = "Off" -> <<Must("SSB", "1", EPERM)>> \o SsbClear
       [] arg.mode = "On" -> <<Must("SSB", "0", EPERM)>> \o
             (IF arg.supported THEN <<Must("SSB", "2", 1)>> ELSE SsbUnsupported)
       [] arg.mode = "PerTask" /\ arg.supported ->
             <<Must("SSB", "2", 1), Must("SSB", "0", 0), Must("SSB", "2", 0), Must("SSB", "1", 0)>> \o
             Repeat(<<Call("SLEEP", ""), Must("SSB", "2", 1)>>)
       [] OTHER -> SsbUnsupported \o SsbClear)
    \o Exit

\* On arm64 the program also reads the SSBS bit it runs with, where it may.
arm64_ssb(arg) ==
    LET Read(bit) == IF arg.testable THEN <<Do(bit)>> ELSE <<>>
    IN <<Must("SSB", "3", EINVAL)>> \o
       (CASE arg.mode = "Off" -> <<Must("SSB", "1", EPERM)>> \o SsbClear \o Read("SSBS_1")
          [] arg.mode = "On" -> <<Must("SSB", "0", EPERM)>> \o
                (IF arg.supported THEN <<Must("SSB", "2", 1)>> \o Read("SSBS_0") ELSE SsbUnsupported)
          [] arg.mode = "PerTask" /\ arg.supported ->
                <<Must("SSB", "2", 1), Must("SSB", "0", 0), Must("SSB", "2", 0)>> \o Read("SSBS_1") \o
                <<Must("SSB", "1", 0)>> \o
                Repeat(<<Call("SLEEP", ""), Must("SSB", "2", 1)>> \o Read("SSBS_0")) \o Read("SSBS_0")
          [] OTHER -> SsbUnsupported \o SsbClear \o Read("SSBS_1"))
       \o Exit

-----------------------------------------------------------------------------
(* Kernel tasks *)

WaitFor(name) == <<CallThen("LOOKUP", name, "gt", 0, 3), Then("SLEEP", "", 1)>>

sysinfo_service_task == <<Call("REGISTER", "sysinfo"), Call("RECEIVE", ""), Then("REPLY", "sysinfo", 2)>>

text_service_task ==
    <<Call("REGISTER", "text"), Call("RECEIVE", ""), OnShutdown(5), Then("REPLY", "text", 2),
      Call("UNREGISTER", "text")>> \o Exit

text_client_task ==
    WaitFor("text") \o Repeat(<<Request("UPPER"), Request("REVERSE")>>) \o <<Call("DONE", "")>> \o Exit

ipc_check_task ==
    <<CallThen("CLIENTS", "", "gt", 0, 3), Then("SLEEP", "", 1),
      CallThen("LOOKUP", "text", "gt", 0, 5), Then("SLEEP", "", 3),
      Send("self", "UPPER", InvalidParam), Send("unknown", "UPPER", NotFound),
      Send("svc", "0x7777", InvalidService), Must("REPLY_SVC", "", InvalidParam),
      Call("CLOCK", ""), Call("SLEEP", ""), CallThen("CLOCK", "", "le", 0, 0),
      Send("svc", "SHUTDOWN", Aborted), Send("svc", "UPPER", NotFound)>> \o Exit

\* The part of user_check_task that talks to uecho.
user_check_task ==
    WaitFor("uecho") \o Repeat(<<Request("UPPER")>>) \o <<Send("svc", "SHUTDOWN", Aborted)>> \o Exit

KernelTasks == {"sysinfo_service_task", "text_service_task", "text_client_task", "ipc_check_task",
                "user_check_task"}

-----------------------------------------------------------------------------
Code(arch, name, arg) ==
    LET For(amd64, arm64) == IF arch = "amd64" THEN amd64 ELSE arm64
    IN CASE name = "hello"             -> For(hello, arm64_hello)
         [] name = "echo"              -> For(echo, arm64_echo)
         [] name = "spinner"           -> For(spinner, arm64_spinner)
         [] name = "rogue_read"        -> For(rogue_read, arm64_rogue_read)
         [] name = "rogue_peek"        -> For(rogue_read, arm64_rogue_read)
         [] name = "rogue_priv"        -> For(rogue_priv, arm64_rogue_priv)
         [] name = "rogue_ptr"         -> For(rogue_ptr, arm64_rogue_ptr)
         [] name = "exit_only"         -> For(exit_only, arm64_exit_only)
         [] name = "rogue_fp"          -> For(rogue_fp, arm64_rogue_fp)
         [] name = "rogue_simd"        -> For(rogue_simd, arm64_rogue_simd)
         [] name = "time"              -> For(time, arm64_time)
         [] name = "pmu"               -> For(pmu, arm64_pmu)
         [] name = "coarse"            -> For(coarse, arm64_coarse)
         [] name = "time_denied"       -> For(time_denied, arm64_time_denied)
         [] name = "uaccess"           -> For(uaccess, arm64_uaccess)
         [] name = "ssb"               -> For(ssb(arg), arm64_ssb(arg))
         [] name = "rogue_debug"       -> rogue_debug
         [] name = "rogue_debug_entry" -> rogue_debug_entry
         [] name = "rogue_align"       -> rogue_align
         [] name = "sidt"              -> sidt
         [] name = "ac"                -> ac
         [] name = "sysinfo_service_task" -> sysinfo_service_task
         [] name = "text_service_task" -> text_service_task
         [] name = "text_client_task"  -> text_client_task
         [] name = "ipc_check_task"    -> ipc_check_task
         [] name = "user_check_task"   -> user_check_task

\* The programs user_check_task expects to find killed by a fault.
Denied == {"rogue_read", "rogue_peek", "rogue_priv", "rogue_fp", "rogue_simd", "time_denied", "pmu",
           "rogue_debug", "rogue_debug_entry", "rogue_align", "sidt"}
=============================================================================
