----------------------------- MODULE MCPlatform -----------------------------
(* Instance of Platform for TLC. *)
EXTENDS Platform, TLC

CONSTANTS v1, v2

MCParts == {"blk", "net", "bring-up", "users", "console", "random"}

(* What is written to the disk is never looked at. *)

MCValues == {v1, v2}
Symmetry == Permutations(MCValues)

(* Machines to bring up: four processors, two of them threads of one core. *)

Processor(shift, known, caps, fits, rev) ==
    [shift |-> shift, known |-> known, caps |-> caps, fits |-> fits, sig |-> shift, rev |-> rev]

All == {"SMAP", "LASS", "SMEP"}

Blob == <<[ok |-> TRUE, sig |-> 1, rev |-> 5], [ok |-> TRUE, sig |-> 0, rev |-> 9]>>

MCMachines ==
    {[arch |-> "amd64", bsp |-> 0, ids |-> <<0, 1, 2, 3>>, spin |-> FALSE, args |-> a, mode |-> mode,
      cpu |-> (0 :> Processor(1, TRUE, All, TRUE, 5)) @@ (1 :> Processor(1, TRUE, {"SMEP"}, TRUE, 2)) @@
              (2 :> Processor(1, TRUE, All, TRUE, 2)) @@ (3 :> Processor(0, k, All \ {"LASS"}, f, 2)),
      blob |-> Blob] : a \in {<<>>, <<"off">>}, mode \in {"auto", "auto,nosmt"}, k, f \in BOOLEAN}
    \cup
    {[arch |-> "arm64", bsp |-> 1, ids |-> <<0, 1, 2, 3>>, spin |-> spin, args |-> <<"force", "off">>,
      mode |-> "off",
      cpu |-> (0 :> Processor(1, TRUE, All, TRUE, 5)) @@ (1 :> Processor(1, TRUE, All, TRUE, 2)) @@
              (2 :> Processor(0, TRUE, {"SMEP"}, TRUE, 2)) @@ (3 :> Processor(0, TRUE, All, TRUE, 2)),
      blob |-> <<>>] : spin \in BOOLEAN}

(* Programs side by side, over the backends and modes of the store-bypass policy. *)

A(mode, backend, psfd, set, guards, names) ==
    [arch |-> "amd64", mode |-> mode, backend |-> backend, psfd |-> psfd, set |-> set,
     legacy |-> set # {}, ibpb |-> guards, smap |-> guards, umip |-> guards, erase |-> guards,
     testable |-> FALSE, names |-> names]

Arm(mode, backend, testable, names) ==
    [arch |-> "arm64", mode |-> mode, backend |-> backend, psfd |-> FALSE, set |-> {},
     legacy |-> FALSE, ibpb |-> TRUE, smap |-> TRUE, umip |-> FALSE, erase |-> TRUE,
     testable |-> testable, names |-> names]

MCScenarios ==
    {A("PerTask", "SpecCtrl", TRUE, {"IBRS"}, TRUE, <<"ssb", "time">>),
     A("PerTask", "VirtualSpecCtrl", TRUE, {}, FALSE, <<"ssb", "sidt">>),
     A("On", "SpecCtrl", FALSE, {}, TRUE, <<"ssb", "sidt">>),
     A("Off", "SpecCtrl", FALSE, {}, TRUE, <<"rogue_debug", "rogue_align">>),
     A("Off", "SpecCtrl", FALSE, {}, TRUE, <<"ssb">>),
     A("PerTask", "Unavailable", FALSE, {}, TRUE, <<"ssb">>),
     A("On", "Unavailable", FALSE, {}, TRUE, <<"ac", "rogue_debug_entry">>),
     A("PerTask", "SpecCtrl", FALSE, {"IBRS"}, TRUE, <<"coarse", "spinner">>),
     A("PerTask", "SpecCtrl", FALSE, {}, TRUE, <<"uaccess", "rogue_ptr">>),
     A("PerTask", "SpecCtrl", FALSE, {}, TRUE, <<"rogue_read", "rogue_priv">>),
     A("PerTask", "SpecCtrl", FALSE, {}, TRUE, <<"rogue_peek", "pmu">>),
     A("PerTask", "SpecCtrl", FALSE, {}, TRUE, <<"time", "time_denied">>),
     A("PerTask", "SpecCtrl", FALSE, {}, TRUE, <<"rogue_fp", "rogue_simd", "exit_only">>),
     A("PerTask", "SpecCtrl", FALSE, {}, TRUE, <<"hello", "sysinfo_service_task">>),
     A("PerTask", "SpecCtrl", FALSE, {}, TRUE, <<"echo", "user_check_task">>),
     A("PerTask", "SpecCtrl", FALSE, {}, TRUE, <<"text_service_task", "text_client_task", "ipc_check_task">>),
     Arm("PerTask", "Ssbs", TRUE, <<"ssb", "time">>),
     Arm("PerTask", "Firmware", FALSE, <<"ssb", "spinner">>),
     Arm("Off", "Ssbs", TRUE, <<"ssb", "time_denied">>),
     Arm("On", "Ssbs", TRUE, <<"ssb", "uaccess">>),
     Arm("On", "Firmware", FALSE, <<"ssb", "rogue_ptr">>),
     Arm("PerTask", "Unavailable", FALSE, <<"coarse", "rogue_simd">>),
     Arm("PerTask", "Unavailable", FALSE, <<"rogue_peek", "rogue_read">>),
     Arm("PerTask", "NotAffected", FALSE, <<"hello", "sysinfo_service_task">>),
     Arm("PerTask", "Ssbs", TRUE, <<"echo", "user_check_task">>),
     Arm("PerTask", "Ssbs", FALSE, <<"rogue_priv", "rogue_fp">>),
     Arm("PerTask", "Ssbs", FALSE, <<"exit_only", "pmu">>)}

MCKeys == {"a", "bs", "cr", "lf", "cc", "L", "T"}

MCSamples == {<<>>, <<"w">>, <<"w", "w">>, <<"w", "x">>, <<"0", "w">>}
=============================================================================
