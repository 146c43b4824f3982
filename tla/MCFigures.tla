----------------------------- MODULE MCFigures -----------------------------
(* An instance of the figures for TLC. *)
EXTENDS Figures

\* Two disks, one of each way to name partitions that the code knows, and a card
\* with the third; a device-mapper node on one partition, a loop device (a file)
\* on another, and a RAID device spread over both.
MCDevice == {"sda", "sda1", "nvme0n1", "nvme0n1p1", "mmcblk0", "mmcblk0p1",
             "dm-0", "loop0", "ram0", "md0"}

MCname ==
  LET Name(prefix, digit, p) == [prefix |-> prefix, digit |-> digit, p |-> p]
  IN  [d \in MCDevice |->
         CASE d = "sda"       -> Name("sd", FALSE, FALSE)
           [] d = "sda1"      -> Name("sd", TRUE, FALSE)
           [] d = "nvme0n1"   -> Name("nvme", TRUE, FALSE)
           [] d = "nvme0n1p1" -> Name("nvme", TRUE, TRUE)
           [] d = "mmcblk0"   -> Name("mmcblk", TRUE, FALSE)
           [] d = "mmcblk0p1" -> Name("mmcblk", TRUE, TRUE)
           [] d = "dm-0"      -> Name("dm-", TRUE, FALSE)
           [] d = "loop0"     -> Name("loop", TRUE, TRUE)
           [] d = "ram0"      -> Name("ram", TRUE, FALSE)
           [] d = "md0"       -> Name("md", TRUE, FALSE)]

MCkind ==
  [d \in MCDevice |->
     CASE d \in {"sda", "nvme0n1", "mmcblk0"}        -> "disk"
       [] d \in {"sda1", "nvme0n1p1", "mmcblk0p1"}   -> "partition"
       [] OTHER                                      -> "other"]

MCunder ==
  [d \in MCDevice |->
     CASE d = "sda1"      -> {"sda1", "sda"}
       [] d = "nvme0n1p1" -> {"nvme0n1p1", "nvme0n1"}
       [] d = "mmcblk0p1" -> {"mmcblk0p1", "mmcblk0"}
       [] d = "dm-0"      -> {"dm-0", "sda1", "sda"}
       [] d = "loop0"     -> {"loop0", "nvme0n1p1", "nvme0n1"}
       [] d = "md0"       -> {"md0", "sda1", "sda", "nvme0n1p1", "nvme0n1"}
       [] OTHER           -> {d}]
=============================================================================
