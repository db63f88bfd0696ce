----------------------------- MODULE MCDirScan -----------------------------
(***************************************************************************)
(* Instances of DirScan for TLC: two levels of directories, files of two   *)
(* sizes, and options that combine the three limits.                       *)
(***************************************************************************)
EXTENDS DirScan

MCPaths == {<<>>, <<1>>, <<2>>, <<1, 1>>, <<1, 2>>}

dir     == [kind |-> "dir"]
other   == [kind |-> "other"]
absent  == [kind |-> "absent"]
file(n) == [kind |-> "file", size |-> n]

Tree(a, b, c, d) ==
  [p \in MCPaths |-> CASE p = <<>> -> a [] p = <<1>> -> b [] p = <<2>> -> c
                       [] p = <<1, 1>> -> d [] OTHER -> file(3)]

MCFileSystems ==
  {Tree(dir, b, c, d) : b \in {dir, [kind |-> "locked"]}, c \in {file(1), file(3), dir}, d \in {file(1), file(3), other}}
    \union {Tree(file(3), absent, absent, absent), Tree(dir, file(3), file(3), absent)}

MCNodes == {absent, dir, file(3)}

Options(ft, sl, min, skip, count, meta) ==
  [ft |-> ft, slash |-> sl,
   min_size |-> min, scan_skip |-> skip, scan_count |-> count, meta_only |-> meta]

MCArgs ==
  {Options("LOCAL", FALSE, 0, 0, 0, FALSE), Options("LOCAL", FALSE, 2, 1, 0, FALSE),
   Options("LOCAL", FALSE, 2, -1, 1, FALSE), Options("LOCAL", FALSE, 0, 1, 1, TRUE),
   Options("PANGU", TRUE, 2, 0, 1, FALSE), Options("PANGU", FALSE, 0, 0, 0, TRUE),
   Options("KVFILE", FALSE, 0, 0, 0, FALSE)}

=============================================================================
