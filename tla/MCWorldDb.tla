------------------------------ MODULE MCWorldDb ------------------------------
(* Two callers; a sequence that overflows within a second; each assumption  *)
(* of ItemSNUnique dropped in one setting.  Two overlapping calls are two   *)
(* creations, two removals of the same items, or one of each.               *)
EXTENDS WorldDb

MCDefaultItems == << 101, 501 >>
Setting(callers, restart, c, stored, n) ==
    [callers |-> callers, restart |-> restart, clock |-> c, stored |-> stored,
     calls |-> n]
MCSettings == {Setting(1, "later", "forward", FALSE, 3),
               Setting(2, "later", "forward", TRUE, 2),
               Setting(2, "later", "forward", FALSE, 2),
               Setting(1, "any", "forward", FALSE, 2),
               Setting(1, "later", "back", FALSE, 2)}
==============================================================================
