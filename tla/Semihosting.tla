----------------------------- MODULE Semihosting ------------------------------
(***************************************************************************)
(* firmware/serial/semihosting.c: every access is a trap the debugger      *)
(* serves while the hart waits.                                            *)
(***************************************************************************)
EXTENDS Integers, Sequences

VARIABLES drv, port, asked, shown

EIO == 5

(* ret is what the trap for SYSERRNO returns. *)
semihosting_errno(ret) == IF ret > 0 THEN -ret ELSE -EIO

(* fd and errno: what the traps for SYSOPEN and SYSERRNO return.  *)
semihosting_open(fd, errno) == IF fd = -1 THEN semihosting_errno(errno) ELSE fd

(* What is found when the debugger answers semihosting_test and ":tt" is    *)
(* opened.  mean: the debugger may leave a part of SYSWRITE unwritten; cut: *)
(* it has done so.                                                          *)
Ports(Fds, Errnos) ==
  [device : {"semihosting"}, outfd : {semihosting_open(fd, e) : fd \in Fds, e \in Errnos},
   mean : BOOLEAN, cut : {FALSE}]

Mine == port.device = "semihosting"

Idle == [at |-> "idle"]

(* A trap that writes s. *)
Written(s) ==
  /\ asked' = asked \o s
  /\ shown' = shown \o s

(* console_putc: SYSWRITEC. *)
console_putc(ch) ==
  /\ Mine /\ drv = Idle
  /\ Written(<<ch>>)
  /\ UNCHANGED <<drv, port>>

(* The call of console_puts. *)
console_puts(str) ==
  /\ Mine /\ drv = Idle
  /\ drv' = [at |-> "puts", str |-> str]
  /\ UNCHANGED <<port, asked, shown>>

(* Without a file, SYSWRITEC for each character. *)
PutsChar ==
  /\ Mine /\ drv.at = "puts" /\ drv.str # <<>>
  /\ port.outfd < 0
  /\ Written(<<Head(drv.str)>>)
  /\ drv' = [drv EXCEPT !.str = Tail(@)]
  /\ UNCHANGED port

(* With a file, one SYSWRITE; that a part was not written is returned by    *)
(* semihosting_write and dropped by semihosting_puts.                       *)
PutsWrite ==
  /\ Mine /\ drv.at = "puts" /\ drv.str # <<>>
  /\ port.outfd >= 0
  /\ \E n \in IF port.mean THEN 0 .. Len(drv.str) ELSE {Len(drv.str)} :
       /\ Written(SubSeq(drv.str, 1, n))
       /\ port' = [port EXCEPT !.cut = @ \/ n < Len(drv.str)]
  /\ drv' = [drv EXCEPT !.str = <<>>]

PutsReturn ==
  /\ Mine /\ drv.at = "puts" /\ drv.str = <<>>
  /\ drv' = Idle
  /\ UNCHANGED <<port, asked, shown>>
=============================================================================
