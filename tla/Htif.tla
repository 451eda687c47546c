--------------------------------- MODULE Htif ---------------------------------
(***************************************************************************)
(* firmware/serial/htif.c, and the host that reads tohost and answers in   *)
(* fromhost.  The mailbox is where the device tree says (custom) or where  *)
(* the image was linked; each has its own two words.                       *)
(***************************************************************************)
EXTENDS Integers, Sequences

VARIABLES drv, port, asked, shown

Zero == <<>>

HTIF_DEV_SYSTEM == 0
HTIF_DEV_CONSOLE == 1
HTIF_CONSOLE_CMD_GETC == 0
HTIF_CONSOLE_CMD_PUTC == 1

TOHOST_CMD(dev, cmd, payload) == <<dev, cmd, payload>>
FROMHOST_DEV(fh) == fh[1]
FROMHOST_CMD(fh) == fh[2]

(* patient: the host takes nothing while an answer of its own is unread.    *)
Ports(Xlens) ==
  [device : {"htif"}, xlen : Xlens, htif_custom : BOOLEAN, patient : BOOLEAN,
   tohost : {[c \in BOOLEAN |-> Zero]}, fromhost : {[c \in BOOLEAN |-> Zero]}]

Mine == port.device = "htif"

Idle == [at |-> "idle"]

read_tohost == port.tohost[port.htif_custom]
write_tohost(val) == port' = [port EXCEPT !.tohost[port.htif_custom] = val]
read_fromhost == port.fromhost[port.htif_custom]
write_fromhost(val) == port' = [port EXCEPT !.fromhost[port.htif_custom] = val]

Goto(label) == drv' = [drv EXCEPT !.at = label]

console_putc(ch) ==
  /\ Mine /\ drv = Idle
  /\ drv' = [at |-> "set_tohost", back |-> "set_tohost", ch |-> ch, fh |-> Zero]
  /\ asked' = Append(asked, ch)
  /\ UNCHANGED <<port, shown>>

(* The loop condition of __set_tohost. *)
SetTohost ==
  /\ Mine /\ drv.at = "set_tohost"
  /\ Goto(IF read_tohost = Zero THEN "write_tohost" ELSE "check_fromhost")
  /\ UNCHANGED <<port, asked, shown>>

(* __check_fromhost: an answer is taken out ... *)
CheckFromhost ==
  /\ Mine /\ drv.at = "check_fromhost"
  /\ IF read_fromhost = Zero THEN Goto(drv.back)
     ELSE drv' = [drv EXCEPT !.at = "clear_fromhost", !.fh = read_fromhost]
  /\ UNCHANGED <<port, asked, shown>>

(* ... and must be the console's: a character that was typed, which nobody  *)
(* reads, or that putc was done.                                            *)
ClearFromhost ==
  /\ Mine /\ drv.at = "clear_fromhost"
  /\ write_fromhost(Zero)
  /\ Goto(IF /\ FROMHOST_DEV(drv.fh) = HTIF_DEV_CONSOLE
             /\ FROMHOST_CMD(drv.fh) \in {HTIF_CONSOLE_CMD_GETC, HTIF_CONSOLE_CMD_PUTC}
          THEN drv.back ELSE "trap")
  /\ UNCHANGED <<asked, shown>>

(* With 64 bits the command holds the character, with 32 the address of     *)
(* magic_mem, which names it.                                               *)
WriteTohost ==
  /\ Mine /\ drv.at = "write_tohost"
  /\ IF port.xlen = 64
     THEN /\ write_tohost(TOHOST_CMD(HTIF_DEV_CONSOLE, HTIF_CONSOLE_CMD_PUTC, drv.ch))
          /\ drv' = Idle
     ELSE /\ write_tohost(TOHOST_CMD(HTIF_DEV_SYSTEM, 0, "magic_mem"))
          /\ drv' = [drv EXCEPT !.at = "wait", !.back = "wait"]
  /\ UNCHANGED <<asked, shown>>

(* The end of do_tohost_fromhost, with 32 bits only.  It looks for the      *)
(* answer in the linked fromhost, wherever the mailbox is.                  *)
Wait ==
  /\ Mine /\ drv.at = "wait"
  /\ LET fh == port.fromhost[FALSE] IN
     /\ fh # Zero
     /\ IF FROMHOST_DEV(fh) = HTIF_DEV_SYSTEM /\ FROMHOST_CMD(fh) = 0
        THEN port' = [port EXCEPT !.fromhost[FALSE] = Zero] /\ drv' = Idle
        ELSE Goto("check_fromhost") /\ UNCHANGED port
  /\ UNCHANGED <<asked, shown>>

(* The host takes a command and shows the character.  It answers a system   *)
(* call always, and a putc if it likes and the last answer is gone.         *)
Take ==
  LET c == port.htif_custom
      cmd == port.tohost[c]
  IN /\ Mine /\ cmd # Zero
     /\ port.patient \/ cmd[1] = HTIF_DEV_SYSTEM => port.fromhost[c] = Zero
     /\ shown' = Append(shown, IF cmd[1] = HTIF_DEV_SYSTEM THEN drv.ch ELSE cmd[3])
     /\ \E answer \in IF cmd[1] = HTIF_DEV_SYSTEM THEN {<<HTIF_DEV_SYSTEM, 0, 1>>}
                      ELSE IF port.fromhost[c] = Zero
                      THEN {Zero, <<HTIF_DEV_CONSOLE, HTIF_CONSOLE_CMD_PUTC, 0>>}
                      ELSE {port.fromhost[c]} :
          port' = [port EXCEPT !.tohost[c] = Zero, !.fromhost[c] = answer]
     /\ UNCHANGED <<drv, asked>>

=============================================================================
