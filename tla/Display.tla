------------------------------ MODULE Display -------------------------------
(***************************************************************************)
(* The two display drivers.  sys_init (src/kernel/sysinit.c) initialises   *)
(* the one the boot loader's frame buffer is for and names it in           *)
(* sys_config.disp_drv; the kernel draws with that one.  For an indexed    *)
(* frame buffer, and without a tag for one, it initialises neither.        *)
(***************************************************************************)
EXTENDS TextConsole

CONSTANTS Modes, PixelColors, BLANK, Words

(* The lines of every mode fit in video memory. *)
ASSUME ModesAssumption ==
  /\ Words \in Nat
  /\ \A m \in Modes : /\ {m.h, m.w, m.pitch} \subseteq Nat
                      /\ m.h * m.pitch <= 4 * Words

VARIABLES disp_drv, mode, __vbe_info, fb

Vbe == INSTANCE Vbe

picture == <<disp_drv, mode, __vbe_info, fb>>

DisplayInit ==
  /\ Init
  /\ Vbe!Init
  /\ disp_drv \in {"text", "rgb", "indexed"}

TextNext == disp_drv = "text" /\ Next /\ UNCHANGED picture

RgbNext == disp_drv = "rgb" /\ Vbe!Next /\ UNCHANGED <<vars, disp_drv>>

DisplaySpec ==
  DisplayInit /\ [][TextNext \/ RgbNext]_<<vars, picture>>

(* A picture, whichever driver is in use. *)
ImplementsCanvas == Vbe!ImplementsCanvas

=============================================================================
