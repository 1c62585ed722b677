----------------------------- MODULE MCDevices -----------------------------
(* Console, terminal, block layer and driver bring-up.  They have no state *)
(* in common, so a behaviour exercises one of them; of the console, the    *)
(* writers or the reader, which share only the hardware.                   *)
EXTENDS Console, Terminal, FbGeometry, Block, Drivers

VARIABLE part

\* Device trees: what the kernel needs and up to three virtio devices, or
\* one that lacks a device.
MCTrees ==
    {<<"timer", "uart", "gic">> \o v: v \in UNION {[1 .. n -> {"block", "net", "none"}]: n \in 0 .. 3}}
      \cup {<<"uart", "gic">>, <<"timer">>}

-----------------------------------------------------------------------------
(* The messages of the terminal: text, control characters, every command   *)
(* of a control sequence, colours, modes, and sequences that are cut,      *)
(* malformed or at a limit.                                                *)
X == 120
Csi(params, final) == <<ESC, 91>> \o params \o <<final>>
Mode(v, on) == <<ESC, 91, 63>> \o v \o <<IF on THEN Letter.h ELSE Letter.l>>

Text == {<<X>>, <<X, X, X, X>>, <<X, 10, X>>, <<13, X, 8>>, <<9, X, X>>,
         <<14, 97, 15>>, <<ESC, 41, 66>>, <<11, 0, 127>>}
Moving == {Csi(<<50>>, c): c \in Moves} \cup {Csi(<<50, 59, 50>>, Letter.H)}
Editing == {Csi(<<49>>, c): c \in {Letter.M, Letter.L, Letter.S, Letter.T, 64,
                                   Letter.P, Letter.X, Letter.b}}
           \cup {Csi(<<v>>, c): v \in 48 .. 50, c \in {Letter.J, Letter.K}}
Region == {Csi(<<50, 59, 51>>, Letter.r), Csi(<<49, 59, 50>>, Letter.r),
           Csi(<<51, 59, 49>>, Letter.r), <<ESC, Letter.D>>, <<ESC, Letter.M>>,
           <<ESC, Letter.E>>}
Modes == {Mode(<<54>>, TRUE), Mode(<<55>>, FALSE), Mode(<<50, 53>>, FALSE),
          Mode(<<49, 48, 52, 57>>, TRUE), Mode(<<49, 48, 52, 57>>, FALSE),
          Csi(<<52>>, Letter.h), <<ESC, 55>>, <<ESC, 56>>, <<ESC, Letter.c>>}
Colour == {Csi(<<>>, Letter.m), Csi(<<49, 59, 51, 49>>, Letter.m),
           Csi(<<55>>, Letter.m), Csi(<<50, 50, 59, 50, 53>>, Letter.m),
           Csi(<<51, 56, 59, 53, 59, 57>>, Letter.m), Csi(<<52, 57, 59, 53>>, Letter.m)}
Odd == {<<ESC>>, <<ESC, 91>>, <<91>>, <<50, 59>>, <<ESC, 93, X, X, X>>, <<7>>,
        <<24>>, <<195>>, <<169, X>>, <<226, 130, 172>>, <<227, 129, 130>>,
        <<240, 128>>, <<ESC, 91, 91, 65>>, Csi(<<36>>, X),
        Csi(<<59, 59, 59, 59, 59, 59, 57, 57, 57>>, Letter.A)}

White == [color |-> 7, bright |-> TRUE]
Black == [color |-> 0, bright |-> FALSE]
MCEvents == {[fg |-> White, bg |-> Black, msg |-> m]:
               m \in Text \cup Moving \cup Editing \cup Region \cup Modes
                     \cup Colour \cup Odd}

-----------------------------------------------------------------------------
(* Builds and calls for the set-up of the framebuffer.                     *)
MCBuilds == {[pool |-> 873000, aw |-> 16, ah |-> 10, base |-> 4],
             [pool |-> 873000, aw |-> 16, ah |-> 9, base |-> 0]}
            \cup {[pool |-> p, aw |-> 4, ah |-> 3, base |-> 4]: p \in {44000, 30000, 512}}
Good == [size |-> 8, shift |-> 16, equal |-> TRUE]
Call(w, h, pitch, r, s, m, k) ==
    [width |-> w, height |-> h, pitch |-> pitch, rotation |-> r, scale |-> s,
     margin |-> m, mask |-> k]
MCCalls ==
    {Call(w, h, 4 * w, r, s, m, Good):
       w \in {1, 11, 12, 33, 640, 1849, 2560, 5121}, h \in {1, 18, 41, 1157, 1440, 2881},
       r \in {0, 90, 180, 270}, s \in {0, 3}, m \in {0, 1}}
    \cup {Call(64, 64, p, 0, 0, 1, Good): p \in {252, 258, 320}}
    \cup {Call(64, 64, 256, 0, 0, 1, k):
            k \in {[size |-> 8, shift |-> 26, equal |-> TRUE],
                   [size |-> 6, shift |-> 0, equal |-> TRUE],
                   [size |-> 8, shift |-> 0, equal |-> FALSE]}}
    \cup {Call(SizeMax - 7, 64, SizeMax - 3, 0, 0, 1, Good)}

-----------------------------------------------------------------------------
MCInit ==
    /\ part \in {"write", "receive", "text", "setup", "block", "drivers"}
    /\ ConsoleInit /\ TermInit /\ GeometryInit /\ BlockInit /\ DriversInit
    /\ part # "write" => level = CHOOSE l \in Levels: TRUE
    /\ part # "setup" => build = CHOOSE b \in Builds: TRUE
    /\ part # "drivers" => Len(list) = 1

terminal == <<term, written, flushed, geometryVars>>

MCNext ==
    /\ UNCHANGED part
    /\ \/ part = "write" /\ Writing /\ UNCHANGED <<terminal, blockVars, driverVars>>
       \/ part = "receive" /\ Receiving /\ UNCHANGED <<terminal, blockVars, driverVars>>
       \/ part = "text" /\ TermNext /\ UNCHANGED <<geometryVars, consoleVars, blockVars, driverVars>>
       \/ part = "setup" /\ GeometryNext
            /\ UNCHANGED <<term, written, flushed, consoleVars, blockVars, driverVars>>
       \/ part = "block" /\ BlockNext /\ UNCHANGED <<consoleVars, terminal, driverVars>>
       \/ part = "drivers" /\ DriversNext /\ UNCHANGED <<consoleVars, terminal, blockVars>>

MCSpec == MCInit /\ [][MCNext]_<<part, consoleVars, terminal, blockVars, driverVars>>
=============================================================================
