--------------------------- MODULE MCPresentation ---------------------------
(***************************************************************************)
(* A small instance of Presentation.                                         *)
(*                                                                           *)
(* Windows of every shape from portrait to wider than the renderer allows:   *)
(* the desktop sizes in use, and sizes a player may drag a window to.        *)
(*                                                                           *)
(* Scenes after docs/OAM_SURVEY.md: gameplay with bars of several lengths,   *)
(* boss fights, the player's sprites in the slots of the boss bar, and       *)
(* cutscenes with actors in the slots of all bars.                           *)
(***************************************************************************)
EXTENDS Presentation

Size(w, h) == [width |-> w, height |-> h]

MCDrawables ==
  {Size(1920, 1080), Size(1920, 1200), Size(2560, 1080), Size(3440, 1440),
   Size(1280, 1024), Size(1600, 1200), Size(5120, 1440), Size(1080, 1920),
   Size(866, 648), Size(2267, 1488)}
  \cup {Size(w, h) : w \in {321, 333, 997},
                     h \in {239, 449, 1001}}
MCResizedTo == {Size(1920, 1080), Size(333, 239)}
\* kWsExtraMax is the framework's; 214 gives the 684 pixels that
\* docs/WIDESCREEN.md calls the widest view.
MCExtraMax == 214

\* Cameras on both sides of page edges and at both ends of the 16 bits.
MCCameras == {0, 1, 127, 128, 129, 255, 256, 1023, 65407, 65535}
MCOffsets == {-127, -126, -64, -1, 0, 1, 64, 126, 127}

Sprite(is, x, y, tile, attr) == [is |-> is, x |-> x, y |-> y, tile |-> tile, attr |-> attr]
Parked == Sprite("parked", 8, 224, 0, \h34)
Hp(n) == Sprite("hp", 8, 80 - 16 * n, IF n = 0 THEN \h86 ELSE \h80, \h34)
Weapon(n) == Sprite("weapon", 24, 80 - 12 * n, \h90, \h36)
Boss(n) == Sprite("boss", 232, 80 - 13 * n, \h88, \h34)
Player(x) == Sprite("player", x, 60, \h20, \h62)
Actor(x, y, attr) == Sprite("actor", x, y, \h86, attr)

\* length of the health bar, weapon equipped, boss fight, where the player is
Gameplay(length, weapon, boss, player) ==
  [slot \in 0..23 |->
    CASE slot < length            -> Hp(slot)
      [] slot \in 7..13 /\ weapon -> Weapon(slot - 7)
      [] slot \in 16..22 /\ boss  -> Boss(slot - 16)
      [] slot \in 16..23 /\ ~boss -> Player(player)
      [] OTHER                    -> Parked]

\* Actors in every slot; one of them like the icon, or a column of them.
Cutscene(x, attr, icon) ==
  [slot \in 0..23 |-> IF slot = 0 /\ icon THEN Actor(8, 80, \h34) ELSE Actor(x, 40, attr)]

MCScenes ==
  {Gameplay(length, length = 6, boss, player) :
     length \in 5..6, boss \in BOOLEAN, player \in {232, 264}}
  \cup {Cutscene(x, attr, icon) : x \in {0, 232}, attr \in {\h34, \h29}, icon \in BOOLEAN}
  \cup {Cutscene(8, \h29, TRUE)}
MCRooms == {<<0, 4>>, <<12, 4>>}
=============================================================================
