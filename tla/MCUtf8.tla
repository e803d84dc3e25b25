-------------------------------- MODULE MCUtf8 --------------------------------
(***************************************************************************)
(* The octets on both sides of every bound that the code or UTF-8 sets.    *)
(***************************************************************************)
EXTENDS Utf8Safety

Boundaries ==
    {0, 127, 128, 143, 144, 159, 160, 191, 192, 193, 194, 223, 224, 225, 236, 237, 238, 239,
     240, 241, 243, 244, 245, 247, 248, 255}
===============================================================================
