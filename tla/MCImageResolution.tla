------------------------- MODULE MCImageResolution -------------------------
(* A small instance of the image resolution for TLC. *)
EXTENDS ImageResolution

CONSTANTS python, script, custom, other, b1, b2

\* Package names are sequences of letters.
A == <<"a">>
B == <<"b">>
TwoPackages == <<A, B>>
Lists == {<<>>, <<B, A>>}

Option(t, runtime, packages, setup) ==
    [tag |-> t, runtime |-> runtime, packages |-> packages, setup |-> setup]
OnePrebuilt == <<Option(custom, python, {A}, None)>>
ThreeOptions == {Option(custom, python, {A, B}, None), Option(custom, python, {A}, script),
                 Option(other, python, {B}, script)}

\* Builders are interchangeable.
Symmetric == Permutations(Builders)
=============================================================================
