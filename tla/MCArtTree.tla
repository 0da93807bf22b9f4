------------------------------ MODULE MCArtTree ------------------------------
EXTENDS ArtTree
Tiny == <<2, 3, 4, 6>>
MCKeys == {<<1>>, <<1, 1>>, <<1, 1, 1>>, <<1, 1, 2>>, <<1, 1, 3>>, <<1, 1, 4>>, <<1, 1, 5>>}
=============================================================================
