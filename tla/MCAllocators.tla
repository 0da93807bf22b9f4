---------------------------- MODULE MCAllocators -----------------------------
EXTENDS Allocators
CONSTANTS ch1, ch2
MCTexts == {<<>>, <<ch1>>, <<ch2, ch1, ch1>>}
=============================================================================
