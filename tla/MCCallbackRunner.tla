-------------------------- MODULE MCCallbackRunner --------------------------
EXTENDS CallbackRunner

\* A word whose two bytes both change between the two items.
MCByte  == {0, 1}
MCBlank == <<1, 1>>
MCItems == {<<0, 0>>, <<1, 1>>}
=============================================================================
