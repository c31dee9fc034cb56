-------------------------------- MODULE MCSeer --------------------------------
EXTENDS Seer

\* Transactions 1 and 2 of one caller differ in the nonce only; 3 reverts when
\* it is the first on its slot.
MCFingerprint == <<"f", "f", "g">>
MCSlot == <<"x", "x", "y">>
MCFails == <<9, 9, 0>>
===============================================================================
