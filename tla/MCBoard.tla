------------------------------ MODULE MCBoard ------------------------------
EXTENDS Board

\* Every row and column of the keypad.
MCKeysOfPad == (1 .. 4) \X (1 .. 4)

\* Like bleunlock and blelock, they begin and end alike, and neither begins the other.
MCUnlock == <<"b", "u", "k">>
MCLock == <<"b", "k">>
=============================================================================
