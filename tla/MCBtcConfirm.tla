---------------------------- MODULE MCBtcConfirm ----------------------------
EXTENDS BtcConfirm, TLC

CONSTANT a1
=============================================================================
