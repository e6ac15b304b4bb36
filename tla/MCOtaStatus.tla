---------------------------- MODULE MCOtaStatus ----------------------------
EXTENDS OtaStatus

OneFinal == {"SUCCEEDED"}
=============================================================================
