------------------------------- MODULE MCCodec -------------------------------
EXTENDS Codec
=============================================================================
