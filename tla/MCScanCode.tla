----------------------------- MODULE MCScanCode -----------------------------
\* ScanCode over the scanner's own field, QR_CODE_FIELD_256, on four payloads.
EXTENDS ScanCode

FiveDollars == CashPayload(0, 141, <<64, 75, 76, 0, 0, 0, 0>>, <<1, 2, 3, 4, 5, 6, 7, 8, 9, 16>>)
\* the whole width of an amount, zero bytes at the front of the nonce
LargeAmount == CashPayload(1, 159, <<255, 255, 255, 255, 255, 255, 127>>, <<0, 0, 3, 4, 5, 6, 7, 8, 9, 1>>)
\* one nonce in 256 ends like this
NonceEndsInZero == CashPayload(0, 141, <<64, 75, 76, 0, 0, 0, 0>>, <<1, 2, 3, 4, 5, 6, 7, 8, 9, 0>>)
\* a profile whose id ends in zeros
Profile == TipPayload(<<63, 37, 4, 224, 79, 137, 65, 211, 154, 12, 0, 0, 0, 0, 0, 0>>)

ShownPayloads == {FiveDollars, LargeAmount, NonceEndsInZero, Profile}

\* In the check bytes, at both ends of them, in the header and in the payload
MisreadBytes == {<<1, 1>>, <<2, 77>>, <<13, 255>>, <<14, 3>>, <<15, 128>>, <<24, 16>>, <<35, 9>>}

\* One byte, six bytes in every way, and all seven
SomeMisreads == {m \in SUBSET MisreadBytes : Cardinality(m) \in {1, 6, 7}}

AllCurrencies == 0..159
=============================================================================
