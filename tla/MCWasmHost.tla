----------------------------- MODULE MCWasmHost -----------------------------
EXTENDS WasmHost, TLC

Interchangeable == Permutations(Value)
=============================================================================
