\* Whether the output buffer define allocates can hold every value of the column.
INIT Init
NEXT Next
INVARIANT DefineBufferHoldsValue
