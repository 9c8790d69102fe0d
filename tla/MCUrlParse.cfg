\* parse_db_string on connection strings of the spec's shape.
INIT Init
NEXT Next
INVARIANT ParseInvertsFormat
