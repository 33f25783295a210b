SPECIFICATION Spec
PROPERTIES ReceiptedStays
CHECK_DEADLOCK FALSE
