CONSTANT MaxAttempts = 1
SPECIFICATION Spec
INVARIANT ClearedAtStartup
